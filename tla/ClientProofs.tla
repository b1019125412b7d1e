------------------------------ MODULE ClientProofs ------------------------------
(* What a client does before the schedulers work.  First, what the          *)
(* generated workload is for every number of tasks and every argument: the  *)
(* numbers of the tasks are a topological order of it, every task is in it, *)
(* and a fan in DAG is a fan out DAG turned round; and what the schedulers  *)
(* find in ZHT while they run it: the number of parents that have not run.  *)
(* Then the cache in which ZHT's client keeps its sockets (LRUCache).       *)
EXTENDS Workload, FiniteSetTheorems, WellFoundedInduction, TLAPS

(* A larger factor makes a product that is larger by at least one factor. *)
LEMMA ProductGrows ==
    ASSUME NEW i \in Nat, NEW k \in Nat, NEW a \in Nat, i < k
    PROVE  i * a + a <= k * a
<1>1. PICK d \in Nat : k = i + 1 + d
    <2>1. k - i - 1 \in Nat /\ k = i + 1 + (k - i - 1)
        OBVIOUS
    <2> QED BY <2>1
<1>2. k * a = i * a + a + d * a
    BY <1>1
<1>3. d * a \in Nat /\ i * a \in Nat
    OBVIOUS
<1> QED BY <1>2, <1>3

(* A child in a fan out DAG has a larger number than its parent. *)
LEMMA FanOutForward ==
    ASSUME NEW n \in Nat, NEW a \in Nat \ {0}, NEW i \in Nodes(n), NEW k \in FanOut(n, a)[i]
    PROVE  i \in Nat /\ k \in Nodes(n) /\ i < k
<1>1. i \in Nat /\ k \in Nodes(n)
    BY DEF FanOut, Nodes
<1>2. PICK j \in 1 .. a : k = i * a + j
    BY DEF FanOut, Nodes
<1>3. i * a \in Nat /\ i <= i * a
    <2>1. CASE i = 0
        BY <2>1
    <2>2. CASE i # 0
        <3>1. PICK b \in Nat : a = b + 1
            <4>1. a - 1 \in Nat /\ a = (a - 1) + 1
                OBVIOUS
            <4> QED BY <4>1
        <3>2. i * a = i * b + i
            BY <3>1, <1>1
        <3>3. i * b \in Nat
            BY <1>1, <3>1
        <3> QED BY <3>2, <3>3, <1>1
    <2> QED BY <2>1, <2>2
<1>4. j \in Nat /\ 1 <= j
    OBVIOUS
<1> QED BY <1>1, <1>2, <1>3, <1>4

(* Every task but the first has a parent in a fan out DAG. *)
LEMMA FanOutOnto ==
    ASSUME NEW n \in Nat, NEW a \in Nat \ {0}, NEW c \in Nodes(n), c # 0
    PROVE  \E i \in Nodes(n) : c \in FanOut(n, a)[i]
<1> DEFINE q == (c - 1) \div a
           r == (c - 1) % a
<1>1. c \in Nat /\ c - 1 \in Nat /\ c < n
    BY DEF Nodes
<1>2. q \in Nat /\ r \in Nat /\ r < a /\ c - 1 = a * q + r
    BY <1>1
<1> HIDE DEF q, r
<1>3. c = q * a + (r + 1) /\ r + 1 \in 1 .. a
    BY <1>1, <1>2
<1>4. q * a \in Nat /\ q <= q * a
    <2>1. PICK b \in Nat : a = b + 1
        <3>1. a - 1 \in Nat /\ a = (a - 1) + 1
            OBVIOUS
        <3> QED BY <3>1
    <2>2. q * a = q * b + q /\ q * b \in Nat
        BY <2>1, <1>2
    <2> QED BY <2>2, <1>2
<1>5. q \in Nodes(n)
    BY <1>1, <1>2, <1>3, <1>4 DEF Nodes
<1>6. c \in FanOut(n, a)[q]
    BY <1>3, <1>5 DEF FanOut
<1> QED BY <1>5, <1>6

(* A task has one parent in a fan out DAG. *)
LEMMA FanOutParentUnique ==
    ASSUME NEW n \in Nat, NEW a \in Nat \ {0}, NEW c,
           NEW i \in Nodes(n), NEW k \in Nodes(n),
           c \in FanOut(n, a)[i], c \in FanOut(n, a)[k]
    PROVE  i = k
<1>1. i \in Nat /\ k \in Nat /\ i * a \in Nat /\ k * a \in Nat
    BY DEF Nodes
<1>2. PICK j \in 1 .. a : c = i * a + j
    BY DEF FanOut
<1>3. PICK l \in 1 .. a : c = k * a + l
    BY DEF FanOut
<1>4. ASSUME i < k PROVE FALSE
    <2>1. i * a + a <= k * a
        BY <1>1, <1>4, ProductGrows
    <2> QED BY <1>1, <1>2, <1>3, <2>1
<1>5. ASSUME k < i PROVE FALSE
    <2>1. k * a + a <= i * a
        BY <1>1, <1>5, ProductGrows
    <2> QED BY <1>1, <1>2, <1>3, <2>1
<1> QED BY <1>1, <1>4, <1>5

(* A fan in DAG has every task, its edges lead forward, and they are the    *)
(* edges of the fan out DAG turned round.                                   *)
LEMMA FanInShape ==
    ASSUME NEW n \in Nat \ {0}, NEW a \in Nat \ {0}
    PROVE  /\ FanIn(n, a) \in [Nodes(n) -> SUBSET Nodes(n)]
           /\ \A t \in Nodes(n) : \A k \in FanIn(n, a)[t] : t < k /\ k < n
           /\ \A t, k \in Nodes(n) :
                 k \in FanIn(n, a)[t] <=> n - 1 - t \in FanOut(n, a)[n - 1 - k]
<1> DEFINE from(t) == {i \in Nodes(n) : n - 1 - t \in FanOut(n, a)[i]}
           first(s) == CHOOSE i \in s : \A j \in s : i <= j
           D == {u \in Nodes(n) : from(u) # {}} \cup {n - 1}
<1>1. FanIn(n, a) = [t \in D |-> IF from(t) = {} THEN {} ELSE {n - 1 - first(from(t))}]
    BY DEF FanIn
<1>2. n - 1 \in Nodes(n)
    BY DEF Nodes
<1>3. ASSUME NEW t \in Nodes(n), t # n - 1 PROVE from(t) # {}
    <2>1. n - 1 - t \in Nodes(n) /\ n - 1 - t # 0
        BY <1>3 DEF Nodes
    <2>2. PICK i \in Nodes(n) : n - 1 - t \in FanOut(n, a)[i]
        BY <2>1, FanOutOnto
    <2> QED BY <2>2
<1>4. D = Nodes(n)
    BY <1>2, <1>3
<1>5. ASSUME NEW t \in Nodes(n), NEW i \in Nodes(n), n - 1 - t \in FanOut(n, a)[i]
      PROVE  FanIn(n, a)[t] = {n - 1 - i}
    <2>1. i \in from(t) /\ \A j \in from(t) : j = i
        BY <1>5, FanOutParentUnique
    <2>2. \A j \in from(t) : i <= j
        BY <2>1 DEF Nodes
    <2>3. first(from(t)) \in from(t)
        BY <2>1, <2>2
    <2>4. first(from(t)) = i
        BY <2>1, <2>3
    <2> HIDE DEF from, first
    <2> QED BY <1>1, <1>4, <2>1, <2>4
<1>6. ASSUME NEW t \in Nodes(n), from(t) = {} PROVE FanIn(n, a)[t] = {}
    BY <1>1, <1>4, <1>6
<1>7. ASSUME NEW t \in Nodes(n), NEW k \in FanIn(n, a)[t]
      PROVE  \E i \in Nodes(n) : n - 1 - t \in FanOut(n, a)[i] /\ k = n - 1 - i
    <2>1. PICK i \in Nodes(n) : n - 1 - t \in FanOut(n, a)[i]
        BY <1>6, <1>7
    <2> QED BY <1>5, <1>7, <2>1
<1>8. ASSUME NEW t \in Nodes(n), NEW k \in FanIn(n, a)[t] PROVE t < k /\ k < n
    <2>1. PICK i \in Nodes(n) : n - 1 - t \in FanOut(n, a)[i] /\ k = n - 1 - i
        BY <1>7
    <2>2. i \in Nat /\ i < n - 1 - t
        BY <2>1, FanOutForward
    <2>3. t \in Nat
        BY DEF Nodes
    <2> QED BY <2>1, <2>2, <2>3
<1>9. ASSUME NEW t \in Nodes(n), NEW k \in Nodes(n)
      PROVE  k \in FanIn(n, a)[t] <=> n - 1 - t \in FanOut(n, a)[n - 1 - k]
    <2>1. ASSUME k \in FanIn(n, a)[t] PROVE n - 1 - t \in FanOut(n, a)[n - 1 - k]
        <3>1. PICK i \in Nodes(n) : n - 1 - t \in FanOut(n, a)[i] /\ k = n - 1 - i
            BY <1>7, <2>1
        <3>2. n - 1 - k = i
            BY <3>1 DEF Nodes
        <3> QED BY <3>1, <3>2
    <2>2. ASSUME n - 1 - t \in FanOut(n, a)[n - 1 - k] PROVE k \in FanIn(n, a)[t]
        <3>1. n - 1 - k \in Nodes(n) /\ n - 1 - (n - 1 - k) = k
            BY DEF Nodes
        <3>2. FanIn(n, a)[t] = {n - 1 - (n - 1 - k)}
            BY <1>5, <2>2, <3>1
        <3> QED BY <3>1, <3>2
    <2> QED BY <2>1, <2>2
<1>10. FanIn(n, a) \in [Nodes(n) -> SUBSET Nodes(n)]
    <2>1. ASSUME NEW t \in Nodes(n), NEW k \in FanIn(n, a)[t] PROVE k \in Nodes(n)
        <3>1. PICK i \in Nodes(n) : k = n - 1 - i
            BY <1>7
        <3> QED BY <3>1 DEF Nodes
    <2>2. ASSUME NEW t \in Nodes(n) PROVE FanIn(n, a)[t] \in SUBSET Nodes(n)
        BY <2>1
    <2> HIDE DEF from, first
    <2>3. FanIn(n, a) = [t \in Nodes(n) |-> FanIn(n, a)[t]]
        BY <1>1, <1>4
    <2> QED BY <2>2, <2>3
<1> QED BY <1>8, <1>9, <1>10

(* The same of every generator. *)
LEMMA GeneratedShape ==
    ASSUME NEW type \in {"BOT", "FanOut", "FanIn", "Pipeline"},
           NEW n \in Nat \ {0}, NEW a \in Nat \ {0}
    PROVE  LET adj == GenDagAdjlist(type, a, n)
           IN /\ DOMAIN adj = Nodes(n)
              /\ \A i \in Nodes(n) : \A k \in adj[i] : i < k /\ k < n
<1>1. CASE type = "BOT"
    <2>1. GenDagAdjlist(type, a, n) = Bot(n)
        BY <1>1 DEF GenDagAdjlist
    <2> QED BY <2>1 DEF Bot
<1>2. CASE type = "FanOut"
    <2>1. GenDagAdjlist(type, a, n) = FanOut(n, a)
        BY <1>2 DEF GenDagAdjlist
    <2>2. DOMAIN FanOut(n, a) = Nodes(n)
        BY DEF FanOut
    <2>3. ASSUME NEW i \in Nodes(n), NEW k \in FanOut(n, a)[i] PROVE i < k /\ k < n
        <3>1. i < k /\ k \in Nodes(n)
            BY FanOutForward
        <3> QED BY <3>1 DEF Nodes
    <2> QED BY <2>1, <2>2, <2>3
<1>3. CASE type = "FanIn"
    <2>1. GenDagAdjlist(type, a, n) = FanIn(n, a)
        BY <1>3 DEF GenDagAdjlist
    <2> QED BY <2>1, FanInShape
<1>4. CASE type = "Pipeline"
    <2>1. GenDagAdjlist(type, a, n) = Pipeline(n, a)
        BY <1>4 DEF GenDagAdjlist
    <2>2. DOMAIN Pipeline(n, a) = Nodes(n)
        BY DEF Pipeline
    <2>3. ASSUME NEW i \in Nodes(n), NEW k \in Pipeline(n, a)[i] PROVE i < k /\ k < n
        <3>1. k = i + 1 /\ i + 1 < n
            BY <2>3 DEF Pipeline
        <3> QED BY <3>1 DEF Nodes
    <2> QED BY <2>1, <2>2, <2>3
<1> QED BY <1>1, <1>2, <1>3, <1>4

(* The children of a task are tasks. *)
LEMMA AdjTyped ==
    ASSUME NEW type \in {"BOT", "FanOut", "FanIn", "Pipeline"},
           NEW n \in Nat \ {0}, NEW a \in Nat \ {0}
    PROVE  GenDagAdjlist(type, a, n) \in [Nodes(n) -> SUBSET Nodes(n)]
<1>1. CASE type = "BOT"
    BY <1>1 DEF GenDagAdjlist, Bot
<1>2. CASE type = "FanOut"
    <2>1. GenDagAdjlist(type, a, n) = FanOut(n, a)
        BY <1>2 DEF GenDagAdjlist
    <2> QED BY <2>1 DEF FanOut
<1>3. CASE type = "FanIn"
    <2>1. GenDagAdjlist(type, a, n) = FanIn(n, a)
        BY <1>3 DEF GenDagAdjlist
    <2> QED BY <2>1, FanInShape
<1>4. CASE type = "Pipeline"
    <2>1. GenDagAdjlist(type, a, n) = Pipeline(n, a)
        BY <1>4 DEF GenDagAdjlist
    <2>2. \A i \in Nodes(n) : i + 1 < n => i + 1 \in Nodes(n)
        BY DEF Nodes
    <2> QED BY <2>1, <2>2 DEF Pipeline
<1> QED BY <1>1, <1>2, <1>3, <1>4

-----------------------------------------------------------------------------
(* The configuration is fixed, and the list is the generated one. *)
Generated ==
    /\ dagType \in {"BOT", "FanOut", "FanIn", "Pipeline"}
    /\ dagArg \in Nat \ {0} /\ numTask \in Nat \ {0}
    /\ dagAdjList = GenDagAdjlist(dagType, dagArg, numTask)

(* The workload does not change once it is generated. *)
LEMMA GeneratedInvariant == Spec => []Generated
<1>1. Init => Generated
    BY WorkloadAssumption DEF Init, Generated
<1>2. Generated /\ [Next]_vars => Generated'
    <2> SUFFICES ASSUME Generated, [Next]_vars PROVE Generated'
        OBVIOUS
    <2>1. UNCHANGED <<dagType, dagArg, numTask, dagAdjList>>
        BY Zenon DEF Next, InsertTaskInfo, Execute, vars
    <2> QED BY <2>1 DEF Generated
<1> QED BY <1>1, <1>2, PTL DEF Spec

(* The numbers of the tasks are a topological order of the workload that    *)
(* gen_dag_adjlist makes, for every DagType, DagArgument and number of      *)
(* tasks: the workload has no cycle, and no child outside of it.            *)
THEOREM WorkloadAcyclic == Spec => []EdgesForward
<1>1. Generated => EdgesForward
    <2> SUFFICES ASSUME Generated PROVE EdgesForward
        OBVIOUS
    <2>1. /\ DOMAIN dagAdjList = Nodes(numTask)
          /\ \A i \in Nodes(numTask) : \A k \in dagAdjList[i] : i < k /\ k < numTask
        BY GeneratedShape DEF Generated
    <2> QED BY <2>1 DEF EdgesForward
<1> QED BY <1>1, GeneratedInvariant, PTL

(* gen_dag_adjlist has an entry for every task that init_task makes, so     *)
(* that each task that is submitted has metadata in ZHT, for every DagType, *)
(* DagArgument and number of tasks.                                         *)
THEOREM WorkloadComplete == Spec => []EveryTaskHasMetadata
<1>1. Generated => EveryTaskHasMetadata
    BY GeneratedShape DEF Generated, EveryTaskHasMetadata
<1> QED BY <1>1, GeneratedInvariant, PTL

(* gen_fanin_adjlist turns the edges of the fan out DAG round, for every    *)
(* DagArgument and number of tasks.                                         *)
THEOREM FanInCorrect == Spec => []FanInMirrorsFanOut
<1>1. Generated => FanInMirrorsFanOut
    <2> SUFFICES ASSUME Generated, dagType = "FanIn"
                 PROVE  \A i, k \in Nodes(numTask) :
                            k \in dagAdjList[i] <=>
                                numTask - 1 - i \in FanOut(numTask, dagArg)[numTask - 1 - k]
        BY DEF FanInMirrorsFanOut
    <2>1. dagAdjList = FanIn(numTask, dagArg)
        BY DEF Generated, GenDagAdjlist
    <2>2. numTask \in Nat \ {0} /\ dagArg \in Nat \ {0}
        BY DEF Generated
    <2> QED BY <2>1, <2>2, FanInShape
<1> QED BY <1>1, GeneratedInvariant, PTL
-----------------------------------------------------------------------------
(* The indegrees in ZHT. *)

(* The ids that task_id makes are different for different tasks.  It holds  *)
(* of up to ten clients, and not of clients 1 and 11 with twelve tasks.     *)
IdsDiffer ==
    \A c, d \in Clients : \A i, k \in Nodes(MaxTask) :
        TaskId(c, i) = TaskId(d, k) => c = d /\ i = k

(* The parents of task i of client c that have not run. *)
ParentsLeft(c, i) == {p \in Nodes(numTask) : i \in dagAdjList[p] /\ TaskId(c, p) \notin ran}

(* ZHT has the metadata of the tasks that were inserted: their children,    *)
(* and the number of parents that have not run.  None runs before all have  *)
(* been inserted.                                                           *)
MetadataInv ==
    /\ Generated /\ numTask <= MaxTask
    /\ dagInDegree = GenDagIndegree(dagAdjList)
    /\ next \in [Clients -> 0 .. numTask]
    /\ \A id : id \in DOMAIN zht <=> \E c \in Clients : \E i \in Nodes(next[c]) : id = TaskId(c, i)
    /\ \A c \in Clients : \A i \in Nodes(next[c]) :
          /\ zht[TaskId(c, i)] = [indegree |-> zht[TaskId(c, i)].indegree,
                                  children |-> zht[TaskId(c, i)].children]
          /\ zht[TaskId(c, i)].children = {TaskId(c, k) : k \in dagAdjList[i]}
          /\ zht[TaskId(c, i)].indegree = Cardinality(ParentsLeft(c, i))
    /\ ran # {} => Submitted
    /\ ran \subseteq DOMAIN zht

(* The nodes of a workload, and the parents of one, are finitely many.      *)
LEMMA ParentsFinite ==
    ASSUME Generated, NEW c, NEW i
    PROVE  IsFiniteSet(ParentsLeft(c, i))
<1>1. numTask \in Nat
    BY DEF Generated
<1>2. IsFiniteSet(Nodes(numTask))
    <2>1. 0 \in Int /\ numTask - 1 \in Int
        BY <1>1
    <2> QED BY <2>1, FS_Interval DEF Nodes
<1>3. ParentsLeft(c, i) \in SUBSET Nodes(numTask)
    BY DEF ParentsLeft
<1> QED BY <1>2, <1>3, FS_Subset

(* Nothing is inserted at first. *)
LEMMA MetadataInit == Init => MetadataInv
<1> SUFFICES ASSUME Init PROVE MetadataInv
    OBVIOUS
<1>1. Generated /\ numTask <= MaxTask
    BY WorkloadAssumption DEF Init, Generated
<1>2. next \in [Clients -> 0 .. numTask] /\ \A c \in Clients : Nodes(next[c]) = {}
    BY <1>1 DEF Init, Generated, Nodes
<1>3. DOMAIN zht = {}
    BY DEF Init
<1> QED BY <1>1, <1>2, <1>3 DEF Init, MetadataInv

(* insert_taskinfo_to_zht: a new task has all its parents left. *)
LEMMA MetadataInsert ==
    ASSUME IdsDiffer, MetadataInv, NEW c0 \in Clients, InsertTaskInfo(c0)
    PROVE  MetadataInv'
<1> DEFINE i0 == next[c0]
           id0 == TaskId(c0, i0)
           md == [indegree |-> dagInDegree[i0], children |-> {TaskId(c0, k) : k \in dagAdjList[i0]}]
<1>1. /\ UNCHANGED <<dagType, dagArg, numTask, dagAdjList, dagInDegree, ran>>
      /\ next' = [next EXCEPT ![c0] = @ + 1]
      /\ zht' = [k \in DOMAIN zht \cup {id0} |-> IF k = id0 THEN md ELSE zht[k]]
    BY DEF InsertTaskInfo
<1>2. /\ numTask \in Nat /\ MaxTask \in Nat /\ numTask <= MaxTask
      /\ \A c \in Clients : next[c] \in 0 .. numTask
      /\ i0 \in Nat /\ i0 < numTask
    BY WorkloadAssumption DEF MetadataInv, Generated, InsertTaskInfo
<1>3. /\ next' \in [Clients -> 0 .. numTask] /\ next'[c0] = i0 + 1
      /\ \A c \in Clients : c # c0 => next'[c] = next[c]
    BY <1>1, <1>2 DEF MetadataInv
<1>4. /\ \A c \in Clients : \A i \in Nodes(next[c]) : i \in Nodes(MaxTask) /\ i \in Nodes(next'[c])
      /\ \A c \in Clients : \A i \in Nodes(next'[c]) : i \in Nodes(next[c]) \/ (c = c0 /\ i = i0)
      /\ i0 \in Nodes(next'[c0]) /\ i0 \in Nodes(MaxTask) /\ i0 \notin Nodes(next[c0])
      /\ i0 \in Nodes(numTask)
    BY <1>2, <1>3 DEF Nodes
<1>5. \A c \in Clients : \A i \in Nodes(next[c]) : TaskId(c, i) # id0
    BY <1>4 DEF IdsDiffer
<1>6. ran = {}
    BY <1>2 DEF MetadataInv, Submitted
<1>7. Generated'
    BY <1>1 DEF MetadataInv, Generated
<1>9. DOMAIN zht' = DOMAIN zht \cup {id0} /\ zht'[id0] = md
      /\ \A k \in DOMAIN zht : k # id0 => zht'[k] = zht[k]
    BY <1>1
<1>10. md.indegree = Cardinality(ParentsLeft(c0, i0))
    <2>1. DOMAIN dagAdjList = Nodes(numTask)
        BY GeneratedShape DEF MetadataInv, Generated
    <2>2. ParentsLeft(c0, i0) = {p \in Nodes(numTask) : i0 \in dagAdjList[p]}
        BY <1>6 DEF ParentsLeft
    <2>3. dagInDegree[i0] = Cardinality({p \in Nodes(numTask) : i0 \in dagAdjList[p]})
        BY <1>4, <2>1 DEF MetadataInv, GenDagIndegree
    <2> QED BY <2>2, <2>3
<1>11. \A id : id \in DOMAIN zht' <=> \E c \in Clients : \E i \in Nodes(next'[c]) : id = TaskId(c, i)
    <2>1. \A id : id \in DOMAIN zht <=> \E c \in Clients : \E i \in Nodes(next[c]) : id = TaskId(c, i)
        BY DEF MetadataInv
    <2> QED BY <1>4, <1>9, <2>1
<1>12. md = [indegree |-> md.indegree, children |-> md.children]
       /\ md.children = {TaskId(c0, k) : k \in dagAdjList[i0]}
    OBVIOUS
<1> HIDE DEF md, id0
<1>13. ASSUME NEW c \in Clients, NEW i \in Nodes(next'[c])
       PROVE  /\ zht'[TaskId(c, i)] = [indegree |-> zht'[TaskId(c, i)].indegree,
                                       children |-> zht'[TaskId(c, i)].children]
              /\ zht'[TaskId(c, i)].children = {TaskId(c, k) : k \in dagAdjList[i]}
              /\ zht'[TaskId(c, i)].indegree = Cardinality(ParentsLeft(c, i))
    <2>1. CASE c = c0 /\ i = i0
        BY <1>9, <1>10, <1>12, <2>1 DEF id0
    <2>2. CASE i \in Nodes(next[c])
        <3>1. TaskId(c, i) \in DOMAIN zht /\ TaskId(c, i) # id0
            BY <1>5, <2>2 DEF MetadataInv
        <3>2. zht'[TaskId(c, i)] = zht[TaskId(c, i)]
            BY <1>9, <3>1
        <3> QED BY <2>2, <3>2 DEF MetadataInv
    <2> QED BY <1>4, <2>1, <2>2
<1>14. next' \in [Clients -> 0 .. numTask'] /\ numTask' <= MaxTask
       /\ dagInDegree' = GenDagIndegree(dagAdjList)'
    BY <1>1, <1>2, <1>3 DEF MetadataInv
<1>15. ran' = {}
    BY <1>1, <1>6
<1>16. \A c \in Clients : \A i \in Nodes(next'[c]) :
          /\ zht'[TaskId(c, i)] = [indegree |-> zht'[TaskId(c, i)].indegree,
                                   children |-> zht'[TaskId(c, i)].children]
          /\ zht'[TaskId(c, i)].children = {TaskId(c, k) : k \in dagAdjList'[i]}
          /\ zht'[TaskId(c, i)].indegree = Cardinality(ParentsLeft(c, i)')
    <2> TAKE c \in Clients
    <2> TAKE i \in Nodes(next'[c])
    <2>1. ParentsLeft(c, i)' = ParentsLeft(c, i) /\ dagAdjList' = dagAdjList
        BY <1>1 DEF ParentsLeft
    <2> QED BY <1>13, <2>1
<1>17. ran' \subseteq DOMAIN zht' /\ (ran' # {} => Submitted')
    BY <1>15
<1> QED BY <1>7, <1>11, <1>14, <1>16, <1>17 DEF MetadataInv

(* A task runs, and notifies its children: of each, a parent less is left.  *)
LEMMA MetadataExecute ==
    ASSUME IdsDiffer, MetadataInv, Execute
    PROVE  MetadataInv'
<1>1. PICK id \in DOMAIN zht \ ran :
         /\ ran' = ran \cup {id}
         /\ zht' = [k \in DOMAIN zht |->
                       IF k \in zht[id].children THEN [zht[k] EXCEPT !.indegree = @ - 1] ELSE zht[k]]
    BY DEF Execute
<1>2. Submitted /\ UNCHANGED <<dagType, dagArg, numTask, dagAdjList, dagInDegree, next>>
    BY DEF Execute
<1>3. PICK c0 \in Clients : \E i \in Nodes(next[c0]) : id = TaskId(c0, i)
    BY <1>1 DEF MetadataInv
<1>4. PICK p0 \in Nodes(next[c0]) : id = TaskId(c0, p0)
    BY <1>3
<1>5. /\ numTask \in Nat /\ MaxTask \in Nat /\ numTask <= MaxTask
      /\ \A c \in Clients : next[c] = numTask
    BY <1>2, WorkloadAssumption DEF MetadataInv, Generated, Submitted
<1>6. /\ \A c \in Clients : Nodes(next[c]) = Nodes(numTask)
      /\ \A p \in Nodes(numTask) : p \in Nodes(MaxTask)
    BY <1>5 DEF Nodes
<1>7. DOMAIN zht' = DOMAIN zht
    BY <1>1
<1>8. zht[id].children = {TaskId(c0, k) : k \in dagAdjList[p0]}
    BY <1>4, Zenon DEF MetadataInv
<1>9. \A p \in Nodes(numTask) : \A k \in dagAdjList[p] : k \in Nodes(numTask)
    <2>1. dagAdjList \in [Nodes(numTask) -> SUBSET Nodes(numTask)]
        BY AdjTyped DEF MetadataInv, Generated
    <2> QED BY <2>1
<1>10. ASSUME NEW c \in Clients, NEW i \in Nodes(numTask)
       PROVE  TaskId(c, i) \in zht[id].children <=> c = c0 /\ i \in dagAdjList[p0]
    BY <1>4, <1>6, <1>8, <1>9 DEF IdsDiffer
<1>11. ASSUME NEW c \in Clients, NEW i \in Nodes(numTask)
       PROVE  ParentsLeft(c, i)' = IF c = c0 THEN ParentsLeft(c, i) \ {p0} ELSE ParentsLeft(c, i)
    <2>1. ASSUME NEW p \in Nodes(numTask) PROVE TaskId(c, p) = id <=> c = c0 /\ p = p0
        BY <1>4, <1>6 DEF IdsDiffer
    <2> QED BY <1>1, <1>2, <2>1 DEF ParentsLeft
<1>12. p0 \in Nodes(numTask) /\ id \notin ran
    BY <1>1, <1>6
<1>13. ASSUME NEW c \in Clients, NEW i \in Nodes(numTask)
       PROVE  /\ zht'[TaskId(c, i)] = [indegree |-> zht'[TaskId(c, i)].indegree,
                                       children |-> zht'[TaskId(c, i)].children]
              /\ zht'[TaskId(c, i)].children = {TaskId(c, k) : k \in dagAdjList[i]}
              /\ zht'[TaskId(c, i)].indegree = Cardinality(ParentsLeft(c, i)')
    <2>1. PICK x : x = TaskId(c, i)
        OBVIOUS
    <2>2. /\ x \in DOMAIN zht
          /\ zht[x] = [indegree |-> zht[x].indegree, children |-> zht[x].children]
          /\ zht[x].children = {TaskId(c, k) : k \in dagAdjList[i]}
          /\ zht[x].indegree = Cardinality(ParentsLeft(c, i))
        BY <1>6, <2>1 DEF MetadataInv
    <2>3. /\ IsFiniteSet(ParentsLeft(c, i))
          /\ Cardinality(ParentsLeft(c, i) \ {p0}) =
                IF p0 \in ParentsLeft(c, i) THEN Cardinality(ParentsLeft(c, i)) - 1
                                            ELSE Cardinality(ParentsLeft(c, i))
        BY ParentsFinite, FS_RemoveElement, Zenon DEF MetadataInv
    <2>4. CASE x \in zht[id].children
        <3>1. c = c0 /\ i \in dagAdjList[p0]
            BY <1>10, <2>1, <2>4
        <3>2. p0 \in ParentsLeft(c, i)
            BY <1>4, <1>12, <3>1 DEF ParentsLeft
        <3>3. zht'[x] = [zht[x] EXCEPT !.indegree = @ - 1]
            BY <1>1, <2>2, <2>4
        <3>4. zht'[x] = [indegree |-> zht[x].indegree - 1, children |-> zht[x].children]
            BY <2>2, <3>3
        <3>5. ParentsLeft(c, i)' = ParentsLeft(c, i) \ {p0}
            BY <1>11, <3>1
        <3> QED BY <2>1, <2>2, <2>3, <3>2, <3>4, <3>5
    <2>5. CASE x \notin zht[id].children
        <3>1. zht'[x] = zht[x]
            BY <1>1, <2>2, <2>5
        <3>2. c = c0 => p0 \notin ParentsLeft(c, i)
            BY <1>10, <2>1, <2>5 DEF ParentsLeft
        <3>3. ParentsLeft(c, i)' = ParentsLeft(c, i)
            BY <1>11, <3>2
        <3> QED BY <2>1, <2>2, <3>1, <3>3
    <2> QED BY <2>4, <2>5
<1>14. Generated' /\ Submitted'
    BY <1>2 DEF MetadataInv, Generated, Submitted
<1>15. ran' \subseteq DOMAIN zht'
    BY <1>1, <1>7 DEF MetadataInv
<1>16. /\ numTask' <= MaxTask /\ dagInDegree' = GenDagIndegree(dagAdjList)'
       /\ next' \in [Clients -> 0 .. numTask']
       /\ \A x : x \in DOMAIN zht' <=> \E c \in Clients : \E i \in Nodes(next'[c]) : x = TaskId(c, i)
    BY <1>2, <1>7 DEF MetadataInv
<1> QED BY <1>2, <1>6, <1>13, <1>14, <1>15, <1>16 DEF MetadataInv

(* ZHT lists the parents of a task under their ids: as many as are left.    *)
LEMMA MetadataCounts ==
    ASSUME IdsDiffer, MetadataInv
    PROVE  IndegreeCountsParents
<1> SUFFICES ASSUME Submitted, NEW id \in DOMAIN zht
             PROVE  zht[id].indegree = Cardinality({p \in DOMAIN zht \ ran : id \in zht[p].children})
    BY DEF IndegreeCountsParents
<1>1. /\ numTask \in Nat /\ MaxTask \in Nat /\ numTask <= MaxTask
      /\ \A c \in Clients : next[c] = numTask
    BY WorkloadAssumption DEF MetadataInv, Generated, Submitted
<1>2. /\ \A c \in Clients : Nodes(next[c]) = Nodes(numTask)
      /\ \A p \in Nodes(numTask) : p \in Nodes(MaxTask)
    BY <1>1 DEF Nodes
<1>3. PICK c \in Clients : \E i \in Nodes(numTask) : id = TaskId(c, i)
    BY <1>2 DEF MetadataInv
<1>4. PICK i \in Nodes(numTask) : id = TaskId(c, i)
    BY <1>3
<1> DEFINE S == ParentsLeft(c, i)
           T == {p \in DOMAIN zht \ ran : id \in zht[p].children}
           f == [p \in S |-> TaskId(c, p)]
<1>5. dagAdjList \in [Nodes(numTask) -> SUBSET Nodes(numTask)]
    BY AdjTyped DEF MetadataInv, Generated
<1>6. ASSUME NEW d \in Clients, NEW p \in Nodes(numTask)
      PROVE  /\ TaskId(d, p) \in DOMAIN zht
             /\ id \in zht[TaskId(d, p)].children <=> d = c /\ i \in dagAdjList[p]
    <2>1. /\ TaskId(d, p) \in DOMAIN zht
          /\ zht[TaskId(d, p)].children = {TaskId(d, k) : k \in dagAdjList[p]}
        BY <1>2, Zenon DEF MetadataInv
    <2>2. \A k \in dagAdjList[p] : TaskId(d, k) = TaskId(c, i) => d = c /\ k = i
        BY <1>2, <1>5 DEF IdsDiffer
    <2> QED BY <1>4, <2>1, <2>2
<1>7. \A x : x \in DOMAIN zht => \E d \in Clients : \E p \in Nodes(numTask) : x = TaskId(d, p)
    BY <1>2 DEF MetadataInv
<1>8. f \in [S -> T]
    BY <1>6 DEF ParentsLeft
<1>9. \A p, q \in S : f[p] = f[q] => p = q
    BY <1>2 DEF IdsDiffer, ParentsLeft
<1>10. \A x \in T : \E p \in S : f[p] = x
    <2> SUFFICES ASSUME NEW x \in T PROVE \E p \in S : f[p] = x
        OBVIOUS
    <2>1. PICK d \in Clients : \E p \in Nodes(numTask) : x = TaskId(d, p)
        BY <1>7
    <2>2. PICK p \in Nodes(numTask) : x = TaskId(d, p)
        BY <2>1
    <2>3. d = c /\ i \in dagAdjList[p]
        BY <1>6, <2>2
    <2>4. p \in S
        BY <2>2, <2>3 DEF ParentsLeft
    <2> QED BY <2>2, <2>3, <2>4
<1> HIDE DEF S, T, f
<1>11. ExistsBijection(S, T)
    <2>1. f \in Bijection(S, T)
        BY <1>8, <1>9, <1>10 DEF Bijection, Injection, Surjection, IsInjective
    <2> QED BY <2>1 DEF ExistsBijection
<1>12. IsFiniteSet(S)
    BY ParentsFinite DEF S, MetadataInv
<1>13. Cardinality(T) = Cardinality(S)
    BY <1>11, <1>12, FS_Bijection
<1>14. zht[id].indegree = Cardinality(S)
    BY <1>2, <1>4, Zenon DEF S, MetadataInv
<1> QED BY <1>13, <1>14 DEF T

(* The count of parents that dec_indegree leaves in ZHT is the number of    *)
(* parents that have not run, for every workload and any number of clients  *)
(* whose ids differ: a task becomes ready when its last parent is done, and *)
(* no earlier.                                                              *)
THEOREM CountsCorrect == IdsDiffer => (Spec => []IndegreeCountsParents)
<1>1. ASSUME IdsDiffer PROVE Spec => []IndegreeCountsParents
    <2>1. MetadataInv /\ [Next]_vars => MetadataInv'
        <3> SUFFICES ASSUME MetadataInv, [Next]_vars PROVE MetadataInv'
            OBVIOUS
        <3>1. ASSUME NEW c \in Clients, InsertTaskInfo(c) PROVE MetadataInv'
            BY <1>1, <3>1, MetadataInsert
        <3>2. CASE Execute
            BY <1>1, <3>2, MetadataExecute
        <3>3. CASE UNCHANGED vars
            <4>1. UNCHANGED <<dagType, dagArg, numTask, dagAdjList, dagInDegree, next, zht, ran>>
                BY <3>3 DEF vars
            <4>2. Generated' <=> Generated
                BY <4>1 DEF Generated
            <4>3. Submitted' <=> Submitted
                BY <4>1 DEF Submitted
            <4>4. ASSUME NEW c, NEW i PROVE ParentsLeft(c, i)' = ParentsLeft(c, i)
                BY <4>1 DEF ParentsLeft
            <4> QED BY <4>1, <4>2, <4>3, <4>4 DEF MetadataInv
        <3> QED BY <3>1, <3>2, <3>3 DEF Next
    <2>2. MetadataInv => IndegreeCountsParents
        BY <1>1, MetadataCounts
    <2> QED BY <2>1, <2>2, MetadataInit, PTL DEF Spec
<1> QED BY <1>1

-----------------------------------------------------------------------------
(* The cache of sockets. *)
CONSTANTS Keys, Datas, Sizefn, MaxSize, PtrTouch
VARIABLES list, index, curr_size, recent

Cache == INSTANCE LRUCache

Entries == [key : Keys, data : Datas]

(* A set of natural numbers has a least element. *)
LEMMA LeastNumber ==
    ASSUME NEW T \in SUBSET Nat, T # {}
    PROVE  \E m \in T : \A n \in T : m <= n
<1> DEFINE R == OpToRel(<, Nat)
<1>1. IsWellFoundedOn(R, Nat)
  BY NatLessThanWellFounded, Zenon
<1>2. \A m, n \in Nat : <<m, n>> \in R <=> m < n
  BY Zenon DEF OpToRel
<1> HIDE DEF R
<1>3. PICK m \in T : \A n \in T : ~(<<n, m>> \in R)
  BY <1>1, WFMin, Zenon
<1>4. ASSUME NEW n \in T PROVE m <= n
  <2>1. m \in Nat /\ n \in Nat
    BY Zenon
  <2>2. ~(n < m)
    BY <1>2, <1>3, <2>1, Zenon
  <2> QED
    BY <2>1, <2>2
<1> QED
  BY <1>4, Zenon

(* Induction, for a set of numbers. *)
LEMMA Induction ==
    ASSUME NEW S, 0 \in S, \A n \in Nat : n \in S => n + 1 \in S
    PROVE  Nat \subseteq S
<1> SUFFICES ASSUME Nat \ S # {} PROVE FALSE
  BY Zenon
<1>1. PICK m \in Nat \ S : \A n \in Nat \ S : m <= n
  BY LeastNumber, Zenon
<1>2. m - 1 \in Nat /\ m - 1 \in S
  BY <1>1
<1> QED
  BY <1>1, <1>2

(* f adds up the sizes of the first n entries of l. *)
Summed(f, l, n) ==
    /\ f \in [0 .. n -> Nat]
    /\ f[0] = 0
    /\ \A i \in 1 .. n : f[i] = f[i - 1] + Sizefn[l[i].data]

(* An entry's size is a number. *)
LEMMA EntrySize ==
    ASSUME Cache!LRUAssumption, NEW l \in Seq(Entries), NEW i \in 1 .. Len(l)
    PROVE  Sizefn[l[i].data] \in Nat /\ l[i] \in Entries
<1>1. l[i] \in Entries
  OBVIOUS
<1>2. l[i].data \in Datas
  BY <1>1, Zenon DEF Entries
<1>3. Sizefn[l[i].data] \in Nat \ {0}
  BY <1>2, Zenon DEF Cache!LRUAssumption
<1> QED
  BY <1>1, <1>3, Zenon

(* There are such sums, for every front part of a list. *)
LEMMA SumsExist ==
    ASSUME Cache!LRUAssumption, NEW l \in Seq(Entries), NEW n \in 0 .. Len(l)
    PROVE  \E f : Summed(f, l, n)
<1> DEFINE S == {m \in Nat : m <= Len(l) => \E f : Summed(f, l, m)}
<1>1. 0 \in S
  <2> DEFINE f == [i \in 0 .. 0 |-> 0]
  <2>1. Summed(f, l, 0)
    BY DEF Summed
  <2> QED
    BY <2>1, Zenon
<1>2. ASSUME NEW m \in Nat, m \in S PROVE m + 1 \in S
  <2> SUFFICES ASSUME m + 1 <= Len(l) PROVE \E f : Summed(f, l, m + 1)
    OBVIOUS
  <2>1. m <= Len(l) /\ m + 1 \in 1 .. Len(l)
    OBVIOUS
  <2>2. PICK f : Summed(f, l, m)
    BY <1>2, <2>1, Zenon
  <2>3. PICK x \in Nat : x = Sizefn[l[m + 1].data]
    BY <2>1, EntrySize, Zenon
  <2> DEFINE g == [i \in 0 .. (m + 1) |-> IF i = m + 1 THEN f[m] + x ELSE f[i]]
  <2>4. f \in [0 .. m -> Nat] /\ f[0] = 0
    BY <2>2, Zenon DEF Summed
  <2>5. g \in [0 .. (m + 1) -> Nat] /\ g[0] = 0
    BY <2>4
  <2>6. ASSUME NEW i \in 1 .. (m + 1) PROVE g[i] = g[i - 1] + Sizefn[l[i].data]
    <3>1. CASE i = m + 1
      <4>1. g[i] = f[m] + x /\ g[i - 1] = f[m]
        BY <3>1
      <4> QED
        BY <2>3, <3>1, <4>1, Zenon
    <3>2. CASE i # m + 1
      <4>1. i \in 1 .. m /\ g[i] = f[i] /\ g[i - 1] = f[i - 1]
        BY <3>2
      <4> QED
        BY <2>2, <4>1, Zenon DEF Summed
    <3> QED
      BY <3>1, <3>2, Zenon
  <2> HIDE DEF g
  <2>7. Summed(g, l, m + 1)
    BY <2>5, <2>6, Zenon DEF Summed
  <2> QED
    BY <2>7, Zenon
<1>3. Nat \subseteq S
  <2> HIDE DEF S
  <2> QED
    BY <1>1, <1>2, Induction, Zenon
<1>4. n \in Nat /\ n <= Len(l)
  OBVIOUS
<1> QED
  BY <1>3, <1>4, Zenon

(* Sizes holds the sums. *)
LEMMA SizesSummed ==
    ASSUME Cache!LRUAssumption, NEW l \in Seq(Entries)
    PROVE  Summed(Cache!Sizes(l), l, Len(l))
<1> DEFINE N == Len(l)
           Sums(g) == g = [n \in 0 .. N |-> IF n = 0 THEN 0 ELSE g[n - 1] + Sizefn[l[n].data]]
           a == CHOOSE g : Sums(g)
<1>1. N \in Nat /\ N \in 0 .. N
  OBVIOUS
<1>2. PICK f : Summed(f, l, N)
  BY <1>1, SumsExist, Zenon
<1>3. f \in [0 .. N -> Nat]
  BY <1>2, Zenon DEF Summed
<1>4. ASSUME NEW n \in 0 .. N
      PROVE  f[n] = IF n = 0 THEN 0 ELSE f[n - 1] + Sizefn[l[n].data]
  <2>1. CASE n = 0
    BY <1>2, <2>1, Zenon DEF Summed
  <2>2. CASE n # 0
    <3>1. n \in 1 .. N
      BY <1>1, <2>2
    <3> QED
      BY <1>2, <2>2, <3>1, Zenon DEF Summed
  <2> QED
    BY <2>1, <2>2, Zenon
<1>5. Sums(f)
  BY <1>3, <1>4, Zenon
<1>6. Sums(a)
  <2> HIDE DEF Sums
  <2> QED
    BY <1>5, Zenon
<1>7. Cache!Sizes(l) = a
  BY Zenon DEF Cache!Sizes
<1> HIDE DEF a, N
<1>8. \A n \in 0 .. N : a[n] = IF n = 0 THEN 0 ELSE a[n - 1] + Sizefn[l[n].data]
  BY <1>6, Zenon
<1>9. DOMAIN a = 0 .. N
  BY <1>6, Zenon
<1>10. a[0] = 0
  BY <1>1, <1>8
<1>11. \A n \in 1 .. N : a[n] = a[n - 1] + Sizefn[l[n].data]
  BY <1>1, <1>8
<1> DEFINE S == {n \in Nat : n \in 0 .. N => a[n] \in Nat}
<1>12. 0 \in S
  BY <1>10
<1>13. ASSUME NEW n \in Nat, n \in S PROVE n + 1 \in S
  <2> SUFFICES ASSUME n + 1 \in 0 .. N PROVE a[n + 1] \in Nat
    OBVIOUS
  <2>1. n \in 0 .. N /\ n + 1 \in 1 .. N /\ (n + 1) - 1 = n
    BY <1>1
  <2>2. a[n] \in Nat
    BY <1>13, <2>1, Zenon
  <2>3. PICK x \in Nat : x = Sizefn[l[n + 1].data]
    BY <2>1, EntrySize, Zenon DEF N
  <2>4. a[n + 1] = a[n] + x
    BY <1>11, <2>1, <2>3, Zenon
  <2> QED
    BY <2>2, <2>4
<1>14. Nat \subseteq S
  <2> HIDE DEF S
  <2> QED
    BY <1>12, <1>13, Induction, Zenon
<1>15. \A n \in 0 .. N : a[n] \in Nat
  <2>1. \A n \in 0 .. N : n \in Nat
    BY <1>1
  <2> QED
    BY <1>14, <2>1, Zenon
<1>16. a \in [0 .. N -> Nat]
  BY <1>6, <1>9, <1>15, Zenon
<1> QED
  BY <1>7, <1>10, <1>11, <1>16, Zenon DEF Summed, N

(* The w entries of l behind p are those of r behind q. *)
Alike(l, p, r, q, w) ==
    /\ p \in Nat /\ q \in Nat /\ w \in Nat
    /\ p + w <= Len(l) /\ q + w <= Len(r)
    /\ \A i \in 1 .. w : l[p + i] = r[q + i]

GrowAlike(f, p, g, q, w) == f[p + w] - f[p] = g[q + w] - g[q]

(* Where two lists have the same entries, their sums grow alike. *)
LEMMA SumsAlike ==
    ASSUME Cache!LRUAssumption, NEW l \in Seq(Entries), NEW r \in Seq(Entries),
           NEW f, Summed(f, l, Len(l)), NEW g, Summed(g, r, Len(r)),
           NEW p, NEW q, NEW w, Alike(l, p, r, q, w)
    PROVE  GrowAlike(f, p, g, q, w)
<1> DEFINE S == {n \in Nat : n <= w => f[p + n] - f[p] = g[q + n] - g[q]}
<1> /\ p \in Nat /\ q \in Nat /\ w \in Nat
    /\ p + w <= Len(l) /\ q + w <= Len(r)
    /\ \A i \in 1 .. w : l[p + i] = r[q + i]
  BY Zenon DEF Alike
<1>1. f \in [0 .. Len(l) -> Nat] /\ g \in [0 .. Len(r) -> Nat]
  BY Zenon DEF Summed
<1>2. p \in 0 .. Len(l) /\ q \in 0 .. Len(r)
  OBVIOUS
<1>3. f[p] \in Nat /\ g[q] \in Nat
  BY <1>1, <1>2, Zenon
<1>4. 0 \in S
  BY <1>3
<1>5. ASSUME NEW n \in Nat, n \in S PROVE n + 1 \in S
  <2> SUFFICES ASSUME n + 1 <= w PROVE f[p + (n + 1)] - f[p] = g[q + (n + 1)] - g[q]
    OBVIOUS
  <2>1. n + 1 \in 1 .. w /\ n <= w
    OBVIOUS
  <2>2. f[p + n] - f[p] = g[q + n] - g[q]
    BY <1>5, <2>1, Zenon
  <2>3. PICK u, v : u = p + (n + 1) /\ v = q + (n + 1)
    BY Zenon
  <2>4. u \in 1 .. Len(l) /\ v \in 1 .. Len(r) /\ u - 1 = p + n /\ v - 1 = q + n
    BY <2>3
  <2>5. l[u] = r[v]
    BY <2>1, <2>3, Zenon
  <2>6. PICK x \in Nat : x = Sizefn[l[u].data]
    BY <2>4, EntrySize, Zenon
  <2>7. f[u] = f[p + n] + x
    BY <2>4, <2>6, Zenon DEF Summed
  <2>8. g[v] = g[q + n] + x
    BY <2>4, <2>5, <2>6, Zenon DEF Summed
  <2>9. f[p + n] \in Nat /\ g[q + n] \in Nat
    <3>1. p + n \in 0 .. Len(l) /\ q + n \in 0 .. Len(r)
      BY <2>1
    <3> QED
      BY <1>1, <3>1, Zenon
  <2>10. PICK fp \in Nat, gq \in Nat, fn \in Nat, gn \in Nat :
           fp = f[p] /\ gq = g[q] /\ fn = f[p + n] /\ gn = g[q + n]
    BY <1>3, <2>9, Zenon
  <2>11. f[p + (n + 1)] = fn + x /\ g[q + (n + 1)] = gn + x
    BY <2>3, <2>7, <2>8, <2>10, Zenon
  <2>12. fn - fp = gn - gq
    BY <2>2, <2>10, Zenon
  <2>13. (fn + x) - fp = (gn + x) - gq
    BY <2>12
  <2> QED
    BY <2>10, <2>11, <2>13, Zenon
<1>6. Nat \subseteq S
  <2> HIDE DEF S
  <2> QED
    BY <1>4, <1>5, Induction, Zenon
<1>7. w <= w
  OBVIOUS
<1> QED
  BY <1>6, <1>7, Zenon DEF GrowAlike

(* What a list takes is a number. *)
LEMMA SizeIsNat ==
    ASSUME Cache!LRUAssumption, NEW l \in Seq(Entries)
    PROVE  Cache!SizeOf(l) \in Nat
<1>1. Cache!Sizes(l) \in [0 .. Len(l) -> Nat]
  BY SizesSummed, Zenon DEF Summed
<1>2. Len(l) \in 0 .. Len(l)
  OBVIOUS
<1> QED
  BY <1>1, <1>2, Zenon DEF Cache!SizeOf

(* l holds the keys of keys, each once: _list and _index agree. *)
Indexed(l, keys) ==
    /\ l \in Seq(Entries)
    /\ keys = {l[i].key : i \in DOMAIN l}
    /\ \A i, j \in DOMAIN l : l[i].key = l[j].key => i = j

(* l is in the order of use. *)
Ordered(l, pairs) ==
    \A i, j \in DOMAIN l : i < j => <<l[i].key, l[j].key>> \in pairs

(* r is l without its entry at p: those behind it move up by one. *)
Erased(r, l, p) ==
    /\ Len(r) = Len(l) - 1
    /\ \A i \in 1 .. (p - 1) : r[i] = l[i]
    /\ \A i \in p .. (Len(l) - 1) : r[i] = l[i + 1]

(* erase takes one entry out of the list. *)
LEMMA RemoveAtParts ==
    ASSUME NEW S, NEW l \in Seq(S), NEW p \in 1 .. Len(l),
           NEW r, r = Cache!RemoveAt(l, p)
    PROVE  r \in Seq(S) /\ Erased(r, l, p)
<1> DEFINE u == SubSeq(l, 1, p - 1)
           v == SubSeq(l, p + 1, Len(l))
<1>1. Len(l) \in Nat /\ p \in Nat
  OBVIOUS
<1>2. u \in Seq(S) /\ Len(u) = p - 1 /\ \A i \in 1 .. (p - 1) : u[i] = l[i]
  OBVIOUS
<1>3. v \in Seq(S) /\ Len(v) = Len(l) - p /\ \A i \in 1 .. (Len(l) - p) : v[i] = l[p + i]
  OBVIOUS
<1>4. r = u \o v
  BY Zenon DEF Cache!RemoveAt
<1> HIDE DEF u, v
<1>5. r \in Seq(S) /\ Len(r) = Len(l) - 1
  <2>1. u \in Seq(S) /\ v \in Seq(S) /\ Len(u) = p - 1 /\ Len(v) = Len(l) - p
    BY <1>2, <1>3, Zenon
  <2>2. u \o v \in Seq(S) /\ Len(u \o v) = Len(u) + Len(v)
    BY <2>1
  <2> QED
    BY <1>1, <1>4, <2>1, <2>2
<1>6. \A i \in 1 .. (p - 1) : r[i] = u[i]
  BY <1>1, <1>2, <1>3, <1>4
<1>7. ASSUME NEW i \in p .. (Len(l) - 1) PROVE r[i] = l[i + 1]
  <2>1. i - (p - 1) \in 1 .. (Len(l) - p) /\ p + (i - (p - 1)) = i + 1
    BY <1>1
  <2>2. r[i] = v[i - (p - 1)]
    BY <1>1, <1>2, <1>3, <1>4
  <2> QED
    BY <1>3, <2>1, <2>2
<1> QED
  BY <1>2, <1>5, <1>6, <1>7, Zenon DEF Erased

(* r is l with e in front: the others move down by one. *)
Pushed(r, e, l) ==
    /\ Len(r) = Len(l) + 1 /\ r[1] = e
    /\ \A i \in 1 .. Len(l) : r[i + 1] = l[i]

(* push_front adds an entry to the list. *)
LEMMA FrontParts ==
    ASSUME NEW S, NEW l \in Seq(S), NEW e \in S, NEW r, r = <<e>> \o l
    PROVE  r \in Seq(S) /\ Pushed(r, e, l)
<1>1. <<e>> \in Seq(S) /\ Len(<<e>>) = 1 /\ <<e>>[1] = e
  OBVIOUS
<1>2. r \in Seq(S) /\ Len(r) = Len(l) + 1 /\ r[1] = e
  BY <1>1
<1>3. ASSUME NEW i \in 1 .. Len(l) PROVE r[i + 1] = l[i]
  BY <1>1
<1> QED
  BY <1>2, <1>3, Zenon DEF Pushed

(* The iterator of a key that _index finds points to its entry. *)
LEMMA PlaceOf ==
    ASSUME NEW l, NEW keys, Indexed(l, keys), NEW k \in keys
    PROVE  Cache!Place(l, k) \in 1 .. Len(l) /\ l[Cache!Place(l, k)].key = k
<1>1. PICK i \in DOMAIN l : l[i].key = k
  BY Zenon DEF Indexed
<1>2. Cache!Place(l, k) \in DOMAIN l /\ l[Cache!Place(l, k)].key = k
  BY <1>1, Zenon DEF Cache!Place
<1>3. l \in Seq(Entries)
  BY Zenon DEF Indexed
<1>4. DOMAIN l = 1 .. Len(l)
  BY <1>3
<1> QED
  BY <1>2, <1>4, Zenon

(* r is l without the entry of k, which is at p. *)
TakenOut(r, l, p, keys, k) ==
    /\ Indexed(r, keys \ {k})
    /\ l[p] \in Entries /\ l[p].key = k
    /\ Cache!SizeOf(l) = Cache!SizeOf(r) + Sizefn[l[p].data]
    /\ \A pairs : Ordered(l, pairs) => Ordered(r, pairs)

(* _remove takes out the key's entry and its size, and leaves the order.   *)
LEMMA Without ==
    ASSUME Cache!LRUAssumption, NEW l, NEW keys, Indexed(l, keys), NEW k \in keys,
           NEW p, p = Cache!Place(l, k), NEW r, r = Cache!RemoveAt(l, p)
    PROVE  TakenOut(r, l, p, keys, k)
<1>1. l \in Seq(Entries)
  BY Zenon DEF Indexed
<1>2. p \in 1 .. Len(l) /\ l[p].key = k
  BY PlaceOf, Zenon
<1>3. /\ r \in Seq(Entries) /\ Len(r) = Len(l) - 1
      /\ \A i \in 1 .. (p - 1) : r[i] = l[i]
      /\ \A i \in p .. (Len(l) - 1) : r[i] = l[i + 1]
  <2>1. r \in Seq(Entries) /\ Erased(r, l, p)
    BY <1>1, <1>2, RemoveAtParts, Zenon
  <2> QED
    BY <2>1, Zenon DEF Erased
<1>4. PICK N \in Nat : N = Len(l)
  BY <1>1
<1>5. DOMAIN l = 1 .. N /\ DOMAIN r = 1 .. (N - 1) /\ p \in 1 .. N
  BY <1>1, <1>2, <1>3, <1>4
<1> DEFINE At(i) == IF i < p THEN i ELSE i + 1
<1>6. ASSUME NEW i \in DOMAIN r PROVE At(i) \in DOMAIN l /\ r[i] = l[At(i)] /\ At(i) # p
  <2>1. CASE i < p
    <3>1. i \in 1 .. (p - 1) /\ At(i) = i /\ i \in 1 .. N /\ i # p
      BY <1>5, <2>1
    <3> QED
      BY <1>3, <1>5, <3>1, Zenon
  <2>2. CASE ~(i < p)
    <3>1. i \in p .. (N - 1) /\ At(i) = i + 1 /\ i + 1 \in 1 .. N /\ i + 1 # p
      BY <1>5, <2>2
    <3> QED
      BY <1>3, <1>4, <1>5, <3>1, Zenon
  <2> QED
    BY <2>1, <2>2, Zenon
<1>7. \A i, j \in DOMAIN r : (i < j => At(i) < At(j)) /\ (At(i) = At(j) => i = j)
  BY <1>5
<1>8. ASSUME NEW j \in DOMAIN l, j # p PROVE \E i \in DOMAIN r : r[i] = l[j]
  <2>1. CASE j < p
    <3>1. j \in 1 .. (p - 1) /\ j \in 1 .. (N - 1)
      BY <1>5, <2>1
    <3> QED
      BY <1>3, <1>5, <3>1, Zenon
  <2>2. CASE ~(j < p)
    <3>1. j - 1 \in p .. (N - 1) /\ j - 1 \in 1 .. (N - 1) /\ (j - 1) + 1 = j
      BY <1>5, <1>8, <2>2
    <3> QED
      BY <1>3, <1>4, <1>5, <3>1, Zenon
  <2> QED
    BY <2>1, <2>2, Zenon
<1> HIDE DEF At
<1>9. \A i, j \in DOMAIN l : l[i].key = l[j].key => i = j
  BY Zenon DEF Indexed
<1>10. ASSUME NEW i \in DOMAIN r, NEW j \in DOMAIN r, r[i].key = r[j].key PROVE i = j
  <2>1. At(i) \in DOMAIN l /\ At(j) \in DOMAIN l /\ l[At(i)].key = l[At(j)].key
    BY <1>6, <1>10, Zenon
  <2> QED
    BY <1>7, <1>9, <2>1, Zenon
<1>11. \A x : x \in keys \ {k} <=> \E i \in DOMAIN r : x = r[i].key
  <2>1. \A x : x \in keys <=> \E i \in DOMAIN l : x = l[i].key
    BY Zenon DEF Indexed
  <2>2. ASSUME NEW x \in keys \ {k} PROVE \E i \in DOMAIN r : x = r[i].key
    <3>1. PICK j \in DOMAIN l : x = l[j].key
      BY <2>1, Zenon
    <3>2. j # p
      BY <1>2, <2>2, <3>1, Zenon
    <3> QED
      BY <1>8, <3>1, <3>2, Zenon
  <2>3. ASSUME NEW i \in DOMAIN r PROVE r[i].key \in keys \ {k}
    <3>1. r[i].key \in keys
      BY <1>6, <2>1, Zenon
    <3>2. r[i].key # k
      BY <1>2, <1>5, <1>6, <1>9, Zenon
    <3> QED
      BY <3>1, <3>2, Zenon
  <2> QED
    BY <2>2, <2>3, Zenon
<1>12. Indexed(r, keys \ {k})
  <2>1. keys \ {k} = {r[i].key : i \in DOMAIN r}
    BY <1>11, Zenon
  <2> QED
    BY <1>3, <1>10, <2>1, Zenon DEF Indexed
<1>13. ASSUME NEW pairs, Ordered(l, pairs) PROVE Ordered(r, pairs)
  <2> SUFFICES ASSUME NEW i \in DOMAIN r, NEW j \in DOMAIN r, i < j
               PROVE  <<r[i].key, r[j].key>> \in pairs
    BY Zenon DEF Ordered
  <2>1. At(i) \in DOMAIN l /\ At(j) \in DOMAIN l /\ At(i) < At(j)
    BY <1>6, <1>7, Zenon
  <2>2. <<l[At(i)].key, l[At(j)].key>> \in pairs
    BY <1>13, <2>1, Zenon DEF Ordered
  <2> QED
    BY <1>6, <2>2, Zenon
<1>14. Cache!SizeOf(l) = Cache!SizeOf(r) + Sizefn[l[p].data]
  <2>1. PICK f, g : f = Cache!Sizes(l) /\ g = Cache!Sizes(r)
    BY Zenon
  <2>2. Summed(f, l, Len(l)) /\ Summed(g, r, Len(r))
    BY <1>1, <1>3, <2>1, SizesSummed, Zenon
  <2>3. Alike(l, 0, r, 0, p - 1)
    BY <1>3, <1>4, <1>5 DEF Alike
  <2> r \in Seq(Entries)
    BY <1>3, Zenon
  <2>4. GrowAlike(f, 0, g, 0, p - 1)
    BY <1>1, <2>2, <2>3, SumsAlike, Zenon
  <2>5. Alike(l, p, r, p - 1, N - p)
    <3>1. ASSUME NEW i \in 1 .. (N - p) PROVE l[p + i] = r[(p - 1) + i]
      <4>1. (p - 1) + i \in p .. (Len(l) - 1) /\ ((p - 1) + i) + 1 = p + i
        BY <1>4, <1>5
      <4> QED
        BY <1>3, <4>1, Zenon
    <3>2. /\ p \in Nat /\ p - 1 \in Nat /\ N - p \in Nat
          /\ p + (N - p) <= Len(l) /\ (p - 1) + (N - p) <= Len(r)
      <4>1. Len(r) = N - 1 /\ Len(l) = N
        BY <1>3, <1>4, Zenon
      <4> QED
        BY <1>5, <4>1
    <3> QED
      BY <3>1, <3>2, Zenon DEF Alike
  <2>6. GrowAlike(f, p, g, p - 1, N - p)
    BY <1>1, <2>2, <2>5, SumsAlike, Zenon
  <2>7. PICK x \in Nat : x = Sizefn[l[p].data]
    BY <1>1, <1>2, EntrySize, Zenon
  <2>8. f[p] = f[p - 1] + x
    BY <1>2, <2>2, <2>7, Zenon DEF Summed
  <2>9. f[0] = 0 /\ g[0] = 0
    BY <2>2, Zenon DEF Summed
  <2>10. /\ 0 + (p - 1) = p - 1 /\ p + (N - p) = Len(l) /\ (p - 1) + (N - p) = Len(r)
         /\ p - 1 \in 0 .. Len(l) /\ p - 1 \in 0 .. Len(r) /\ Len(l) \in 0 .. Len(l)
         /\ Len(r) \in 0 .. Len(r)
    <3>1. Len(r) = N - 1 /\ Len(l) = N
      BY <1>3, <1>4, Zenon
    <3> QED
      BY <1>5, <3>1
  <2>11. PICK fa \in Nat, ga \in Nat, fn \in Nat, gn \in Nat :
           fa = f[p - 1] /\ ga = g[p - 1] /\ fn = f[Len(l)] /\ gn = g[Len(r)]
    <3>1. f \in [0 .. Len(l) -> Nat] /\ g \in [0 .. Len(r) -> Nat]
      BY <2>2, Zenon DEF Summed
    <3> QED
      BY <2>10, <3>1, Zenon
  <2>12. fa - 0 = ga - 0 /\ fn - (fa + x) = gn - ga
    BY <2>4, <2>6, <2>8, <2>9, <2>10, <2>11, Zenon DEF GrowAlike
  <2>13. fn = gn + x
    BY <2>12
  <2> QED
    BY <2>1, <2>7, <2>11, <2>13, Zenon DEF Cache!SizeOf
<1>15. l[p] \in Entries
  BY <1>1, <1>2
<1> QED
  BY <1>2, <1>12, <1>13, <1>14, <1>15, Zenon DEF TakenOut

(* A new entry in front adds its key and its size, and is the last used.   *)
LEMMA InFront ==
    ASSUME Cache!LRUAssumption, NEW l, NEW keys, Indexed(l, keys),
           NEW e \in Entries, e.key \notin keys, NEW r, r = <<e>> \o l
    PROVE  /\ Indexed(r, keys \cup {e.key})
           /\ Cache!SizeOf(r) = Cache!SizeOf(l) + Sizefn[e.data]
           /\ \A pairs : Ordered(l, pairs) => Ordered(r, Cache!UsedLast(pairs, e.key))
<1>1. l \in Seq(Entries)
  BY Zenon DEF Indexed
<1>2. /\ r \in Seq(Entries) /\ Len(r) = Len(l) + 1 /\ r[1] = e
      /\ \A i \in 1 .. Len(l) : r[i + 1] = l[i]
  <2>1. r \in Seq(Entries) /\ Pushed(r, e, l)
    BY <1>1, FrontParts, Zenon
  <2> QED
    BY <2>1, Zenon DEF Pushed
<1>3. PICK N \in Nat : N = Len(l)
  BY <1>1
<1>4. DOMAIN l = 1 .. N /\ DOMAIN r = 1 .. (N + 1)
  BY <1>1, <1>2, <1>3
<1>5. ASSUME NEW i \in DOMAIN r, i # 1 PROVE i - 1 \in DOMAIN l /\ r[i] = l[i - 1]
  <2>1. i - 1 \in 1 .. N /\ (i - 1) + 1 = i
    BY <1>4, <1>5
  <2> QED
    BY <1>2, <1>3, <1>4, <2>1, Zenon
<1>6. ASSUME NEW i \in DOMAIN l PROVE i + 1 \in DOMAIN r /\ r[i + 1] = l[i]
  <2>1. i + 1 \in 1 .. (N + 1)
    BY <1>4
  <2> QED
    BY <1>2, <1>3, <1>4, <2>1, Zenon
<1>7. 1 \in DOMAIN r /\ r[1] = e
  BY <1>2, <1>4
<1>8. /\ \A x : x \in keys <=> \E i \in DOMAIN l : x = l[i].key
      /\ \A i, j \in DOMAIN l : l[i].key = l[j].key => i = j
  BY Zenon DEF Indexed
<1>9. \A i \in DOMAIN r : i # 1 => r[i].key \in keys
  BY <1>5, <1>8, Zenon
<1>10. ASSUME NEW i \in DOMAIN r, NEW j \in DOMAIN r, r[i].key = r[j].key PROVE i = j
  <2>1. CASE i = 1 \/ j = 1
    BY <1>7, <1>9, <1>10, <2>1, Zenon
  <2>2. CASE i # 1 /\ j # 1
    <3> DEFINE a == i - 1
               b == j - 1
    <3>1. a \in DOMAIN l /\ b \in DOMAIN l /\ r[i] = l[a] /\ r[j] = l[b]
      BY <1>5, <2>2, Zenon
    <3> HIDE DEF a, b
    <3>2. a = b
      BY <1>8, <1>10, <3>1, Zenon
    <3> QED
      BY <1>4, <3>2 DEF a, b
  <2> QED
    BY <2>1, <2>2, Zenon
<1>11. ASSUME NEW x PROVE x \in keys \cup {e.key} <=> \E i \in DOMAIN r : x = r[i].key
  <2>1. ASSUME x \in keys PROVE \E i \in DOMAIN r : x = r[i].key
    <3>1. PICK j \in DOMAIN l : x = l[j].key
      BY <1>8, <2>1, Zenon
    <3> QED
      BY <1>6, <3>1, Zenon
  <2>2. ASSUME x = e.key PROVE \E i \in DOMAIN r : x = r[i].key
    BY <1>7, <2>2, Zenon
  <2>3. ASSUME NEW i \in DOMAIN r, x = r[i].key PROVE x \in keys \/ x = e.key
    BY <1>7, <1>9, <2>3, Zenon
  <2> QED
    BY <2>1, <2>2, <2>3, Zenon
<1>12. Indexed(r, keys \cup {e.key})
  <2>1. keys \cup {e.key} = {r[i].key : i \in DOMAIN r}
    BY <1>11, Zenon
  <2> QED
    BY <1>2, <1>10, <2>1, Zenon DEF Indexed
<1>13. ASSUME NEW pairs, Ordered(l, pairs) PROVE Ordered(r, Cache!UsedLast(pairs, e.key))
  <2> SUFFICES ASSUME NEW i \in DOMAIN r, NEW j \in DOMAIN r, i < j
               PROVE  <<r[i].key, r[j].key>> \in Cache!UsedLast(pairs, e.key)
    BY Zenon DEF Ordered
  <2>1. j # 1
    BY <1>4
  <2>2. r[j].key \in keys /\ r[j].key # e.key
    BY <1>9, <2>1, Zenon
  <2>3. CASE i = 1
    <3>1. r[i].key = e.key
      BY <1>7, <2>3, Zenon
    <3>2. r[j] \in Entries
      BY <1>2
    <3>3. r[j].key \in Keys \ {e.key}
      BY <2>2, <3>2, Zenon DEF Entries
    <3> QED
      BY <3>1, <3>3, Zenon DEF Cache!UsedLast
  <2>4. CASE i # 1
    <3>1. r[i].key \in keys /\ r[i].key # e.key
      BY <1>9, <2>4, Zenon
    <3>2. i - 1 < j - 1
      BY <1>4
    <3>3. <<l[i - 1].key, l[j - 1].key>> \in pairs
      BY <1>5, <1>13, <2>1, <2>4, <3>2, Zenon DEF Ordered
    <3>4. PICK a, b : a = r[i].key /\ b = r[j].key
      BY Zenon
    <3>5. <<a, b>> \in pairs /\ e.key # a /\ e.key # b
      BY <1>5, <2>1, <2>2, <2>4, <3>1, <3>3, <3>4, Zenon
    <3>6. <<a, b>>[1] = a /\ <<a, b>>[2] = b
      BY Zenon
    <3>7. e.key \notin {<<a, b>>[1], <<a, b>>[2]}
      BY <3>5, <3>6, Zenon
    <3> QED
      BY <3>4, <3>5, <3>7, Zenon DEF Cache!UsedLast
  <2> QED
    BY <2>3, <2>4, Zenon
<1>14. Cache!SizeOf(r) = Cache!SizeOf(l) + Sizefn[e.data]
  <2>1. PICK f, g : f = Cache!Sizes(l) /\ g = Cache!Sizes(r)
    BY Zenon
  <2> r \in Seq(Entries)
    BY <1>2, Zenon
  <2>2. Summed(f, l, Len(l)) /\ Summed(g, r, Len(r))
    BY <1>1, <2>1, SizesSummed, Zenon
  <2>3. Alike(l, 0, r, 1, N)
    <3>1. ASSUME NEW i \in 1 .. N PROVE l[0 + i] = r[1 + i]
      <4>1. 0 + i = i /\ 1 + i = i + 1
        OBVIOUS
      <4> QED
        BY <1>2, <1>3, <4>1, Zenon
    <3>2. 0 + N <= Len(l) /\ 1 + N <= Len(r) /\ 0 \in Nat /\ 1 \in Nat
      BY <1>2, <1>3
    <3> QED
      BY <3>1, <3>2, Zenon DEF Alike
  <2>4. GrowAlike(f, 0, g, 1, N)
    BY <1>1, <2>2, <2>3, SumsAlike, Zenon
  <2>5. 1 \in 1 .. Len(r) /\ 1 - 1 = 0 /\ 0 + N = Len(l) /\ 1 + N = Len(r)
    BY <1>2, <1>3
  <2>6. PICK x \in Nat : x = Sizefn[e.data]
    BY <1>2, <2>5, EntrySize, Zenon
  <2>7. g[1] = g[0] + x /\ g[0] = 0 /\ f[0] = 0
    BY <1>2, <2>2, <2>5, <2>6, Zenon DEF Summed
  <2>8. PICK fn \in Nat, gn \in Nat : fn = f[Len(l)] /\ gn = g[Len(r)]
    <3>1. f \in [0 .. Len(l) -> Nat] /\ g \in [0 .. Len(r) -> Nat]
      BY <2>2, Zenon DEF Summed
    <3>2. Len(l) \in 0 .. Len(l) /\ Len(r) \in 0 .. Len(r)
      BY <1>1
    <3> QED
      BY <3>1, <3>2, Zenon
  <2>9. fn - 0 = gn - (0 + x)
    BY <2>4, <2>5, <2>7, <2>8, Zenon DEF GrowAlike
  <2>10. gn = fn + x
    BY <2>9
  <2> QED
    BY <2>1, <2>6, <2>8, <2>10, Zenon DEF Cache!SizeOf
<1> QED
  BY <1>12, <1>13, <1>14, Zenon

(* The front part of a list: its entries, their order and their size. *)
LEMMA FrontPart ==
    ASSUME Cache!LRUAssumption, NEW l, NEW keys, Indexed(l, keys), NEW n \in 0 .. Len(l),
           NEW r, r = SubSeq(l, 1, n)
    PROVE  /\ Indexed(r, keys \ {l[i].key : i \in (n + 1) .. Len(l)})
           /\ Cache!SizeOf(r) = Cache!Sizes(l)[n]
           /\ \A pairs : Ordered(l, pairs) => Ordered(r, pairs)
<1>1. l \in Seq(Entries)
  BY Zenon DEF Indexed
<1>2. r \in Seq(Entries) /\ Len(r) = n /\ \A i \in 1 .. n : r[i] = l[i]
  BY <1>1
<1>3. PICK N \in Nat : N = Len(l)
  BY <1>1
<1>4. /\ DOMAIN l = 1 .. N /\ DOMAIN r = 1 .. n /\ n \in 0 .. N
      /\ DOMAIN r \subseteq DOMAIN l
  BY <1>1, <1>2, <1>3
<1>5. \A i \in DOMAIN r : i \in DOMAIN l /\ r[i] = l[i]
  BY <1>2, <1>4, Zenon
<1>6. /\ \A x : x \in keys <=> \E i \in DOMAIN l : x = l[i].key
      /\ \A i, j \in DOMAIN l : l[i].key = l[j].key => i = j
  BY Zenon DEF Indexed
<1>7. ASSUME NEW i \in DOMAIN r, NEW j \in DOMAIN r, r[i].key = r[j].key PROVE i = j
  <2>1. i \in DOMAIN l /\ j \in DOMAIN l /\ l[i].key = l[j].key
    BY <1>5, <1>7, Zenon
  <2> QED
    BY <1>6, <2>1, Zenon
<1> DEFINE Cut == (n + 1) .. Len(l)
           Lost == {l[i].key : i \in Cut}
<1>8. \A i \in DOMAIN l : i \in Cut <=> i \notin DOMAIN r
  BY <1>3, <1>4
<1>9. \A i \in Cut : i \in DOMAIN l
  BY <1>3, <1>4
<1> HIDE DEF Cut
<1>10. ASSUME NEW x PROVE x \in keys \ Lost <=> \E i \in DOMAIN r : x = r[i].key
  <2>1. ASSUME x \in keys, x \notin Lost PROVE \E i \in DOMAIN r : x = r[i].key
    <3>1. PICK i \in DOMAIN l : x = l[i].key
      BY <1>6, <2>1, Zenon
    <3>2. i \notin Cut
      BY <2>1, <3>1, Zenon
    <3> QED
      BY <1>5, <1>8, <3>1, <3>2, Zenon
  <2>2. ASSUME NEW i \in DOMAIN r, x = r[i].key PROVE x \in keys /\ x \notin Lost
    <3>1. i \in DOMAIN l /\ x = l[i].key
      BY <1>5, <2>2, Zenon
    <3>2. ASSUME NEW j \in Cut, x = l[j].key PROVE FALSE
      <4>1. j \in DOMAIN l /\ i = j
        BY <1>6, <1>9, <3>1, <3>2, Zenon
      <4> QED
        BY <1>8, <4>1, Zenon
    <3> QED
      BY <1>6, <3>1, <3>2, Zenon
  <2> QED
    BY <2>1, <2>2, Zenon
<1>11. Indexed(r, keys \ Lost)
  <2>1. keys \ Lost = {r[i].key : i \in DOMAIN r}
    <3> HIDE DEF Lost
    <3> QED
      BY <1>10, Zenon
  <2> QED
    BY <1>2, <1>7, <2>1, Zenon DEF Indexed
<1>12. \A pairs : Ordered(l, pairs) => Ordered(r, pairs)
  BY <1>5, Zenon DEF Ordered
<1>13. Cache!SizeOf(r) = Cache!Sizes(l)[n]
  <2>1. PICK f, g : f = Cache!Sizes(l) /\ g = Cache!Sizes(r)
    BY Zenon
  <2> r \in Seq(Entries)
    BY <1>2, Zenon
  <2>2. Summed(f, l, Len(l)) /\ Summed(g, r, Len(r))
    BY <1>1, <2>1, SizesSummed, Zenon
  <2>3. Alike(l, 0, r, 0, n)
    BY <1>2, <1>3, <1>4 DEF Alike
  <2>4. GrowAlike(f, 0, g, 0, n)
    BY <1>1, <2>2, <2>3, SumsAlike, Zenon
  <2>5. 0 + n = n /\ n = Len(r) /\ n \in 0 .. Len(l) /\ n \in 0 .. Len(r)
    BY <1>2
  <2>6. PICK fn \in Nat, gn \in Nat : fn = f[n] /\ gn = g[n]
    <3>1. f \in [0 .. Len(l) -> Nat] /\ g \in [0 .. Len(r) -> Nat]
      BY <2>2, Zenon DEF Summed
    <3> QED
      BY <2>5, <3>1, Zenon
  <2>7. fn - 0 = gn - 0
    <3>1. f[0] = 0 /\ g[0] = 0
      BY <2>2, Zenon DEF Summed
    <3> QED
      BY <2>4, <2>5, <2>6, <3>1, Zenon DEF GrowAlike
  <2>8. fn = gn
    BY <2>7
  <2> QED
    BY <2>1, <2>5, <2>6, <2>8, Zenon DEF Cache!SizeOf
<1> QED
  BY <1>11, <1>12, <1>13, Zenon DEF Cut

(* The largest number of a set is one of it. *)
LEMMA MaxIn ==
    ASSUME NEW n \in Nat, NEW T \in SUBSET (0 .. n), T # {}
    PROVE  Cache!Max(T) \in T
<1> DEFINE U == {m \in Nat : n - m \in T}
<1>1. U # {}
  <2>1. PICK x \in T : TRUE
    BY Zenon
  <2>2. x \in 0 .. n
    BY Zenon
  <2>3. n - x \in Nat /\ n - (n - x) = x
    BY <2>2
  <2>4. n - x \in U
    BY <2>3
  <2> QED
    BY <2>4, Zenon
<1>2. PICK m \in U : \A x \in U : m <= x
  BY <1>1, LeastNumber, Zenon
<1>3. m \in Nat /\ n - m \in T
  BY Zenon
<1>4. ASSUME NEW x \in T PROVE n - m >= x
  <2>1. x \in 0 .. n
    BY Zenon
  <2>2. n - x \in Nat /\ n - (n - x) = x
    BY <2>1
  <2>3. n - x \in U
    BY <2>2
  <2>4. m <= n - x
    BY <1>2, <2>3, Zenon
  <2> QED
    BY <1>3, <2>1, <2>4
<1> QED
  BY <1>3, <1>4, Zenon DEF Cache!Max

(* The list takes no more than is counted, and what is counted too much    *)
(* (which clear leaves behind) fits into the cache.                        *)
Sized(l, keys, s) ==
    /\ Indexed(l, keys)
    /\ s \in Nat
    /\ Cache!SizeOf(l) <= s
    /\ s - Cache!SizeOf(l) <= MaxSize

(* _remove keeps index and counter in step with the list. *)
LEMMA RemovedSized ==
    ASSUME Cache!LRUAssumption, NEW st, Sized(st.list, st.index, st.size),
           NEW k \in st.index, NEW t, t = Cache!Removed(st, k)
    PROVE  /\ Sized(t.list, t.index, t.size)
           /\ t.index = st.index \ {k} /\ t.size <= st.size
           /\ \A pairs : Ordered(st.list, pairs) => Ordered(t.list, pairs)
<1>1. PICK l, keys, s : l = st.list /\ keys = st.index /\ s = st.size
  BY Zenon
<1>2. Indexed(l, keys) /\ s \in Nat /\ Cache!SizeOf(l) <= s /\ s - Cache!SizeOf(l) <= MaxSize
  BY <1>1, Zenon DEF Sized
<1>3. PICK p, r : p = Cache!Place(l, k) /\ r = Cache!RemoveAt(l, p)
  BY Zenon
<1>4. t.list = r /\ t.index = keys \ {k} /\ t.size = s - Sizefn[l[p].data]
  BY <1>1, <1>3, Zenon DEF Cache!Removed
<1>5. /\ Indexed(r, keys \ {k})
      /\ l[p] \in Entries
      /\ Cache!SizeOf(l) = Cache!SizeOf(r) + Sizefn[l[p].data]
      /\ \A pairs : Ordered(l, pairs) => Ordered(r, pairs)
  <2>1. k \in keys
    BY <1>1, Zenon
  <2>2. TakenOut(r, l, p, keys, k)
    BY <1>2, <1>3, <2>1, Without, Zenon
  <2> QED
    BY <2>2, Zenon DEF TakenOut
<1>6. PICK x \in Nat : x = Sizefn[l[p].data]
  <2>1. l[p].data \in Datas
    BY <1>5, Zenon DEF Entries
  <2> QED
    BY <2>1, Zenon DEF Cache!LRUAssumption
<1>7. PICK m \in Nat, n \in Nat : m = Cache!SizeOf(l) /\ n = Cache!SizeOf(r)
  <2>1. l \in Seq(Entries) /\ r \in Seq(Entries)
    BY <1>2, <1>5, Zenon DEF Indexed
  <2> QED
    BY <2>1, SizeIsNat, Zenon
<1>8. MaxSize \in Nat
  BY Zenon DEF Cache!LRUAssumption
<1>9. m = n + x /\ s \in Nat /\ m <= s /\ s - m <= MaxSize
  BY <1>2, <1>5, <1>6, <1>7, Zenon
<1>10. s - x \in Nat /\ n <= s - x /\ (s - x) - n <= MaxSize /\ s - x <= s
  BY <1>8, <1>9
<1>11. Sized(r, keys \ {k}, s - x)
  BY <1>5, <1>7, <1>10, Zenon DEF Sized
<1> QED
  BY <1>1, <1>4, <1>5, <1>6, <1>10, <1>11, Zenon

(* _touch keeps index and size and makes the entry the last used. *)
LEMMA TouchedSized ==
    ASSUME Cache!LRUAssumption, NEW l, NEW keys, NEW s, Sized(l, keys, s),
           NEW k \in keys, NEW t, t = Cache!Touched(l, k)
    PROVE  /\ Sized(t, keys, s)
           /\ \A pairs : Ordered(l, pairs) => Ordered(t, Cache!UsedLast(pairs, k))
<1>1. Indexed(l, keys) /\ s \in Nat /\ Cache!SizeOf(l) <= s /\ s - Cache!SizeOf(l) <= MaxSize
  BY Zenon DEF Sized
<1>2. PICK p, r, e : p = Cache!Place(l, k) /\ r = Cache!RemoveAt(l, p) /\ e = l[p]
  BY Zenon
<1>3. t = <<e>> \o r
  BY <1>2, Zenon DEF Cache!Touched
<1>4. /\ Indexed(r, keys \ {k})
      /\ e \in Entries /\ e.key = k
      /\ Cache!SizeOf(l) = Cache!SizeOf(r) + Sizefn[e.data]
      /\ \A pairs : Ordered(l, pairs) => Ordered(r, pairs)
  <2>1. TakenOut(r, l, p, keys, k)
    BY <1>1, <1>2, Without, Zenon
  <2> QED
    BY <1>2, <2>1, Zenon DEF TakenOut
<1>5. e.key \notin keys \ {k}
  BY <1>4, Zenon
<1>6. /\ Indexed(t, (keys \ {k}) \cup {e.key})
      /\ Cache!SizeOf(t) = Cache!SizeOf(r) + Sizefn[e.data]
      /\ \A pairs : Ordered(r, pairs) => Ordered(t, Cache!UsedLast(pairs, e.key))
  BY <1>3, <1>4, <1>5, InFront, Zenon
<1>7. (keys \ {k}) \cup {e.key} = keys
  BY <1>4, Zenon
<1>8. Sized(t, keys, s)
  BY <1>1, <1>4, <1>6, <1>7, Zenon DEF Sized
<1> QED
  BY <1>4, <1>6, <1>8, Zenon

(* The loop of insert ends with a list that fits, in step with the index.  *)
LEMMA EvictedSized ==
    ASSUME Cache!LRUAssumption, NEW st, Sized(st.list, st.index, st.size),
           NEW t, t = Cache!Evicted(st)
    PROVE  /\ Sized(t.list, t.index, t.size)
           /\ t.size <= MaxSize
           /\ \A pairs : Ordered(st.list, pairs) => Ordered(t.list, pairs)
<1>1. PICK l, keys, s : l = st.list /\ keys = st.index /\ s = st.size
  BY Zenon
<1>2. Indexed(l, keys) /\ s \in Nat /\ Cache!SizeOf(l) <= s /\ s - Cache!SizeOf(l) <= MaxSize
  BY <1>1, Zenon DEF Sized
<1>3. l \in Seq(Entries)
  BY <1>2, Zenon DEF Indexed
<1> DEFINE Rest(n) == s - (Cache!SizeOf(l) - Cache!Sizes(l)[n])
           Fits    == {n \in 0 .. Len(l) : Rest(n) <= MaxSize}
           kept    == Cache!Max(Fits)
<1>4. /\ t.list = SubSeq(l, 1, kept)
      /\ t.index = keys \ {l[i].key : i \in (kept + 1) .. Len(l)}
      /\ t.size = Rest(kept)
  BY <1>1, Zenon DEF Cache!Evicted
<1>5. PICK f : f = Cache!Sizes(l) /\ f \in [0 .. Len(l) -> Nat] /\ f[0] = 0
  BY <1>3, SizesSummed, Zenon DEF Summed
<1>6. Len(l) \in Nat /\ 0 \in 0 .. Len(l)
  BY <1>3
<1>7. PICK m \in Nat : m = Cache!SizeOf(l)
  BY <1>3, SizeIsNat, Zenon
<1>8. MaxSize \in Nat
  BY Zenon DEF Cache!LRUAssumption
<1>9. m <= s /\ s - m <= MaxSize
  BY <1>2, <1>7, Zenon
<1>10. s - (m - 0) <= MaxSize
  BY <1>2, <1>9
<1>11. 0 \in Fits
  BY <1>5, <1>6, <1>7, <1>10, Zenon
<1>12. kept \in Fits
  <2>1. Fits \in SUBSET (0 .. Len(l))
    BY Zenon
  <2> HIDE DEF Fits
  <2> QED
    BY <1>6, <1>11, <2>1, MaxIn, Zenon
<1>13. PICK n \in 0 .. Len(l) : n = kept /\ Rest(n) <= MaxSize
  <2> HIDE DEF kept
  <2> QED
    BY <1>12, Zenon
<1>14. PICK x \in Nat : x = f[n]
  BY <1>5, Zenon
<1>15. Rest(n) = s - (m - x)
  BY <1>5, <1>7, <1>14, Zenon
<1> HIDE DEF Rest, kept
<1>16. PICK r, ks : r = SubSeq(l, 1, n) /\ ks = keys \ {l[i].key : i \in (n + 1) .. Len(l)}
  BY Zenon
<1>17. /\ Indexed(r, ks)
       /\ Cache!SizeOf(r) = Cache!Sizes(l)[n]
       /\ \A pairs : Ordered(l, pairs) => Ordered(r, pairs)
  BY <1>2, <1>16, FrontPart, Zenon
<1>18. Cache!SizeOf(r) = x
  BY <1>5, <1>14, <1>17, Zenon
<1>19. s - (m - x) \in Nat /\ x <= s - (m - x) /\ (s - (m - x)) - x <= MaxSize
  BY <1>2, <1>8, <1>9
<1>20. Sized(r, ks, s - (m - x))
  BY <1>17, <1>18, <1>19, Zenon DEF Sized
<1>21. t.list = r /\ t.index = ks /\ t.size = s - (m - x)
  BY <1>4, <1>13, <1>15, <1>16, Zenon
<1>22. t.size <= MaxSize
  BY <1>13, <1>15, <1>21, Zenon
<1> QED
  BY <1>1, <1>17, <1>20, <1>21, <1>22, Zenon

(* A second use of the same key changes nothing. *)
LEMMA UsedTwice ==
    ASSUME NEW pairs, NEW k
    PROVE  Cache!UsedLast(Cache!UsedLast(pairs, k), k) = Cache!UsedLast(pairs, k)
<1>1. \A p \in {k} \X (Keys \ {k}) : p[1] = k
  BY Zenon
<1>2. \A p : p \in Cache!UsedLast(pairs, k)
               <=> \/ p \in pairs /\ k \notin {p[1], p[2]}
                   \/ p \in {k} \X (Keys \ {k})
  BY Zenon DEF Cache!UsedLast
<1>3. \A p : p \in Cache!UsedLast(Cache!UsedLast(pairs, k), k)
               <=> \/ p \in Cache!UsedLast(pairs, k) /\ k \notin {p[1], p[2]}
                   \/ p \in {k} \X (Keys \ {k})
  BY Zenon DEF Cache!UsedLast
<1>4. \A p : p \in Cache!UsedLast(Cache!UsedLast(pairs, k), k) <=> p \in Cache!UsedLast(pairs, k)
  BY <1>1, <1>2, <1>3, Zenon
<1> QED
  BY <1>4, Zenon

(* The cache between two calls; and with the order of its list. *)
CacheInv == Sized(list, index, curr_size) /\ curr_size <= MaxSize
OrderInv == CacheInv /\ Ordered(list, recent)

(* insert keeps list, index and counter in step and the list in order.     *)
LEMMA InsertKeeps ==
    ASSUME Cache!LRUAssumption, CacheInv, NEW k \in Keys, NEW d \in Datas, Cache!Insert(k, d)
    PROVE  CacheInv' /\ (Ordered(list, recent) => Ordered(list', recent'))
<1> DEFINE touched == [Cache!State EXCEPT !.list = Cache!Touched(list, k)]
           without == IF k \in index THEN Cache!Removed(touched, k) ELSE Cache!State
           e       == [key |-> k, data |-> d]
           with    == [list  |-> <<e>> \o without.list,
                       index |-> without.index \cup {k},
                       size  |-> without.size + Sizefn[d]]
           t       == Cache!Evicted(with)
           used    == Cache!UsedLast(recent, k)
<1>1. list' = t.list /\ index' = t.index /\ curr_size' = t.size /\ recent' = used
  BY Zenon DEF Cache!Insert, Cache!Become, Cache!Used
<1>2. Sized(list, index, curr_size) /\ curr_size <= MaxSize
  BY Zenon DEF CacheInv
<1>3. \E w : /\ w = without /\ Sized(w.list, w.index, w.size) /\ k \notin w.index
             /\ \A pairs : Ordered(list, pairs) =>
                  Ordered(w.list, pairs) \/ Ordered(w.list, Cache!UsedLast(pairs, k))
  <2>1. CASE k \in index
    <3>1. /\ touched.list = Cache!Touched(list, k)
          /\ touched.index = index /\ touched.size = curr_size
      BY Zenon DEF Cache!State
    <3>2. PICK l, st : l = Cache!Touched(list, k) /\ st = touched
      BY Zenon
    <3>3. /\ Sized(l, index, curr_size)
          /\ \A pairs : Ordered(list, pairs) => Ordered(l, Cache!UsedLast(pairs, k))
      BY <1>2, <2>1, <3>2, TouchedSized, Zenon
    <3>4. st.list = l /\ st.index = index /\ st.size = curr_size
      BY <3>1, <3>2, Zenon
    <3>5. PICK w : w = Cache!Removed(st, k)
      BY Zenon
    <3>6. Sized(st.list, st.index, st.size) /\ k \in st.index
      BY <2>1, <3>3, <3>4, Zenon
    <3>7. /\ Sized(w.list, w.index, w.size) /\ w.index = st.index \ {k}
          /\ \A pairs : Ordered(st.list, pairs) => Ordered(w.list, pairs)
      BY <3>5, <3>6, RemovedSized, Zenon
    <3>8. w = without
      BY <2>1, <3>2, <3>5, Zenon
    <3> HIDE DEF without
    <3> QED
      BY <3>3, <3>4, <3>7, <3>8, Zenon
  <2>2. CASE k \notin index
    <3>1. /\ Cache!State.list = list /\ Cache!State.index = index
          /\ Cache!State.size = curr_size
      BY Zenon DEF Cache!State
    <3>2. PICK w : w = Cache!State
      BY Zenon
    <3>3. w = without /\ w.list = list /\ w.index = index /\ w.size = curr_size
      BY <2>2, <3>1, <3>2, Zenon
    <3> HIDE DEF without
    <3> QED
      BY <1>2, <2>2, <3>3, Zenon
  <2> QED
    BY <2>1, <2>2, Zenon
<1> HIDE DEF without
<1>4. PICK w : /\ w = without /\ Sized(w.list, w.index, w.size) /\ k \notin w.index
               /\ \A pairs : Ordered(list, pairs) =>
                    Ordered(w.list, pairs) \/ Ordered(w.list, Cache!UsedLast(pairs, k))
  BY <1>3, Zenon
<1>5. e \in Entries /\ e.key = k /\ e.data = d
  BY Zenon DEF Entries
<1>6. PICK l, keys, s, r : l = w.list /\ keys = w.index /\ s = w.size /\ r = <<e>> \o l
  BY Zenon
<1>7. /\ with.list = r /\ with.index = keys \cup {k} /\ with.size = s + Sizefn[d]
  BY <1>4, <1>6, Zenon
<1> HIDE DEF e, with
<1>8. Indexed(l, keys) /\ s \in Nat /\ Cache!SizeOf(l) <= s /\ s - Cache!SizeOf(l) <= MaxSize
  BY <1>4, <1>6, Zenon DEF Sized
<1>9. e.key \notin keys
  BY <1>4, <1>5, <1>6, Zenon
<1>10. /\ Indexed(r, keys \cup {e.key})
       /\ Cache!SizeOf(r) = Cache!SizeOf(l) + Sizefn[e.data]
       /\ \A pairs : Ordered(l, pairs) => Ordered(r, Cache!UsedLast(pairs, e.key))
  BY <1>5, <1>6, <1>8, <1>9, InFront, Zenon
<1>11. Sized(r, keys \cup {k}, s + Sizefn[d])
  <2>1. PICK x \in Nat : x = Sizefn[d]
    BY Zenon DEF Cache!LRUAssumption
  <2>2. l \in Seq(Entries) /\ r \in Seq(Entries)
    BY <1>8, <1>10, Zenon DEF Indexed
  <2>3. PICK m \in Nat, n \in Nat : m = Cache!SizeOf(l) /\ n = Cache!SizeOf(r)
    BY <2>2, SizeIsNat, Zenon
  <2>4. n = m + x /\ m <= s /\ s - m <= MaxSize
    BY <1>5, <1>8, <1>10, <2>1, <2>3, Zenon
  <2>5. MaxSize \in Nat
    BY Zenon DEF Cache!LRUAssumption
  <2>6. s + x \in Nat /\ n <= s + x /\ (s + x) - n <= MaxSize
    BY <1>8, <2>4, <2>5
  <2> QED
    BY <1>5, <1>10, <2>1, <2>3, <2>6, Zenon DEF Sized
<1>12. Sized(with.list, with.index, with.size)
  BY <1>7, <1>11, Zenon
<1>13. /\ Sized(t.list, t.index, t.size) /\ t.size <= MaxSize
       /\ \A pairs : Ordered(with.list, pairs) => Ordered(t.list, pairs)
  BY <1>12, EvictedSized, Zenon
<1> HIDE DEF t, used
<1>14. ASSUME Ordered(list, recent) PROVE Ordered(t.list, used)
  <2>1. Ordered(l, recent) \/ Ordered(l, used)
    BY <1>4, <1>6, <1>14, Zenon DEF used
  <2>2. Ordered(r, Cache!UsedLast(recent, k)) \/ Ordered(r, Cache!UsedLast(used, k))
    BY <1>5, <1>10, <2>1, Zenon
  <2>3. Cache!UsedLast(used, k) = used /\ Cache!UsedLast(recent, k) = used
    BY UsedTwice, Zenon DEF used
  <2> QED
    BY <1>7, <1>13, <2>2, <2>3, Zenon
<1> QED
  BY <1>1, <1>13, <1>14, Zenon DEF CacheInv

(* remove keeps list, index and counter in step and the list in order.     *)
LEMMA DeleteKeeps ==
    ASSUME Cache!LRUAssumption, CacheInv, NEW k \in Keys, Cache!Delete(k)
    PROVE  CacheInv' /\ (Ordered(list, recent) => Ordered(list', recent'))
<1>1. PICK st, t : st = Cache!State /\ t = Cache!Removed(st, k)
  BY Zenon
<1>2. st.list = list /\ st.index = index /\ st.size = curr_size
  BY <1>1, Zenon DEF Cache!State
<1>3. /\ k \in index /\ list' = t.list /\ index' = t.index /\ curr_size' = t.size
      /\ recent' = recent
  BY <1>1, Zenon DEF Cache!Delete, Cache!Become
<1>4. Sized(list, index, curr_size) /\ curr_size <= MaxSize
  BY Zenon DEF CacheInv
<1>5. Sized(st.list, st.index, st.size) /\ k \in st.index
  BY <1>2, <1>3, <1>4, Zenon
<1>6. /\ Sized(t.list, t.index, t.size) /\ t.size <= st.size
      /\ \A pairs : Ordered(st.list, pairs) => Ordered(t.list, pairs)
  BY <1>1, <1>5, RemovedSized, Zenon
<1>7. t.size <= MaxSize
  <2>1. PICK a, b : a = t.size /\ b = curr_size
    BY Zenon
  <2>2. a \in Nat /\ b \in Nat /\ a <= b /\ b <= MaxSize
    BY <1>2, <1>4, <1>6, <2>1, Zenon DEF Sized
  <2>3. MaxSize \in Nat
    BY Zenon DEF Cache!LRUAssumption
  <2>4. a <= MaxSize
    BY <2>2, <2>3
  <2> QED
    BY <2>1, <2>4, Zenon
<1> QED
  BY <1>2, <1>3, <1>6, <1>7, Zenon DEF CacheInv

(* touch keeps what is in the cache, and makes the entry the first.        *)
LEMMA TouchKeeps ==
    ASSUME Cache!LRUAssumption, CacheInv, NEW k \in index,
           list' = Cache!Touched(list, k), index' = index, curr_size' = curr_size
    PROVE  CacheInv' /\ (Ordered(list, recent) => Ordered(list', Cache!UsedLast(recent, k)))
<1>1. Sized(list, index, curr_size) /\ curr_size <= MaxSize
  BY Zenon DEF CacheInv
<1>2. PICK t : t = Cache!Touched(list, k)
  BY Zenon
<1>3. /\ Sized(t, index, curr_size)
      /\ \A pairs : Ordered(list, pairs) => Ordered(t, Cache!UsedLast(pairs, k))
  BY <1>1, <1>2, TouchedSized, Zenon
<1> QED
  BY <1>1, <1>2, <1>3, Zenon DEF CacheInv

(* An empty list takes nothing and is in any order. *)
LEMMA EmptyList ==
    ASSUME Cache!LRUAssumption, NEW s \in Nat, s <= MaxSize
    PROVE  Sized(<<>>, {}, s) /\ \A pairs : Ordered(<<>>, pairs)
<1>1. <<>> \in Seq(Entries) /\ Len(<<>>) = 0 /\ DOMAIN <<>> = {}
  OBVIOUS
<1>2. Indexed(<<>>, {})
  BY <1>1, Zenon DEF Indexed
<1>3. Cache!SizeOf(<<>>) = 0
  <2>1. Summed(Cache!Sizes(<<>>), <<>>, Len(<<>>))
    BY <1>1, SizesSummed, Zenon
  <2> QED
    BY <1>1, <2>1, Zenon DEF Summed, Cache!SizeOf
<1>4. MaxSize \in Nat
  BY Zenon DEF Cache!LRUAssumption
<1>5. 0 <= s /\ s - 0 <= MaxSize
  BY <1>4
<1>6. Sized(<<>>, {}, s)
  BY <1>2, <1>3, <1>5, Zenon DEF Sized
<1> QED
  BY <1>1, <1>6, Zenon DEF Ordered

(* clear empties list and index; the counter stays within its bound. *)
LEMMA ClearKeeps ==
    ASSUME Cache!LRUAssumption, CacheInv, Cache!Clear
    PROVE  CacheInv' /\ Ordered(list', recent')
<1>1. curr_size \in Nat /\ curr_size <= MaxSize
  BY Zenon DEF CacheInv, Sized
<1>2. list' = <<>> /\ index' = {} /\ curr_size' = curr_size
  BY Zenon DEF Cache!Clear
<1>3. Sized(<<>>, {}, curr_size) /\ \A pairs : Ordered(<<>>, pairs)
  BY <1>1, EmptyList, Zenon
<1> QED
  BY <1>1, <1>2, <1>3, Zenon DEF CacheInv

(* Every call keeps list, index and counter in step; if fetch_ptr is always *)
(* told to touch, it keeps the list in order.                               *)
LEMMA CacheNext ==
    ASSUME Cache!LRUAssumption, CacheInv, [Cache!Next]_(Cache!vars)
    PROVE  CacheInv' /\ (Cache!FetchIsUse /\ Ordered(list, recent) => Ordered(list', recent'))
<1>1. CASE \E k \in Keys, d \in Datas : Cache!Insert(k, d)
  BY <1>1, InsertKeeps, Zenon
<1>2. CASE \E k \in Keys : Cache!Delete(k)
  BY <1>2, DeleteKeeps, Zenon
<1>3. ASSUME NEW k \in Keys, Cache!Touch(k)
      PROVE  CacheInv' /\ (Ordered(list, recent) => Ordered(list', recent'))
  <2>1. /\ k \in index /\ list' = Cache!Touched(list, k) /\ index' = index
        /\ curr_size' = curr_size /\ recent' = Cache!UsedLast(recent, k)
    BY <1>3, Zenon DEF Cache!Touch, Cache!Used
  <2> QED
    BY <2>1, TouchKeeps, Zenon
<1>4. CASE UNCHANGED Cache!vars
  <2>1. list' = list /\ index' = index /\ curr_size' = curr_size /\ recent' = recent
    BY <1>4, Zenon DEF Cache!vars
  <2> QED
    BY <2>1, Zenon DEF CacheInv
<1>5. ASSUME NEW k \in Keys, NEW touch \in BOOLEAN, Cache!Fetch(k, touch)
      PROVE  Cache!Touch(k) \/ UNCHANGED Cache!vars
  BY <1>5, Zenon DEF Cache!Fetch
<1>6. ASSUME NEW k \in Keys, NEW touch \in PtrTouch, Cache!FetchPtr(k, touch)
      PROVE  CacheInv' /\ (Cache!FetchIsUse /\ Ordered(list, recent) => Ordered(list', recent'))
  <2>1. /\ k \in index /\ list' = Cache!Touched(list, k) /\ index' = index
        /\ curr_size' = curr_size
    BY <1>6, Zenon DEF Cache!FetchPtr
  <2>2. CacheInv' /\ (Ordered(list, recent) => Ordered(list', Cache!UsedLast(recent, k)))
    BY <2>1, TouchKeeps, Zenon
  <2>3. ASSUME Cache!FetchIsUse PROVE recent' = Cache!UsedLast(recent, k)
    <3>1. touch = TRUE
      BY <2>3, Zenon DEF Cache!FetchIsUse, Cache!LRUAssumption
    <3> QED
      BY <1>6, <3>1, Zenon DEF Cache!FetchPtr, Cache!Used
  <2> QED
    BY <2>2, <2>3, Zenon
<1>7. CASE Cache!Clear
  BY <1>7, ClearKeeps, Zenon
<1>8. \/ \E k \in Keys, d \in Datas : Cache!Insert(k, d)
      \/ \E k \in Keys : Cache!Delete(k)
      \/ \E k \in Keys : Cache!Touch(k)
      \/ \E k \in Keys, touch \in BOOLEAN : Cache!Fetch(k, touch)
      \/ \E k \in Keys, touch \in PtrTouch : Cache!FetchPtr(k, touch)
      \/ Cache!Clear
      \/ UNCHANGED Cache!vars
  BY Zenon DEF Cache!Next
<1> QED
  BY <1>1, <1>2, <1>3, <1>4, <1>5, <1>6, <1>7, <1>8, Zenon

(* The constructor makes an empty cache. *)
LEMMA CacheInit ==
    ASSUME Cache!LRUAssumption, Cache!Init
    PROVE  OrderInv
<1>1. list = <<>> /\ index = {} /\ curr_size = 0
  BY Zenon DEF Cache!Init
<1>2. MaxSize \in Nat
  BY Zenon DEF Cache!LRUAssumption
<1>3. 0 \in Nat /\ 0 <= MaxSize
  BY <1>2
<1>4. Sized(<<>>, {}, 0) /\ Ordered(<<>>, recent)
  BY <1>3, EmptyList, Zenon
<1> QED
  BY <1>1, <1>3, <1>4, Zenon DEF OrderInv, CacheInv

(* What the invariant says of list, index and counter. *)
LEMMA CacheKept ==
    ASSUME Cache!LRUAssumption, CacheInv
    PROVE  Cache!IndexExact /\ Cache!SizeBound
<1>1. /\ Indexed(list, index) /\ Cache!SizeOf(list) <= curr_size
      /\ curr_size <= MaxSize
  BY Zenon DEF CacheInv, Sized
<1>2. \A x : x \in Cache!ToSet(Cache!KeysOf(list)) <=> \E i \in DOMAIN list : x = list[i].key
  BY Zenon DEF Cache!ToSet, Cache!KeysOf
<1>3. \A x : x \in index <=> \E i \in DOMAIN list : x = list[i].key
  BY <1>1, Zenon DEF Indexed
<1>4. Cache!ToSet(Cache!KeysOf(list)) = index
  BY <1>2, <1>3, Zenon
<1>5. Cache!IndexExact
  BY <1>1, <1>4, Zenon DEF Cache!IndexExact, Indexed
<1> QED
  BY <1>1, <1>5, Zenon DEF Cache!SizeBound

(* For any keys, sizes and calls, _index and _list hold the same keys, each *)
(* once; _curr_size counts at least what the entries take and is within     *)
(* _max_size.                                                               *)
THEOREM CacheInBounds ==
    ASSUME Cache!LRUAssumption
    PROVE  Cache!Spec => [](Cache!IndexExact /\ Cache!SizeBound)
<1>1. Cache!Init => CacheInv
  BY CacheInit, Zenon DEF OrderInv
<1>2. CacheInv /\ [Cache!Next]_(Cache!vars) => CacheInv'
  BY CacheNext, Zenon
<1>3. CacheInv => Cache!IndexExact /\ Cache!SizeBound
  BY CacheKept, Zenon
<1> QED
  BY <1>1, <1>2, <1>3, PTL DEF Cache!Spec

(* If fetch_ptr is called as everywhere in the code, with touch = true, the *)
(* list is moreover in the order of the entries' last use: insert discards  *)
(* the least recently used ones.                                            *)
THEOREM CacheCorrect ==
    ASSUME Cache!LRUAssumption, Cache!FetchIsUse
    PROVE  Cache!Spec => []Cache!CacheConsistent
<1>1. Cache!Init => OrderInv
  BY CacheInit, Zenon
<1>2. OrderInv /\ [Cache!Next]_(Cache!vars) => OrderInv'
  BY CacheNext, Zenon DEF OrderInv
<1>3. OrderInv => Cache!CacheConsistent
  BY CacheKept, Zenon DEF OrderInv, Ordered, Cache!CacheConsistent, Cache!OrderedByUse
<1> QED
  BY <1>1, <1>2, <1>3, PTL DEF Cache!Spec
=============================================================================
