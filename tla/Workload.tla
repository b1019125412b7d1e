------------------------------- MODULE Workload -------------------------------
(* The clients make the workload: each generates the same DAG from the      *)
(* configuration (gen_dag_adjlist), counts the parents of every task        *)
(* (gen_dag_indegree), and inserts its tasks into ZHT under ids of its own  *)
(* (insert_taskinfo_to_zht).  The schedulers then run the tasks by what ZHT *)
(* says: one whose indegree is 0 is ready, and one that is done decreases   *)
(* the indegree of its children.  How they do that is in Scheduler; here a  *)
(* task runs and notifies in one step.                                      *)
EXTENDS Integers, Sequences, FiniteSets

CONSTANTS
    Clients,        \* the indices of the clients
    DagTypes,       \* values of DagType
    MaxArg,         \* bound: DagArgument
    MaxTask         \* bound: NumTaskPerClient

ASSUME WorkloadAssumption ==
    /\ Clients \subseteq Nat
    /\ DagTypes \subseteq {"BOT", "FanOut", "FanIn", "Pipeline"}
    /\ MaxArg \in Nat /\ MaxTask \in Nat

VARIABLES
    dagType, dagArg, numTask,   \* the configuration
    dagAdjList, dagInDegree,    \* [0 .. numTask - 1 -> children], -> number of parents
    next,                       \* [Clients -> the next task to insert]
    zht,                        \* the metadata of the tasks, by id
    ran                         \* ids of the tasks that were executed

vars == <<dagType, dagArg, numTask, dagAdjList, dagInDegree, next, zht, ran>>

-----------------------------------------------------------------------------
(* The generators.  A list of children is the set of its elements; for a    *)
(* map, insert keeps the first entry of a key.                              *)
Nodes(n) == 0 .. n - 1

Bot(n) == [i \in Nodes(n) |-> {}]

(* A plausible bug: the children of a task are counted from 0. *)
FanOutFromZero(n, a) == [i \in Nodes(n) |-> {i * a + j : j \in 0 .. a - 1} \cap Nodes(n)]

FanOut(n, a) == [i \in Nodes(n) |-> {i * a + j : j \in 1 .. a} \cap Nodes(n)]

(* A plausible bug: the edges are turned round, the numbers are not. *)
FanInUnswitched(n, a) ==
    [t \in Nodes(n) |-> {i \in Nodes(n) : t \in FanOut(n, a)[i]}]

(* A plausible bug: the task that has no child gets no entry. *)
FanInSinkless(n, a) ==
    LET from(t) == {i \in Nodes(n) : n - 1 - t \in FanOut(n, a)[i]}
    IN [t \in {u \in Nodes(n) : from(u) # {}} |-> {n - 1 - i : i \in from(t)}]

(* The fan out dag, flipped over, with left and right switched. *)
FanIn(n, a) ==
    LET from(t) == {i \in Nodes(n) : n - 1 - t \in FanOut(n, a)[i]}
        first(s) == CHOOSE i \in s : \A j \in s : i <= j
    IN [t \in {u \in Nodes(n) : from(u) # {}} \cup {n - 1} |->
           IF from(t) = {} THEN {} ELSE {n - 1 - first(from(t))}]

(* The two loops of gen_pipeline_adjlist differ in the numbers they are for. *)
Pipeline(n, a) ==
    [i \in Nodes(n) |-> IF (i + 1) % a # 0 /\ i + 1 < n THEN {i + 1} ELSE {}]

GenDagAdjlist(type, a, n) ==
    CASE type = "BOT"      -> Bot(n)
      [] type = "FanOut"   -> FanOut(n, a)
      [] type = "FanIn"    -> FanIn(n, a)
      [] type = "Pipeline" -> Pipeline(n, a)

(* A plausible bug: only one parent is counted. *)
GenDagIndegreeOne(adj) ==
    [t \in DOMAIN adj |-> IF \E p \in DOMAIN adj : t \in adj[p] THEN 1 ELSE 0]

GenDagIndegree(adj) == [t \in DOMAIN adj |-> Cardinality({p \in DOMAIN adj : t \in adj[p]})]

-----------------------------------------------------------------------------
(* A task's id: the index of the client and the number of the task, written *)
(* one after the other.                                                     *)
decimal[n \in Nat] == IF n < 10 THEN <<n>> ELSE Append(decimal[n \div 10], n % 10)
TaskId(c, i) == decimal[c] \o decimal[i]

(* insert_taskinfo_to_zht, one task at a time. *)
InsertTaskInfo(c) ==
    /\ next[c] < numTask
    /\ LET i  == next[c]
           id == TaskId(c, i)
           md == [indegree |-> dagInDegree[i],
                  children |-> {TaskId(c, k) : k \in dagAdjList[i]}]
       IN zht' = [k \in DOMAIN zht \cup {id} |-> IF k = id THEN md ELSE zht[k]]
    /\ next' = [next EXCEPT ![c] = @ + 1]
    /\ UNCHANGED <<dagType, dagArg, numTask, dagAdjList, dagInDegree, ran>>

(* Schedulers start when all tasks have come (wait_all_task_recv): a ready  *)
(* task is executed, and its children are notified.                         *)
Submitted == \A c \in Clients : next[c] = numTask

Execute ==
    /\ Submitted
    /\ \E id \in DOMAIN zht \ ran :
          /\ zht[id].indegree = 0
          /\ ran' = ran \cup {id}
          /\ zht' = [k \in DOMAIN zht |->
                        IF k \in zht[id].children THEN [zht[k] EXCEPT !.indegree = @ - 1] ELSE zht[k]]
    /\ UNCHANGED <<dagType, dagArg, numTask, dagAdjList, dagInDegree, next>>

Init ==
    /\ dagType \in DagTypes
    /\ dagArg \in 1 .. MaxArg
    /\ numTask \in 1 .. MaxTask
    /\ dagAdjList = GenDagAdjlist(dagType, dagArg, numTask)
    /\ dagInDegree = GenDagIndegree(dagAdjList)
    /\ next = [c \in Clients |-> 0]
    /\ zht = <<>>
    /\ ran = {}

Next == (\E c \in Clients : InsertTaskInfo(c)) \/ Execute

(* Clients insert their tasks, and schedulers run what is ready. *)
Spec == Init /\ [][Next]_vars /\ WF_vars(Next)

-----------------------------------------------------------------------------
(* The numbers of the tasks are a topological order of the generated DAG:   *)
(* every child has a larger number than its parent, and is a task.  It      *)
(* makes the workload acyclic whatever its shape and size.                  *)
EdgesForward ==
    \A i \in DOMAIN dagAdjList : \A k \in dagAdjList[i] : i < k /\ k < numTask

(* Every task of the configuration is in the generated list, so that the    *)
(* client inserts metadata for each task that it submits (init_task runs to *)
(* numTaskPerClient, insert_taskinfo_to_zht over the list).                 *)
EveryTaskHasMetadata == DOMAIN dagAdjList = Nodes(numTask)

(* A fan in DAG is a fan out DAG with every edge turned round: "first       *)
(* generate an adjacency list for fan out dag, and then flip it over".      *)
FanInMirrorsFanOut ==
    dagType = "FanIn" =>
        \A i, k \in Nodes(numTask) :
            k \in dagAdjList[i] <=>
                numTask - 1 - i \in FanOut(numTask, dagArg)[numTask - 1 - k]

(* While the workload runs, a task's indegree in ZHT is the number of its   *)
(* parents that have not run, for the parents that ZHT lists.               *)
IndegreeCountsParents ==
    Submitted => \A id \in DOMAIN zht :
        zht[id].indegree = Cardinality({p \in DOMAIN zht \ ran : id \in zht[p].children})

(* The ids of different tasks are different: "assigning taskId for each     *)
(* individual task".                                                        *)
IdsDistinct ==
    \A c, d \in Clients : \A i \in 0 .. next[c] - 1 : \A k \in 0 .. next[d] - 1 :
        TaskId(c, i) = TaskId(d, k) => c = d /\ i = k

(* Every task of the workload runs in the end: no cycle, no wrong indegree  *)
(* and no child without metadata keeps one waiting.                         *)
EveryTaskRuns == <>(Submitted /\ ran = {TaskId(p[1], p[2]) : p \in Clients \X Nodes(numTask)})
=============================================================================
