------------------------------- MODULE Startup -------------------------------
(* How a run of MATRIX begins.  The schedulers count themselves in ZHT      *)
(* (regist), wait until all have (wait_all_scheduler), open their server    *)
(* and wait until all tasks have come (wait_all_task_recv).  The clients    *)
(* wait for the schedulers in the same way, insert what ZHT has to know     *)
(* about their tasks and send the tasks in one batch for each scheduler.    *)
(*                                                                          *)
(* A ZHT operation is one step.  A counter that nobody has inserted reads   *)
(* as "", and compare_swap never succeeds on it: the server compares "^"    *)
(* with nothing.  The batches wait in a scheduler's backlog and queue of    *)
(* events in the order they came; the model takes them in any order.        *)
EXTENDS Integers, FiniteSets

CONSTANTS
    NumScheduler, NumClient,    \* schedulers and clients are numbered from 0
    NumTaskPerClient,
    SubmitModes                 \* what the configuration may say of SubmitMode

ASSUME StartupAssumption ==
    /\ NumScheduler \in Nat \ {0}
    /\ NumClient \in Nat \ {0}
    /\ NumTaskPerClient \in Nat \ {0}
    /\ SubmitModes \subseteq {"bestcase", "worstcase"}

Schedulers == 0 .. NumScheduler - 1
Clients    == 0 .. NumClient - 1

(* A task is the pair of its client and its number. *)
Tasks == Clients \X (0 .. NumTaskPerClient - 1)
NumAllTask == Cardinality(Tasks)

Absent == -1
Counts == Nat \cup {Absent}

VARIABLES
    regCount,       \* "number of scheduler registered"
    recvCount,      \* "num tasks recv"
    info,           \* the tasks that ZHT knows
    spc, seen,      \* a scheduler's main thread, and the count it read
    listening,      \* the schedulers whose server is open
    conn,           \* the connection of a client with a scheduler
    recvSeen,       \* the count that a scheduler's serving thread read
    waitQueue,      \* the tasks a scheduler has put into its queue
    cpc, target,    \* a client, and the scheduler it turns to
    submitMode      \* the configuration

main    == <<spc, seen, listening>>
serving == <<conn, recvSeen, waitQueue>>
clients == <<cpc, target, submitMode>>
vars    == <<regCount, recvCount, info, main, serving, clients>>

(* str_to_num of an empty string is 0. *)
StrToNum(n) == IF n = Absent THEN 0 ELSE n

(* A plausible bug in the server: a missing key equals an empty value. *)
SwapsAbsent(count, old) == count = old

(* A compare_swap succeeds if the count is there and is the one seen. *)
Swaps(count, old) == count # Absent /\ count = old

-----------------------------------------------------------------------------
(* regist.  Scheduler 0 inserts the counters one after the other; "num      *)
(* tasks done", between them, is left out.                                  *)
InsertReg(s) ==
    /\ s = 0 /\ spc[s] = "regist"
    /\ regCount' = 1
    /\ spc' = [spc EXCEPT ![s] = "insert"]
    /\ UNCHANGED <<recvCount, info, seen, listening, serving, clients>>

InsertRecv(s) ==
    /\ spc[s] = "insert"
    /\ recvCount' = 0
    /\ spc' = [spc EXCEPT ![s] = "wait scheduler"]
    /\ UNCHANGED <<regCount, info, seen, listening, serving, clients>>

(* The others look the first one up until it is there ... *)
LookupReg(s) ==
    /\ s # 0 /\ spc[s] = "regist" /\ regCount # Absent
    /\ seen' = [seen EXCEPT ![s] = regCount]
    /\ spc' = [spc EXCEPT ![s] = "swap"]
    /\ UNCHANGED <<regCount, recvCount, info, listening, serving, clients>>

(* A plausible bug: insert what was counted, without comparing. *)
SwapRegBlindly(s) ==
    /\ spc[s] = "swap"
    /\ regCount' = seen[s] + 1
    /\ spc' = [spc EXCEPT ![s] = "wait scheduler"]
    /\ UNCHANGED <<recvCount, info, seen, listening, serving, clients>>

(* ... and add one; when the swap fails its answer tells the count. *)
SwapReg(s) ==
    /\ spc[s] = "swap"
    /\ IF Swaps(regCount, seen[s])
         THEN /\ regCount' = seen[s] + 1
              /\ spc' = [spc EXCEPT ![s] = "wait scheduler"]
              /\ UNCHANGED seen
         ELSE /\ seen' = [seen EXCEPT ![s] = regCount]
              /\ UNCHANGED <<regCount, spc>>
    /\ UNCHANGED <<recvCount, info, listening, serving, clients>>

(* A plausible bug: the count is compared with the last index. *)
WaitAllSchedulerEarly(s) ==
    /\ spc[s] = "wait scheduler" /\ StrToNum(regCount) >= NumScheduler - 1
    /\ spc' = [spc EXCEPT ![s] = "open"]
    /\ UNCHANGED <<regCount, recvCount, info, seen, listening, serving, clients>>

WaitAllScheduler(s) ==
    /\ spc[s] = "wait scheduler" /\ StrToNum(regCount) = NumScheduler
    /\ spc' = [spc EXCEPT ![s] = "open"]
    /\ UNCHANGED <<regCount, recvCount, info, seen, listening, serving, clients>>

(* fork_es_thread: the server's thread listens some time later. *)
ForkEs(s) ==
    /\ spc[s] = "open"
    /\ spc' = [spc EXCEPT ![s] = "wait task"]
    /\ UNCHANGED <<regCount, recvCount, info, seen, listening, serving, clients>>

Serve(s) ==
    /\ spc[s] \in {"wait task", "started"} /\ s \notin listening
    /\ listening' = listening \cup {s}
    /\ UNCHANGED <<regCount, recvCount, info, spc, seen, serving, clients>>

WaitAllTaskRecv(s) ==
    /\ spc[s] = "wait task" /\ StrToNum(recvCount) = NumAllTask
    /\ spc' = [spc EXCEPT ![s] = "started"]
    /\ UNCHANGED <<regCount, recvCount, info, seen, listening, serving, clients>>

-----------------------------------------------------------------------------
(* The clients. *)
ClientWait(c) ==
    /\ cpc[c] = "wait" /\ StrToNum(regCount) = NumScheduler
    /\ cpc' = [cpc EXCEPT ![c] = "info"]
    /\ UNCHANGED <<regCount, recvCount, info, main, serving, target, submitMode>>

OwnTasks(c) == {c} \X (0 .. NumTaskPerClient - 1)

(* A plausible bug: the record of the last task is not inserted. *)
InsertTaskInfoShort(c) ==
    /\ cpc[c] = "info"
    /\ info' = info \cup (OwnTasks(c) \ {<<c, NumTaskPerClient - 1>>})
    /\ cpc' = [cpc EXCEPT ![c] = "submit"]
    /\ \E s \in Schedulers :
          /\ submitMode = "bestcase" => s = 0
          /\ target' = [target EXCEPT ![c] = s]
    /\ UNCHANGED <<regCount, recvCount, main, serving, submitMode>>

(* insert_taskinfo_to_zht and init_task; submit_task stamps the records and *)
(* picks the first scheduler: all in turn, or any one.                      *)
InsertTaskInfo(c) ==
    /\ cpc[c] = "info"
    /\ info' = info \cup OwnTasks(c)
    /\ cpc' = [cpc EXCEPT ![c] = "submit"]
    /\ \E s \in Schedulers :
          /\ submitMode = "bestcase" => s = 0
          /\ target' = [target EXCEPT ![c] = s]
    /\ UNCHANGED <<regCount, recvCount, main, serving, submitMode>>

(* submit_task_bc deals the tasks out in turn; in the worst case one        *)
(* scheduler gets them all.                                                 *)
Batch(c, s) ==
    IF submitMode = "bestcase"
      THEN {t \in OwnTasks(c) : t[2] % NumScheduler = s}
      ELSE OwnTasks(c)

(* A plausible bug: one scheduler too many. *)
NextTargetBeyond(c) ==
    IF submitMode = "bestcase" /\ target[c] < NumScheduler
      THEN /\ target' = [target EXCEPT ![c] = @ + 1]
           /\ UNCHANGED cpc
      ELSE /\ cpc' = [cpc EXCEPT ![c] = "submitted"]
           /\ UNCHANGED target

NextTarget(c) ==
    IF submitMode = "bestcase" /\ target[c] + 1 < NumScheduler
      THEN /\ target' = [target EXCEPT ![c] = @ + 1]
           /\ UNCHANGED cpc
      ELSE /\ cpc' = [cpc EXCEPT ![c] = "submitted"]
           /\ UNCHANGED target

(* submit_task_wc: when the connection is refused, it returns and the batch *)
(* is lost.                                                                 *)
SubmitTask(c) ==
    LET s == target[c] IN
    /\ cpc[c] = "submit"
    /\ conn' = [conn EXCEPT ![<<c, s>>] = IF s \in listening THEN "backlog" ELSE "refused"]
    /\ NextTarget(c)
    /\ UNCHANGED <<regCount, recvCount, info, main, recvSeen, waitQueue, submitMode>>

-----------------------------------------------------------------------------
(* The server of a scheduler: the event loop accepts a connection, reads    *)
(* its first part and queues it for the serving thread.                     *)
Accept(c, s) ==
    /\ conn[<<c, s>>] = "backlog"
    /\ conn' = [conn EXCEPT ![<<c, s>>] = "event"]
    /\ UNCHANGED <<regCount, recvCount, info, main, recvSeen, waitQueue, clients>>

Serving(s) == {c \in Clients : conn[<<c, s>>] \in {"lookup", "swap"}}

(* recv_task_from_client: an empty batch is a single package and ends here; *)
(* the tasks of another one are looked up and queued ...                    *)
RecvTaskFromClient(c, s) ==
    /\ conn[<<c, s>>] = "event" /\ Serving(s) = {}
    /\ waitQueue' = [waitQueue EXCEPT ![s] = @ \cup Batch(c, s)]
    /\ conn' = [conn EXCEPT ![<<c, s>>] = IF Batch(c, s) = {} THEN "done" ELSE "lookup"]
    /\ UNCHANGED <<regCount, recvCount, info, main, recvSeen, clients>>

(* ... and counted, by a lookup ... *)
LookupRecv(c, s) ==
    /\ conn[<<c, s>>] = "lookup"
    /\ recvSeen' = [recvSeen EXCEPT ![s] = recvCount]
    /\ conn' = [conn EXCEPT ![<<c, s>>] = "swap"]
    /\ UNCHANGED <<regCount, recvCount, info, main, waitQueue, clients>>

(* A plausible bug: a swap that succeeded may be repeated. *)
SwapRecvAgain(c, s) ==
    /\ conn[<<c, s>>] = "swap"
    /\ Swaps(recvCount, recvSeen[s])
    /\ recvCount' = StrToNum(recvSeen[s]) + Cardinality(Batch(c, s))
    /\ \E next \in {"lookup", "done"} : conn' = [conn EXCEPT ![<<c, s>>] = next]
    /\ UNCHANGED <<recvSeen, regCount, info, main, waitQueue, clients>>

(* ... and a compare_swap, which is repeated with the count it answers, or, *)
(* when that is empty, with a new lookup.                                   *)
SwapRecv(c, s) ==
    /\ conn[<<c, s>>] = "swap"
    /\ IF Swaps(recvCount, recvSeen[s])
         THEN /\ recvCount' = StrToNum(recvSeen[s]) + Cardinality(Batch(c, s))
              /\ conn' = [conn EXCEPT ![<<c, s>>] = "done"]
              /\ UNCHANGED recvSeen
         ELSE /\ recvSeen' = [recvSeen EXCEPT ![s] = recvCount]
              /\ conn' = [conn EXCEPT ![<<c, s>>] = IF recvCount = Absent THEN "lookup" ELSE "swap"]
              /\ UNCHANGED recvCount
    /\ UNCHANGED <<regCount, info, main, waitQueue, clients>>

-----------------------------------------------------------------------------
Init ==
    /\ regCount = Absent /\ recvCount = Absent /\ info = {}
    /\ spc = [s \in Schedulers |-> "regist"] /\ seen = [s \in Schedulers |-> Absent]
    /\ listening = {}
    /\ conn = [p \in Clients \X Schedulers |-> "none"]
    /\ recvSeen = [s \in Schedulers |-> Absent]
    /\ waitQueue = [s \in Schedulers |-> {}]
    /\ cpc = [c \in Clients |-> "wait"] /\ target = [c \in Clients |-> 0]
    /\ submitMode \in SubmitModes

SchedulerStep(s) ==
    \/ InsertReg(s) \/ InsertRecv(s) \/ LookupReg(s) \/ SwapReg(s)
    \/ WaitAllScheduler(s) \/ ForkEs(s) \/ WaitAllTaskRecv(s)

ClientStep(c) == ClientWait(c) \/ InsertTaskInfo(c) \/ SubmitTask(c)

ServeStep(c, s) ==
    Accept(c, s) \/ RecvTaskFromClient(c, s) \/ LookupRecv(c, s) \/ SwapRecv(c, s)

Next ==
    \/ \E s \in Schedulers : SchedulerStep(s) \/ Serve(s)
    \/ \E c \in Clients : ClientStep(c)
    \/ \E c \in Clients, s \in Schedulers : ServeStep(c, s)

(* Every thread goes on.  A swap that fails read a newer count, so the      *)
(* swaps of the others, of which there are finitely many, are all that can  *)
(* hold one back.                                                           *)
Fairness ==
    /\ \A s \in Schedulers : WF_vars(SchedulerStep(s)) /\ WF_vars(Serve(s))
    /\ \A c \in Clients : WF_vars(ClientStep(c))
    /\ \A c \in Clients, s \in Schedulers : WF_vars(ServeStep(c, s))

Spec == Init /\ [][Next]_vars /\ Fairness

-----------------------------------------------------------------------------
(* Type invariant of the counters in ZHT, the queues and the processes. *)
TypeOK ==
    /\ regCount \in Counts /\ recvCount \in Counts /\ info \subseteq Tasks
    /\ spc \in [Schedulers -> {"regist", "insert", "swap", "wait scheduler", "open",
                               "wait task", "started"}]
    /\ seen \in [Schedulers -> Counts] /\ listening \subseteq Schedulers
    /\ conn \in [Clients \X Schedulers ->
                   {"none", "refused", "backlog", "event", "lookup", "swap", "done"}]
    /\ recvSeen \in [Schedulers -> Counts]
    /\ waitQueue \in [Schedulers -> SUBSET Tasks]
    /\ cpc \in [Clients -> {"wait", "info", "submit", "submitted"}]
    /\ target \in [Clients -> Schedulers]

Registered == {s \in Schedulers : spc[s] \notin {"regist", "swap"}}

(* regist: "to ensure that all the schedulers are running at the beginning  *)
(* before moving forward".  A server is opened, and a client goes on, only  *)
(* after every scheduler has been counted.                                  *)
AllRegisteredFirst ==
    /\ \A s \in Schedulers : spc[s] \in {"open", "wait task", "started"} => Registered = Schedulers
    /\ \A c \in Clients : cpc[c] # "wait" => Registered = Schedulers

(* wait_all_task_recv: when a scheduler starts to work, every task of every *)
(* client is in a wait queue, though tasks are queued before they are       *)
(* counted and the counters are inserted late.                              *)
StartedWithAllTasks ==
    \A s \in Schedulers :
        spc[s] = "started" => UNION {waitQueue[u] : u \in Schedulers} = Tasks

(* exec_a_task and recv_task_from_client read the record of a task they     *)
(* have, and str_to_value ends the process when there is none: the record   *)
(* is in ZHT before the task is in a queue.                                 *)
QueuedIsKnown == \A s \in Schedulers : waitQueue[s] \subseteq info

(* The queues are right when they are used: tasks in them are known, and    *)
(* all are there when a scheduler starts.                                   *)
QueuesOK == TypeOK /\ StartedWithAllTasks /\ QueuedIsKnown

Refused == \E p \in Clients \X Schedulers : conn[p] = "refused"

(* All schedulers start to work in the end, unless a connection was refused *)
(* and its batch was lost.                                                  *)
AllStart == <>(Refused \/ \A s \in Schedulers : spc[s] = "started")

(* client.cpp: "Now, I am waiting until all the schedulers are running!":   *)
(* no scheduler is found closed after that.                                 *)
NobodyRefused == ~Refused
=============================================================================
