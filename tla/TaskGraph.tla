----------------------------- MODULE TaskGraph -----------------------------
(***************************************************************************)
(* What MATRIX promises for a workload: every task of the DAG runs once,   *)
(* after all of its parents, and a scheduler stops processing only when    *)
(* the whole workload has run.  Nothing here says where a task runs, which *)
(* queue it waits in or how the schedulers find out that it is ready.      *)
(***************************************************************************)
CONSTANTS Tasks,        \* the task ids of the workload
          Schedulers,   \* the schedulers of the membership list
          Children      \* [Tasks -> SUBSET Tasks], the adjacency list

VARIABLES ran,          \* the tasks that have been executed
          stopped       \* the schedulers with running = false

vars == <<ran, stopped>>

Parents(t) == {p \in Tasks : t \in Children[p]}

Init ==
    /\ ran = {}
    /\ stopped = {}

(* A scheduler executes a task all of whose parents have been executed.    *)
Run(t) ==
    /\ t \notin ran
    /\ Parents(t) \subseteq ran
    /\ ran' = ran \union {t}
    /\ UNCHANGED stopped

(* A scheduler finds that the whole workload is done and stops.            *)
Stop(s) ==
    /\ s \notin stopped
    /\ ran = Tasks
    /\ stopped' = stopped \union {s}
    /\ UNCHANGED ran

Next ==
    \/ \E t \in Tasks : Run(t)
    \/ \E s \in Schedulers : Stop(s)

Spec == Init /\ [][Next]_vars

FairSpec ==
    /\ Spec
    /\ \A t \in Tasks : WF_vars(Run(t))
    /\ \A s \in Schedulers : WF_vars(Stop(s))
=============================================================================
