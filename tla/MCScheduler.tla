---------------------------- MODULE MCScheduler ----------------------------
(* Instances of Scheduler for TLC: two schedulers and up to four tasks.    *)
EXTENDS Scheduler, TLC

CONSTANTS s1, s2, t1, t2, t3, t4

(* Workloads. *)
BagChildren     == [t \in Tasks |-> {}]
ForkChildren    == [t \in Tasks |-> IF t = t1 THEN Tasks \ {t1} ELSE {}]
CrossChildren   == (t1 :> {t3, t4}) @@ (t2 :> {t3, t4}) @@ (t3 :> {}) @@ (t4 :> {})

(* The children of a fork are interchangeable, and so are the tasks of a   *)
(* bag.                                                                    *)
Siblings == Permutations(Tasks \ {t1})
Bag      == Permutations(Tasks)

(* Bounds on runs: their states before a core takes the first task, before *)
(* the second task has run.                                                *)
NoneTaken == \A s \in Schedulers, c \in Cores : core[s][c].task = None
OneRan    == Cardinality(RanTasks) <= 1

(* The shipped client leaves outputsize at 0. *)
NoOutput      == [t \in Tasks |-> 0]
ForkOutput    == [t \in Tasks |-> IF t = t1 THEN 1 ELSE 0]
CrossOutput   == (t1 :> 1) @@ (t2 :> 1) @@ (t3 :> 0) @@ (t4 :> 0)

(* submit_task_wc: all tasks to one scheduler. *)
WorstCase == {[t \in Tasks |-> s1]}

(* submit_task_bc: task i to scheduler i % n. *)
BestCase == {[t \in Tasks |-> IF t \in {t1, t3} THEN s1 ELSE s2]}

(* localQueue_monitor takes tasks out of one queue and puts them into the  *)
(* other under two locks, while cores take from both and thieves from the  *)
(* second: no task is lost or doubled on the way, and one that leaves the  *)
(* scheduler with its data still finds the data there.                     *)
MigrationSafe == OnePlace /\ DataInPlace
=============================================================================
