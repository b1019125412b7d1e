----------------------------- MODULE MCProgress -----------------------------
(* Two instances of Scheduler for TLC's liveness checking, with and without *)
(* work stealing, and one of StoreLocks.  The first state of a behaviour    *)
(* chooses one; the variables of the others are off.                        *)
EXTENDS Integers, FiniteSets, TLC

CONSTANTS None, s1, s2, c1, t1, t2, t3, server, g1, r1, r2

VARIABLES
    case,
    zht, numTasksDone, waitQueue, localQueue, wsQueue, completeQueue, localData,
    crt, core, cct, ws, migrating, rs, sockMutex, conn,
    numTaskFin, prevNumTaskFin, running, reported,
    instant, sem, todo, rewriting, calls

(* Two parents on two schedulers with one child, which needs data of both. *)
Ts == {t1, t2, t3}

Join == INSTANCE Scheduler WITH
    Schedulers <- {s1, s2}, Cores <- {c1}, Tasks <- Ts,
    Children <- [t \in Ts |-> IF t = t3 THEN {} ELSE {t3}],
    OutputSize <- (t1 :> 1 @@ t2 :> 2 @@ t3 :> 0),
    Submission <- {[t \in Ts |-> IF t = t2 THEN s2 ELSE s1]}, DataSizeThreshold <- 0,
    WorkStealingOn <- FALSE, FLWS <- FALSE, NumNeigh <- 1, MaxTaskPerPkg <- 1, PollLimit <- 1

(* One task, and two thieves that ask each other. *)
Polling == INSTANCE Scheduler WITH
    Schedulers <- {s1, s2}, Cores <- {c1}, Tasks <- {t1}, Children <- (t1 :> {}),
    OutputSize <- (t1 :> 0), Submission <- {(t1 :> s1)}, DataSizeThreshold <- 0,
    WorkStealingOn <- TRUE, FLWS <- FALSE, NumNeigh <- 1, MaxTaskPerPkg <- 1, PollLimit <- 1

(* A server, a thread that only reads, and room for a rewriting thread      *)
(* too many.                                                                *)
Store == INSTANCE StoreLocks WITH
    Server <- server, Pollers <- {g1}, Rewriters <- {r1, r2}, MaxCalls <- 5

ASSUME Store!LocksAssumption

storeVars == <<instant, sem, todo, rewriting, calls>>
schedVars == <<zht, numTasksDone, waitQueue, localQueue, wsQueue, completeQueue, localData,
               crt, core, cct, ws, migrating, rs, sockMutex, conn,
               numTaskFin, prevNumTaskFin, running, reported>>
vars      == <<case, schedVars, storeVars>>

NoScheduler ==
    /\ zht = "off" /\ numTasksDone = "off" /\ waitQueue = "off" /\ localQueue = "off"
    /\ wsQueue = "off" /\ completeQueue = "off" /\ localData = "off" /\ crt = "off"
    /\ core = "off" /\ cct = "off" /\ ws = "off" /\ migrating = "off" /\ rs = "off"
    /\ sockMutex = "off" /\ conn = "off" /\ numTaskFin = "off" /\ prevNumTaskFin = "off"
    /\ running = "off" /\ reported = "off"

NoStore ==
    /\ instant = "off" /\ sem = "off" /\ todo = "off" /\ rewriting = "off" /\ calls = "off"

Init ==
    \/ case = "join" /\ Join!Init /\ NoStore
    \/ case = "polling" /\ Polling!Init /\ NoStore
    \/ case = "store" /\ Store!Init /\ NoScheduler

Next ==
    \/ case = "join" /\ Join!Next /\ UNCHANGED <<case, storeVars>>
    \/ case = "polling" /\ Polling!Next /\ UNCHANGED <<case, storeVars>>
    \/ case = "store" /\ Store!Next /\ UNCHANGED <<case, schedVars>>

(* The fairness of Scheduler and of StoreLocks.  The case does not change,  *)
(* so that the steps of two cases may share a conjunct.                     *)
Either(A, B) ==
    UNCHANGED <<case, storeVars>> /\ ((case = "join" /\ A) \/ (case = "polling" /\ B))

Runs(s) == case # "store" /\ running[s]

FairSpec ==
    /\ Init /\ [][Next]_vars
    /\ \A s \in {s1, s2} :
          /\ SF_vars(Runs(s) /\ Either(Join!CrtStep(s), Polling!CrtStep(s)))
          /\ SF_vars(Runs(s) /\ Either(Join!ExecStep(s, c1), Polling!ExecStep(s, c1)))
          /\ SF_vars(Runs(s) /\ Either(Join!CctStep(s), Polling!CctStep(s)))
          /\ SF_vars(Runs(s) /\ Either(Join!WsStep(s), Polling!WsStep(s)))
          /\ SF_vars(Either(Join!RsStep(s), Polling!RsStep(s)))
          /\ WF_vars(Either(Join!MonPush(s), Polling!MonPush(s)))
          /\ WF_vars(Either(Join!Release(s), Polling!Release(s)))
          /\ WF_vars(Either(Join!ProcStep(s), Polling!ProcStep(s)))
    /\ \A t \in Store!Threads :
          WF_vars(case = "store" /\ Store!Step(t) /\ UNCHANGED <<case, schedVars>>)

(* Every scheduler finds out in the end that the workload is done. *)
AllStop == <>(\A s \in {s1, s2} : ~Runs(s))

Locked(s) == case # "store" /\ sockMutex[s]

(* No two schedulers wait for each other's answers for ever, although each  *)
(* holds its sockMutex while it waits.                                      *)
SockReleased == \A s \in {s1, s2} : Locked(s) ~> ~Locked(s)

Busy == case = "store" /\ ~Store!AtRest

(* put, append, remove and merge take map_lock before write_lock, and no    *)
(* early return keeps one: all calls return and the rewriting thread ends,  *)
(* once no new calls come.  There is never more than one such thread,       *)
(* although its flag is reset before it has released the locks, nor more    *)
(* than one holder of a lock.                                               *)
LocksReleased ==
    /\ [](case = "store" => Store!Exclusive /\ Store!OneRewriter)
    /\ Busy ~> ~Busy
=============================================================================
