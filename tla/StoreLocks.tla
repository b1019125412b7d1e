----------------------------- MODULE StoreLocks -----------------------------
(* The two semaphores of a NoVoHT table with a file (novoht.cpp): map_lock  *)
(* and write_lock, as the server's loop, the threads that only call get,    *)
(* and the thread that rewrites the file take and release them.             *)
(*                                                                          *)
(* A thread is what it has still to do of a call: a sequence of waits and   *)
(* posts, and of the steps that depend on the flag `rewriting' or change    *)
(* it.  What the calls do to the table and the file is in NoVoHT.           *)
EXTENDS Integers, Sequences, FiniteSets

CONSTANTS
    Server,         \* the thread that calls put, append and remove
    Pollers,        \* the threads that call get
    Rewriters,      \* the rewriting threads that may be created
    MaxCalls        \* bound: calls

(* What the constants have to be. *)
LocksAssumption ==
    /\ Server \notin Pollers \cup Rewriters
    /\ Pollers \cap Rewriters = {}
    /\ MaxCalls \in Nat

VARIABLES
    instant,        \* does the server rewrite its file after every change?
    sem,            \* the values of the semaphores
    todo,           \* what every thread has still to do
    rewriting,
    calls

vars == <<instant, sem, todo, rewriting, calls>>

Threads == {Server} \cup Pollers \cup Rewriters
Locks   == {"map_lock", "write_lock"}

Wait(m)  == [do |-> "wait", lock |-> m]
Post(m)  == [do |-> "post", lock |-> m]
Test     == [do |-> "test"]     \* writeFile: is a rewrite under way?
Create   == [do |-> "create"]   \* ... and if not, pthread_create
Finish   == [do |-> "finish"]   \* merge: rewriting = false
Join     == [do |-> "join"]     \* writeFileFG: pthread_join

Under(m, steps) == <<Wait(m)>> \o steps \o <<Post(m)>>

(* write, writeAppend, mark and logrm. *)
ToFile == Under("write_lock", <<>>)

(* put: a stored key's records are marked under map_lock.  append never    *)
(* marks, and takes the locks as put of a new key does.                    *)
PutOld == Under("map_lock", ToFile) \o ToFile
PutNew == Under("map_lock", <<>>) \o ToFile

(* remove: of a key that is not stored, of a stored one, and of the one    *)
(* that reaches magicNumber.                                               *)
RemoveNone == Under("map_lock", <<>>)
RemoveKey  == Under("map_lock", ToFile)
RemoveLast == Under("map_lock", Append(ToFile, Test))

Get == Under("map_lock", <<>>)

(* HTWorker: what a put, an append or a remove that succeeded is followed  *)
(* by if INSTANT_SWAP is set (writeFileFG).                                *)
Changes == {PutOld, PutNew, RemoveKey, RemoveLast}

Swapped(steps) == IF instant THEN steps \o <<Test, Join>> ELSE steps

(* Variant: merge takes the locks in the other order. *)
MergeCrossed ==
    <<Wait("write_lock"), Wait("map_lock"), Finish, Post("map_lock"), Post("write_lock")>>

(* The rewriting thread holds no lock until it merges. *)
Merge ==
    <<Wait("map_lock"), Wait("write_lock"), Finish, Post("map_lock"), Post("write_lock")>>

(* Variant: a rewrite that is under way is not noticed. *)
WriteFileAlways == Under("write_lock", <<Create>>)

(* writeFile, behind its test of the file. *)
WriteFile == IF rewriting THEN <<>> ELSE Under("write_lock", <<Create>>)

-----------------------------------------------------------------------------
Idle(t) == todo[t] = <<>>

Call(t, steps) ==
    /\ Idle(t)
    /\ calls < MaxCalls
    /\ calls' = calls + 1
    /\ todo' = [todo EXCEPT ![t] = steps]
    /\ UNCHANGED <<instant, sem, rewriting>>

(* The next step of a thread; sem_wait waits while the semaphore is 0.     *)
At(t, do) == ~Idle(t) /\ Head(todo[t]).do = do

SemWait(t) ==
    /\ At(t, "wait")
    /\ sem[Head(todo[t]).lock] > 0
    /\ sem' = [sem EXCEPT ![Head(todo[t]).lock] = @ - 1]
    /\ todo' = [todo EXCEPT ![t] = Tail(@)]
    /\ UNCHANGED <<instant, rewriting, calls>>

SemPost(t) ==
    /\ At(t, "post")
    /\ sem' = [sem EXCEPT ![Head(todo[t]).lock] = @ + 1]
    /\ todo' = [todo EXCEPT ![t] = Tail(@)]
    /\ UNCHANGED <<instant, rewriting, calls>>

TestRewriting(t) ==
    /\ At(t, "test")
    /\ todo' = [todo EXCEPT ![t] = WriteFile \o Tail(@)]
    /\ UNCHANGED <<instant, sem, rewriting, calls>>

CreateThread(t) ==
    /\ At(t, "create")
    /\ rewriting' = TRUE
    /\ \E r \in Rewriters :
          /\ Idle(r)
          /\ todo' = [todo EXCEPT ![t] = Tail(@), ![r] = Merge]
    /\ UNCHANGED <<instant, sem, calls>>

FinishRewrite(t) ==
    /\ At(t, "finish")
    /\ rewriting' = FALSE
    /\ todo' = [todo EXCEPT ![t] = Tail(@)]
    /\ UNCHANGED <<instant, sem, calls>>

(* The thread that was created last is the only one that may be running.   *)
JoinThread(t) ==
    /\ At(t, "join")
    /\ \A r \in Rewriters : Idle(r)
    /\ todo' = [todo EXCEPT ![t] = Tail(@)]
    /\ UNCHANGED <<instant, sem, rewriting, calls>>

Step(t) ==
    \/ SemWait(t) \/ SemPost(t)
    \/ TestRewriting(t) \/ CreateThread(t) \/ FinishRewrite(t) \/ JoinThread(t)

(* A server that has read its file rewrites it, before the first call. *)
Init ==
    /\ instant \in BOOLEAN
    /\ sem = [m \in Locks |-> 1]
    /\ \E r \in Rewriters : todo = [t \in Threads |-> IF t = r THEN Merge ELSE <<>>]
    /\ rewriting = TRUE
    /\ calls = 0

(* No call and no rewrite is under way. *)
AtRest == \A t \in Threads : Idle(t)

(* No call comes.  That threads with something to do go on is for the      *)
(* fairness to say, and that they never block each other for the property. *)
Quiet == UNCHANGED vars

Next ==
    \/ \E steps \in Changes : Call(Server, Swapped(steps))
    \/ Call(Server, RemoveNone)
    \/ \E t \in Pollers : Call(t, Get)
    \/ \E t \in Threads : Step(t)
    \/ Quiet

(* No thread stands still for ever where it can go on. *)
Spec == Init /\ [][Next]_vars /\ \A t \in Threads : WF_vars(Step(t))

-----------------------------------------------------------------------------
(* Properties. *)

(* A thread holds a lock when the next it does with it is to release it.   *)
Holds(t, m) ==
    \E i \in DOMAIN todo[t] :
        /\ todo[t][i] = Post(m)
        /\ \A j \in 1 .. i - 1 : todo[t][j] # Wait(m)

(* A semaphore is 1 when no thread holds it, and no two threads hold it.   *)
Exclusive ==
    \A m \in Locks : sem[m] = 1 - Cardinality({t \in Threads : Holds(t, m)})

(* No rewriting thread is created before the one before it has released    *)
(* both locks, although `rewriting' is reset before that.                  *)
OneRewriter == Cardinality({r \in Rewriters : ~Idle(r)}) <= 1
=============================================================================
