# MATRIX v2: TLA+ models and proofs

MATRIX is a fully distributed scheduler for many-task workloads. A client
generates a DAG of tasks, stores each task's metadata in ZHT (a distributed
key-value store) and submits the task ids to the schedulers; the schedulers find
out together which tasks are ready, move them to where their data is or to where
cores are idle, execute them, and stop when all are done. This directory holds
TLA+ models of MATRIX and of the ZHT that it is built on, TLC configurations that
check them on small instances, and TLAPS proofs for instances of any size.

Paths below are relative to `src/`. `PROJECT.json` lists all parts, the source
lines behind every definition (`map`), the hazards of the code with the
properties that cover them, and the theorems.

## The system and its modules

| part | code | module |
|---|---|---|
| what the schedulers promise | | `TaskGraph` (abstract) |
| threads and request handler of a scheduler | `matrix/src/scheduler_stub.cpp` | `Scheduler` |
| registration, submission, the barriers before the work | `scheduler_stub.cpp`, `client_stub.cpp` | `Startup` |
| DAG generators, task ids, the metadata that a client inserts | `matrix/src/util.cpp`, `client_stub.cpp` | `Workload` |
| text forms of tasks, metadata and messages | `matrix/src/util.cpp`, `ZHT/src/ZHTUtil.cpp` | `TextCodec`, `StoredValue` |
| conversations over TCP: framing, packages, refused connections | `matrix_tcp_proxy_stub.cpp`, `matrix_epoll_server.cpp` | `Transport` |
| ZHT's operations, callbacks, client, cached sockets | `ZHT/src/HTWorker.cpp`, `cpp_zhtclient.cpp`, `tcp_proxy_stub.cpp` | `ZHTService` |
| cache of sockets | `ZHT/src/lru_cache.h` | `LRUCache` |
| big messages in blobs, the server's epoll loop | `ZHT/src/bigdata_transfer.cpp`, `ip_server.cpp`, `EpollServer` | `BigMessage` |
| message queues and MPI broker | `ZHT/src/ipc_plus.cpp`, `mpi_broker.cpp` | `MsgQueue` |
| configuration files, choice of server and protocol | `ZHT/src/ConfHandler.cpp`, `ProxyStubFactory` | `Membership` |
| the table, its file, its rewriting thread | `ZHT/src/novoht.cpp` | `NoVoHT`, with `KVMap` (abstract) |
| the semaphores of the table and the file | `ZHT/src/novoht.cpp` | `StoreLocks` |
| generated protobuf classes | `*.pb.cc`, `*.pb-c.c` | `MessageTables`, `Message` |

`MC*` modules give the constants for TLC. `MCComm`, `MCValues` and `MCProgress`
each hold several instances that share no state: a behaviour is one of one
instance, which its first state chooses. `*Proofs` modules hold the theorems.
`Lists` has the few operators of `SequencesExt` that the modules with proofs need:
tlapm takes every definition in reach into each obligation, and the whole of
`SequencesExt` doubles the time of the proofs.

### How the parts interact

The clients and the schedulers meet in ZHT and on the network. In ZHT they share
the registration counter and the counter of received tasks (`Startup`), the
metadata of every task, which the notifications of several schedulers update, and
the counter "num tasks done" (`Scheduler`). All of these are updated by loops
around `compare_swap`. On the network a client submits tasks, and a scheduler
pushes a task, asks for data, asks for the load and steals. All exchanges of a
process are made under one lock, `sockMutex`, which is held from the request to
its answer, while the peer's handler answers without that lock.

The modules meet where one uses what another shows:

- `Startup` ends where `Scheduler` starts: every task is in exactly the wait queue
  it was submitted to, and its metadata is in ZHT (`QueuesOK`).
- `Workload` shows that the DAG that `Scheduler` takes as a constant is acyclic and
  that metadata starts with the right indegree.
- `Scheduler` and `Startup` take `lookup` and `compare_swap` for atomic steps that do
  not fail. `ZHTService` shows this for a server that does not crash (`CallsOK`),
  and `NoVoHT` that the table below it acts as a map (`ActsAsMap`).
- `Scheduler` sends a message in one step. `Transport` shows that what is received
  is what was sent, unless TCP cuts the stream in one of three ways that the code
  does not handle (see `ReceivedAsSent` below).
- `NoVoHT` takes a critical section for one step. `StoreLocks` has the semaphores that
  make it one, and shows that nobody waits for them for ever.

### How the models abstract the code

- One action is what a thread does between two points at which another thread can
  be seen: a ZHT operation, a critical section, an unlocked read, a send or a
  receive. A lock is a variable where it stays locked across such points and a
  guard where it encloses one.
- **Scheduler.** From the moment every task is in some wait queue to the moment
  every scheduler has cleared `running`. One operator per thread (`CrtStep`,
  `ExecStep`, `CctStep`, `WsStep`, `MonStep`, `RsStep`) collects the actions of the
  checking-ready thread, a core, the checking-complete thread, work stealing, the
  local queue monitor (policy FLWS) and the recording thread; `ProcStep` are the
  answers of `proc_req`. A thread's local state is a record (`CrtAt`, `CoreAt`,
  `CctAt`, `WsAt`) with a control point `pc` and the local variables that survive to
  the next step. The priority queues are sets of which a pop takes any element
  with the least `datalength` (`Tops`). The wait queue is a set, since a check of a
  task that is not ready puts it back. A connection is the last message sent on
  it. The content of data is `"absent"`, `"result"` or `"error"` (the text that
  `proc_req` sends when it does not find the data). Unlocked `size()` reads that race
  with a push (`ProcQueryLoad`, `ExecLook`, `WsChoose`) may return values that are
  out of date or torn.
- **Startup.** The counters in ZHT are numbers or absent; a `compare_swap` loop is a
  lookup and a swap that may find another value. A connection to a server that does
  not listen yet is refused, and the batch is lost, as the client returns.
- **ZHTService.** A record of the store has a text form, a value with its `valnull`
  flag, or the binary form that `append` leaves. The state that the properties
  compare with is the map `abs`, which `Handle` updates beside the store. The
  poller of the callbacks reads a record in two steps (`PollerGet`, `PollerRead`);
  when a write hits the record in between, what it reads is any outcome. `Crash`
  and `Restart` lose the store, the sockets and the queued callbacks; a second
  write to a socket whose server is gone ends the process with a signal.
- **LRUCache.** The loop that evicts keeps the longest front part of the list with
  which the counter is in bounds (`Evicted`).
- **NoVoHT.** Chains and sizes are as in the code; a file is a sequence of records with a
  mark, and a position in it is a record's number. An uninitialised field (`diff`) is a
  choice. While the file is rewritten, requests write to `.novoht.swp`, which
  `writeFile` opens for writing only (`novoht.cpp:255`): `readTabString` of `merge` reads
  nothing from it, the loop of `merge` never runs, and what was written there is lost.
  So `.novoht.swp` is not kept, and `Merge` ends the rewrite. A position in it, or in
  the file as it was before it was emptied, is `Stray`; a "~" at such a position hits
  any character of the file, so that from then on (`torn`) every record may be read as
  itself, as deleted or under another key, until the file is rewritten. A dump skips a
  pair with an empty value.
- **StoreLocks.** A thread is the sequence of `sem_wait`, `sem_post` and of the steps on
  the flag `rewriting` that it has still to do; the calls of the server, the reads of
  the poller and the rewriting thread are such sequences. With `INSTANT_SWAP` (0 in the
  shipped `zht.conf`) a change is followed by a rewrite that the server waits for.
- **MsgQueue.** A request that is too large or that `msgsnd` refuses is not sent, and its
  client waits all the same (`SendFails`), as `sendrecv` does.
- **Transport.** A read returns any part of what has come, up to the buffer; one that
  fills the buffer may go on behind its end. `clean` records whether the reads so far
  were cut as `ReceivedAsSent` asks.
- **Codecs and framing.** A text is a sequence of words and separators; `tokenize`, the
  `to_str` functions and their inverses work on it as the code does, with the length
  of a text where a buffer limits it.
- **Generated classes.** A class is a table of fields (`MessageTables`); one set of
  operators (`Message`) models the code that protoc generates for each of them.
- Numbers that the code never bounds (calls, crashes, restarts, losses, copies) have
  named bounds in the models: `maxCalls`, `maxCrashes`, `maxOps`, `maxRestarts`,
  `MaxLost`, `MaxCopies`, `MaxResets`, `MaxRequests`, `MaxDeaths`, `PollLimit`, ...

## Runs

| run | instance | properties | distinct states |
|---|---|---|---|
| `data` | two parents, one on each of two schedulers, with two common children; data on every edge; no stealing | `TypeOK` `OnePlace` `IndegreeExact` `DataInPlace` `OneConversation` `CounterExact` `ReadyIsFinal` `ExecutesTaskGraph` | 144,428 |
| `stealing` | a fork into three with data, stealing and the queue monitor, until the second task has run | `MigrationSafe` | 448,196 |
| `packages` | a bag of four, packages of one task, until a core takes a task | `OnePlace` | 214,656 |
| `progress` | a join with data on both edges; one task and two thieves; the semaphores of a table with a reader and room for two rewriting threads; fair threads | `AllStop` `SockReleased` `LocksReleased` | 13,713 |
| `startup` | three schedulers, two clients, four tasks each, both ways to submit | `AllRegisteredFirst` `QueuesOK` `AllStart` | 350,942 |
| `store` | a table in memory that grows; a table with its file; a file that is rewritten while requests come and the server restarts | `TableOK` `FileExact` `GrowsWhenFull` `ActsAsMap` | 419,280 |
| `service` | calls of three threads in two processes; calls and a crash; callbacks with leases and a crash | `CallsOK` `SuccessIsApplied` `CallbackUnlessRaced` `EveryCallReturns` | 359,332 |
| `comm` | blobs over TCP with a reset and over UDP with loss and copies; the socket cache; the message queues, with a broker that lives or is restarted and requests that cannot be sent; the configuration files; conversations under every cut of the stream, with a `$` in a text, and refused ones | `BlobsDelivered` `CacheConsistent` `AnswersOwn` `ConfigurationsAgree` `ReceivedAsSent` `Arrives` `NobodyHangs` `ConversationEnds` | 296,239 |
| `values` | all DAG types up to five tasks, two clients; three operations on two objects of each class; any two fields of a task's metadata into ZHT and back | `EdgesForward` `EveryTaskHasMetadata` `FanInMirrorsFanOut` `IndegreeCountsParents` `WireFormat` `EveryTaskRuns` `WholeObject` `ReadsWhatItStored` | 63,336 |
| `bound` | one task and two thieves; violation expected | `StealsAtBound` | |
| `refused` | as `startup`; violation expected | `NobodyRefused` | |
| `restart` | a table with its file, one restart; violation expected | `RestartKeepsTable` | |

### What the properties say

Schedulers:

- `OnePlace`: every task is in exactly one place (a queue, a thread, a message, a
  core, or executed), at all times and across all schedulers.
- `IndegreeExact`: the indegree in ZHT is the number of parents that have not been
  noted yet, and `notes` lists exactly the others.
- `ReadyIsFinal`: metadata with indegree 0 never changes, so that the copies that
  threads keep of it are not stale.
- `DataInPlace`: data that metadata or a core's list names is in `localData` of the
  scheduler that produced it; no error text is ever cached. `MigrationSafe`: both, with
  the queue monitor and thieves at work.
- `OneConversation`: `sockMutex` is locked exactly when one thread is inside an
  exchange or a retry loop, and the message on the connection belongs to it.
- `CounterExact`: "num tasks done" counts every reported task once, and each
  scheduler's `prevNumTaskFin` is exactly what it has reported.
- `ExecutesTaskGraph`: `Scheduler` implements `TaskGraph`: every task runs once and
  after its parents, and no scheduler stops before all have run.
- `AllStop`: every scheduler stops in the end. `SockReleased`: no exchange lasts for
  ever, though two schedulers may ask each other at once.
- `AllRegisteredFirst`, `QueuesOK`, `AllStart`: nobody passes a barrier early, the
  queues are complete when the work starts, and everybody starts unless a
  submission was refused.
- `EdgesForward`, `EveryTaskHasMetadata`, `FanInMirrorsFanOut`,
  `IndegreeCountsParents`, `EveryTaskRuns`: the generated DAG is acyclic, has an
  entry for every task, fan in is fan out turned round, and executing the workload
  by its indegrees runs every task after its parents.
- `ReceivedAsSent`: tasks and data arrive as they were sent, in their order, wherever
  TCP cuts the stream, but for three kinds of cut: a read that fills the buffer; a
  first read with less than `proc_req` needs to act on it (the begin of a submission,
  the whole of a pushed task); and a read of `recv_mul` that ends with a `$` of the text.
  The run has all three, and without any one of the exclusions the property fails.
  `ConversationEnds`: no read waits for ever, under any cut.
- `ReadsWhatItStored`: metadata is read as it was stored.

ZHT:

- `CallsOK`: calls are answered as by a map, and a socket carries one request or one
  answer at a time. `SuccessIsApplied`: success means applied, once.
  `CallbackUnlessRaced`: a callback that succeeds saw its value, unless a write hit
  the record while it was read. `EveryCallReturns`.
- `TableOK`, `ActsAsMap`, `GrowsWhenFull`, `FileExact`: every stored key
  is once in the chain that `get` searches; requests act as on a map (`KVMap`); the
  table grows only when it is full; while nothing disturbs it (no rewrite after the
  start, no restart, no two keys in one chain) the live records of the file are the
  table.
- `LocksReleased`: a semaphore has at most one holder, there is never a second
  rewriting thread, although `merge` resets `rewriting` before it has released its
  semaphores, and calls and rewrite come to an end: no two threads wait for each other.
- `BlobsDelivered`, `Arrives`, `CacheConsistent`, `AnswersOwn`, `NobodyHangs`,
  `ConfigurationsAgree`: messages are put together whole and handed over, the socket
  cache's index, list and size agree, the broker gives no address to two clients and
  a client takes the answer to its own request, once, a client whose request was sent
  goes on, and processes that read the same files choose the same server and protocol.
  `Arrives`: a message of a connection that TCP does not reset is handed over.
- `WireFormat`, `WholeObject`: what a generated class writes it reads back, with the
  size it announced; clear, copy and swap concern the whole object.

### Why the bounds are enough

Two schedulers with a common child is the least instance in which a `compare_swap`
fails, a task is pushed and data is fetched. Three children are the least fork in
which a migrated task can be stolen (the monitor leaves one, and a thief gets half
of two). Four ready tasks are the least bag whose half needs two packages.
`DataSizeThreshold` is 0, so that a task is stealable exactly when it has no input
data. `PollLimit` stands for the number of doublings that bring the poll interval to
`wsPollIntervalUb`. `stealing` and `packages` stop at a constraint (`OneRan`,
`NoneTaken`); what follows is not explored there, but their properties are proved
for it. Symmetries permute tasks with the same place in the DAG, the same output
and the same submission.

`startup` has a third scheduler so that a `compare_swap` can fail twice, and two
clients whose batches meet in one queue. In `store` three keys collide until the
table has grown; the third setup rewrites the file after every removal. In
`service` two threads share a socket and a third has its own; a lease is as long as
one or two polls. In `comm` blobs hold two units, so that messages of one, three and
four units are a short blob, a full and a short one, and two full ones; three small
entries fill the cache. The buffer of `Transport` holds 52 characters, less than the
longest batch and the longest output, so that `send_big` needs a second piece and reads
fill the buffer; one task and one output have a `$`. In the store's part of `progress` five
calls are enough for a removal that starts a rewrite while another one ends, with a
reader and a writer waiting.

### Disagreements between code and documentation

Three runs expect a violation:

- `bound`: `workstealing` leaves its loop for good once the poll interval has reached
  its bound (`matrix/src/scheduler_stub.cpp:573`); its comment says that the scheduler
  then "would do work stealing". Tasks that become ready later run where they
  become ready; nothing is lost.
- `refused`: the client waits until all schedulers have registered, but a scheduler
  opens its server after that. A client that comes first is refused and returns,
  and its tasks are never submitted (`matrix/src/client_stub.cpp:375`).
- `restart`: `readFile` puts each record it reads, which writes to the end of the same
  file; it stops after the first live record (`ZHT/src/novoht.cpp:476`).

The models reproduce others under different constants:

| what | where | property, and constants that violate it |
|---|---|---|
| `remove` marks the positions of the chain's first pair | `novoht.cpp:189` | `NoVoHT!RemovedIsMarked`, two keys in a chain, a file |
| a pair with a stray `diff` is not rewritten | `novoht.cpp:276` | `NoVoHT!WriteFileComplete`, setup `Rewritten` |
| what is written during a rewrite is lost: `.novoht.swp` is opened for writing only | `novoht.cpp:255`, `:300` | `NoVoHT!WriteFileComplete`, setup `Rewritten` |
| after `clear` the cache counts entries it does not have | `lru_cache.h:130` | `LRUCache!InsertStores` |
| `fetch_ptr` touches although told not to | `lru_cache.h:181` | `LRUCache!OrderedByUse`, `FALSE \in PtrTouch` |
| a restarted broker gives addresses again | `ipc_plus.cpp:125` | `MsgQueue!UniqueAddresses`, `MaxCrashes` 1 |
| `sendrecv` waits for the answer to a request that was not sent | `mq_proxy_stub.cpp:58` | `MsgQueue!UnsentCallsReturn`, any constants |
| answers to dead clients fill the reply queue | `mpi_broker.cpp:121` | `MsgQueue!NobodyHangs`, a small `QueueCap` |
| equal message ids of two processes | `ZHTUtil.cpp:107` | `BigMessage!DeliveredIntact`, `UniqueIds` FALSE |
| a part of a blob is parsed as a blob | `bigdata_transfer.cpp:322` | `BigMessage!DeliveredIntact`, `Fragment` TRUE |
| the poller reads a record that is being written | `HTWorker.cpp:295` | `ZHTService!CallbackTruthful`, calls `Removals` |
| `compare_swap` leaves `valnull` alone | `HTWorker.cpp:363` | `ZHTService!SwapSetsValue`, calls `Empties` |
| `append` writes a form that `lookup` does not read | `HTWorker.cpp:205` | `ZHTService!LookupReadsAppended`, calls `Appends` |
| a read that fills the buffer has no end | `matrix_tcp_proxy_stub.cpp:88` | `Transport!ReceivedAsSent` without `k < Buf` in `clean` |
| a `$` in a command ends the batch | `matrix_tcp_proxy_stub.cpp:142` | `Transport!ReceivedAsSent` without `clean'` of `RecvMul` |
| a request that arrives in parts | `matrix_epoll_server.cpp:270` | `Transport!ReceivedAsSent` without `clean'` of `Serve` |
| a refused push loses the task; a refused thief ends | `scheduler_stub.cpp:843`, `:476` | `Transport!ReceivedAsSent` with `clean` TRUE at first, `MayRefuse` TRUE |
| task 11 of client 1 and task 1 of client 11 are both 111 | `client_stub.cpp:79` | `Workload!IdsDistinct`, clients 1 and 11, `MaxTask` 12 |

### Fairness

- `Scheduler!FairSpec`: each thread that runs while `running` holds gets strong fairness
  as a whole. This stands for a fair thread scheduler and, since most steps need
  `sockMutex`, for a mutex that does not pass over a waiting thread for ever. The code
  relies on that: `checking_ready_task` locks and unlocks `sockMutex` in a loop without
  a pause, and nothing makes it give way. The holder of `sockMutex` finishes
  (`Release`) and the handlers answer (`ProcStep`) with weak fairness, because the only
  locks they wait for are held for a single action. The monitor is only assumed to
  queue what it has taken.
- `Startup`, `ZHTService`, `Transport`, `MsgQueue`, `BigMessage` (TCP): weak fairness for
  each process, thread or connection handler. Each is a loop or a thread of its own
  that goes on when it can. Crashes, deaths, losses and resets are never assumed,
  nor is the start of a new call. A thread of `ZHTService` that waits for the
  mutex of a socket waits for calls that are bounded by `maxCalls`.
- `StoreLocks`: weak fairness for every thread that has something to do. Who waits for a
  semaphore waits for calls that are bounded by `MaxCalls`; that a semaphore passes over
  nobody for ever is not assumed.
- `Workload`: weak fairness of `Next`, since tasks that are ready are executed.

## Proofs

The theorems are about `Spec` of the modules as TLC runs them and hold for every
value of the constants that the named assumptions allow (`SchedulersAssumption`,
`CoresAssumption`, `TasksAssumption`, `ConfigAssumption`, `StartupAssumption`,
`WorkloadAssumption`, `ServiceAssumption`, `NoVoHTAssumption`, `MsgQueueAssumption`,
`MembershipAssumption`, `LRUAssumption`). They give the constants their types, ask for finite sets of
schedulers, tasks and clients, and keep `None` and the names of cores apart from
other names; `MembershipAssumption` adds that `PROTOCOL,TCP` sorts before
`PROTOCOL,UDP`. TLC evaluates them in the runs.

What a fold or a loop over a sequence computes is shown without the library's
induction theorems, which the provers cannot instantiate: a set of natural numbers
has a least element (`LeastNumber`, from `WellFoundedInduction`), so the numbers up to
which a statement holds, as a set, are all of them (`Induction`). A fold is described
by the function of its intermediate results (`IsFold`), about which such a set is
formed.

### Schedulers

Each module extends the one before.

- `ConversationProofs`. `TypeCorrect` (`TypeOK`): the type of a thread's record depends on
  its `pc`, which makes it inductive as it stands; one lemma per thread.
  `ConversationCorrect` (`OneConversation`): inductive with `TypeOK`. The property is
  rewritten as a statement per scheduler (`Conversation`); most steps leave all of its
  parts alone (`Quiet`), and the steps that lock, unlock or answer are treated singly.
- `PlaceProofs!PlaceCorrect` (`OnePlace`): each step moves a set of tasks from one place
  to another (`Moves`) or moves none (`Still`). `OneConversation` is needed because
  opening a connection would overwrite tasks on it, unless a free `sockMutex` means
  that there are none. `MissElsewhere` says that a core never asks another scheduler
  for its own scheduler's data; otherwise caching an answer could make a task look
  executed.
- `PlaceProofs!DataCorrect` (`DataInPlace`): `DataKept` extends the property to requests,
  answers and notifications under way: whatever names data, it is kept where it was
  produced. No step removes data (`Keeps`), so only the steps that create a name
  matter.
- `IndegreeProofs!IndegreeCorrect` (`IndegreeExact`): the parents that are outstanding for
  a task are read off the queues and threads (`Left`). `StagesApart` says that a task
  that has run is at one stage only of the way from the core over the complete queue
  to the notification, so that a successful `compare_swap` removes exactly one
  (`SwapTakesOne`). `ReadyCorrect` (`ReadyIsFinal`) follows: with indegree 0 nobody is
  left to write.
- `IndegreeProofs!CounterCorrect` (`CounterExact`): `CounterInv` says per scheduler what it
  has finished, reported and is about to report. `SchedulersRefine`
  (`ExecutesTaskGraph`): `ReadyOut` says that a task outside the wait queues has indegree
  0, which with `IndegreeExact` means that its parents have run; `CounterExact` gives
  that who reads the full count may stop. Every step is a step of `TaskGraph` or
  stutters.

### Start and workload

- `StartupProofs!RegistrationCorrect` (`AllRegisteredFirst`): the counter is the number of
  schedulers past their swap (`RegistrationExact`), so its full value means all of them.
- `StartupProofs!QueuesCorrect` (`QueuesOK`): `QueueInv` follows a batch from the insertion
  of its metadata over its connection to the queue and the counter; the counter is
  exact (`CountExact`) although it is inserted by one process and swapped by many, and
  a full count means that all batches, which are disjoint, have been queued.
- `ClientProofs`: `WorkloadAcyclic` (`EdgesForward`), `WorkloadComplete`
  (`EveryTaskHasMetadata`) and `FanInCorrect` (`FanInMirrorsFanOut`) for every DAG type,
  argument and number of tasks, from arithmetic about the generators (`FanOutOnto`,
  `FanOutParentUnique`, `FanInShape`). `CountsCorrect` (`IndegreeCountsParents`) assumes
  `IdsDiffer`: task ids are different for different clients and tasks. They are for
  up to ten clients, and not for clients 1 and 11 with twelve tasks (see above).

### ZHT's operations

`ServiceProofs`, for any threads, processes, calls and crashes:

- `SuccessCorrect` (`SuccessIsApplied`) and `CallbackCorrect` (`CallbackUnlessRaced`): the
  inductive invariant `ServiceInv` says that a process has at most one item under way
  (a request, an answer, a queued or a polled callback), that the holder of the
  socket's mutex owns it (`Links`), and what the server has done for it by then.
- `CallsCorrect` (`CallsOK`) assumes `PlainCalls`: no call is an append, no compare_swap
  sets an empty value, and none expects an empty value (or the mark `^` that stands
  for one) unless no call stores such a value. For the excluded calls the statement
  is false, as `LookupReadsAppended` and `SwapSetsValue` show. The calls of MATRIX are
  plain: the one compare_swap that may expect an empty value is that on "num tasks
  recv" before the counter is inserted, and MATRIX (built without `ZHT_STORAGE`, as it
  is) stores no empty value. `MapInv` says that each record of the store stands for
  the map's value, and that answers under way are the map's; `Filled`, that the map
  holds no empty value where none is stored.

### The cache of sockets

In `ClientProofs`, for any keys, sizes and calls, about an instance `Cache` of
`LRUCache`:

- `CacheInBounds` (`IndexExact`, `SizeBound`): `CacheInv` adds to them that what
  `_curr_size` counts too much (`clear` does not reset it) is at most `_max_size`
  (`Sized`); otherwise the loop of `insert` could run out of entries. Sums of sizes
  over parts of lists are compared by `SumsAlike`: where two lists have the same
  entries, their sums grow alike.
- `CacheCorrect` (`CacheConsistent`) assumes `FetchIsUse`: `fetch_ptr` is called with
  `touch = true`, as everywhere in the code; otherwise the order is not that of the
  uses (see above). The history `recent` is a set of pairs of keys, the first of
  which was used after the second.

### The table and its file

`StoreProofs`, for any keys, values, hash function, setups, requests and restarts:

- `TableSound` (`TableOK`): `TableInv` says that the chains hold the stored keys, each
  once and in the bucket it hashes to (`InChains`). `put` adds to the front of a chain,
  `remove` takes out the first match (`RemoveFirst` of a chain without repetitions), and
  `resize` moves the keys one by one (`ResizedSteps`). `FileInv` is needed beside it: what
  the second half of a request has still to write is of a stored key, and the
  rewriting thread has a place in the table exactly while it runs. Together they are
  the inductive `StoreInv`.
- `MapSound` (`ActsAsMap`): from `StoreInv`, every step is one of `KVMap` or leaves what
  `get` returns alone; the rewriting thread, which changes pairs without the lock,
  changes only their positions.
- `GrowthSound` (`GrowsWhenFull`): `numEl`, which a resize resets, never exceeds the
  number of stored keys.
- `FileSound` (`FileExact`): `ExactInv` says that while nothing disturbs the file
  (`Undisturbed`) a key's positions are exactly its live records and its value is what
  they hold in the order of the file, with the half of a request that is not written
  yet added (`KeyExact`); and that until the first rewrite has ended there is nothing
  in the table. Two files that are alike for a key are read alike (`ReplayAlike`), so
  that a request for one key leaves the others' records as they are. A table without
  collisions has none when its size doubles (`Doubled`).

### Message queues and configuration

`CommProofs`:

- `RequestsOnce` (`OneAnswer`, any deaths and restarts): `QueueInv` says that a request is
  in at most one place (in the request queue, with the broker, in the reply queue, or
  answered) and that a client's earlier requests are in none. A request that was not
  sent is in no place, and its client may take another's answer, which is dropped
  (`TakeReplyOnce`).
- `AnswersFindAskers` (`AnswersOwn`) assumes `AddressesSuffice`: the broker is not
  restarted, and it has more addresses than processes may ask for. Otherwise the
  statement is false, as the table above says. `OwnInv` adds to `QueueInv` how
  many addresses the broker has given or owes (`Counted`), that those given are
  below `nextClient` and differ (`Given`), and that every request and answer under way
  bears the address of its client or of one that died (`Addressed`). Nothing comes for a
  client whose request was not sent (`NothingUnsent`).
- `ConfigurationsMatch` (`ConfigurationsAgree`): `ConfInv` says that a process that has
  been initialised has its servers in the order of the map, whatever the order in the
  file, and its protocol from the searches of the code; `SameProtocol` shows that the
  searches of client, server and stub end at the same entry.

### Only model-checked

- Liveness (`AllStop`, `SockReleased`, `LocksReleased`, `AllStart`, `EveryCallReturns`,
  `Arrives`, `NobodyHangs`, `ConversationEnds`, `EveryTaskRuns`): the prover has neither
  fairness nor `ENABLED`.
- `BlobsDelivered` (sorting and joining of blobs from a bag of datagrams), `ReceivedAsSent`,
  `ReadsWhatItStored`, `WireFormat` and `WholeObject` (texts and fields): they rest on what
  recursive operators on texts and tables compute, which needs induction over data.

## Not modelled

- Configuration files of MATRIX (`config.cpp`), `get_ip`, `exec`, time and file helpers of
  `util.cpp`: plain reading of values, which are constants of the models.
  `gen_dag_parents`, `get_task_from_file`, `AckQueue`: not used by the programs.
- The client's monitoring, the status record of `recording_stat`, logs and message
  statistics: they are written and never read by the parts modelled.
- NoVoHT's iterators, the C client's wrappers, benchmarks and tests.
- Constructors, destructors and descriptor registration of the generated classes.
- MPI itself, and the creation of sockets in detail; the locking of `TSafeQueue`, each
  of whose operations is one critical section.
- In `NoVoHT` the lengths of keys and values, empty keys, which the server rejects, a pair
  that is freed under the walk of the rewriting thread, the rewrites of `INSTANT_SWAP`
  (their locking is in `StoreLocks`), and a thread or file that cannot be created. The
  removal of the message queues by the broker's signal handler. In `Workload` a `DagArgument` of 0, by which the generators
  divide. In `ZHTService` an unknown opcode, which gets no answer.
