---------------------------- MODULE ServiceProofs ----------------------------
(***************************************************************************)
(* Proofs about ZHTService, for any number of processes, threads, keys and *)
(* calls, and for any crashes of the server.                               *)
(*                                                                         *)
(* The argument is about the way of one request.  sendrecv holds the mutex *)
(* of the socket from the request to the answer, so that each process has  *)
(* at most one item under way: its request, a callback in PQUEUE, the      *)
(* callback the poller works on, or the answer.  The item belongs to the   *)
(* thread that holds the mutex, and that thread waits for it.              *)
(***************************************************************************)
EXTENDS ZHTService, TLAPS

-----------------------------------------------------------------------------
(* The inductive invariant. *)

(* The requests of the calls, as they are sent. *)
Requests == UNION {x.requests : x \in Scenarios}
Packs    == {ZPack(t, r) : t \in Threads, r \in Requests}
Entries  == [c : Clients, p : Packs]

(* A thread between its call and its return. *)
Active(t) == pc[t] \in {"sock", "lock", "send", "recv"}

(* What the variables are. *)
Shapes ==
    /\ up \in BOOLEAN
    /\ sock \in [Clients -> {"none", "ok", "closed", "reset"}]
    /\ pc \in [Threads -> {"idle", "sock", "lock", "send", "recv", "killed"}]
    /\ holder \in [Clients -> Threads \cup {None}]
    /\ DOMAIN table = Keys /\ DOMAIN abs = Keys
    /\ DOMAIN out = Clients /\ DOMAIN in = Clients
    /\ DOMAIN pack = Threads /\ DOMAIN got = Threads /\ DOMAIN want = Threads
    /\ seen \in [Threads -> [equal : BOOLEAN, raced : BOOLEAN, applied : Nat]]
    /\ scenario \in Scenarios
    /\ queue \in Seq(Entries)

(* The poller rests, or works on a callback. *)
PollerShape ==
    \/ poller = Resting
    \/ /\ poller = [at |-> poller.at, arg |-> poller.arg,
                    lapsed |-> poller.lapsed, torn |-> poller.torn]
       /\ poller.at \in {"get", "read", ZSC_REC_SCCBPOLLTRY, ZSC_REC_NONEXISTKEY}
       /\ poller.torn \in BOOLEAN
       /\ poller.arg \in Entries

(* The mutex of a socket belongs to the thread that sends or receives on   *)
(* it; a thread that the signal ended keeps it.                            *)
Mutex ==
    /\ \A t \in Threads : pc[t] \in {"send", "recv"} => holder[ProcOf[t]] = t
    /\ \A c \in Clients : holder[c] # None =>
          ProcOf[holder[c]] = c /\ pc[holder[c]] \in {"send", "recv", "killed"}

(* A thread in a call has sent, or will send, the request of this call,    *)
(* has no answer yet, has a socket once it wants the mutex, and nothing is *)
(* applied before it sends.                                                *)
Calling ==
    \A t \in Threads :
        /\ Active(t) => /\ pack[t] = [r |-> pack[t].r, p |-> ZPack(t, pack[t].r)]
                        /\ pack[t].r \in scenario.requests /\ pack[t].r.key \in Keys
                        /\ got[t] = None
        /\ pc[t] \in {"sock", "lock", "send"} => seen[t].applied = 0
        /\ pc[t] \in {"lock", "send", "recv"} => sock[ProcOf[t]] # "none"

(* The callbacks of a process in a queue. *)
InQueue(q, c)    == \E i \in DOMAIN q : q[i].c = c
Once(q, c)       == \A i, j \in DOMAIN q : q[i].c = c /\ q[j].c = c => i = j
Carries(q, c, e) == \A i \in DOMAIN q : q[i].c = c => q[i] = e

(* Where the item of a process is. *)
Asked(c)   == out[c] # <<>>
Replied(c) == in[c] # <<>>
Queued(c)  == InQueue(queue, c)
Polled(c)  == poller.at # "rest" /\ poller.arg.c = c
Pending(c) == Asked(c) \/ Replied(c) \/ Queued(c) \/ Polled(c)

OneItem(c) ==
    /\ Asked(c) => ~Replied(c) /\ ~Queued(c) /\ ~Polled(c)
    /\ Replied(c) => ~Queued(c) /\ ~Polled(c)
    /\ Queued(c) => ~Polled(c)
    /\ Once(queue, c)

(* The key a thread waits for has the value it waits for. *)
HasValue(tab, t) ==
    /\ tab[pack[t].p.key] # Missing
    /\ StrToZPack(tab[pack[t].p.key]).val = pack[t].p.val

(* An answer that tells a thread of a success is right to do so. *)
Fine(t, a) ==
    a.rc = ZSC_REC_SUCC => IF pack[t].r.op # "callback" THEN seen[t].applied = 1
                                                 ELSE seen[t].equal \/ seen[t].raced

(* The item of process c is the one that thread t waits for.  When a       *)
(* callback waits for a value that the key has, it has been noted; when a  *)
(* write hit the record the poller has found, the race has been noted.     *)
ItemOK(c, t) ==
    /\ Asked(c) => out[c] = <<pack[t]>> /\ seen[t].applied = 0
    /\ Queued(c) => Carries(queue, c, [c |-> c, p |-> pack[t].p])
    /\ Polled(c) =>
         /\ poller.arg = [c |-> c, p |-> pack[t].p]
         /\ poller.torn => seen[t].raced
         /\ poller.at = "read" /\ ~poller.torn => table[pack[t].p.key] # Missing
    /\ Queued(c) \/ Polled(c) =>
         /\ pack[t].r.op = "callback"
         /\ HasValue(table, t) => seen[t].equal
    /\ Replied(c) => in[c] = <<in[c][1]>> /\ Fine(t, in[c][1])

Link(c) ==
    /\ OneItem(c)
    /\ Pending(c) => /\ holder[c] # None /\ pc[holder[c]] = "recv"
                     /\ ItemOK(c, holder[c])
    /\ sock[c] # "ok" => ~Asked(c) /\ ~Queued(c) /\ ~Polled(c)

Links == \A c \in Clients : Link(c)

(* What a thread was told last. *)
Told(t) ==
    /\ seen[t].applied <= 1
    /\ got[t] # None => IF got[t].answered THEN Fine(t, got[t].answer)
                                           ELSE got[t].answer.rc # ZSC_REC_SUCC

Tolds == \A t \in Threads : Told(t)

ServiceInv == Shapes /\ PollerShape /\ Mutex /\ Calling /\ Links /\ Tolds

-----------------------------------------------------------------------------
(* Sequences of one element. *)
LEMMA Single ==
    ASSUME NEW x
    PROVE  /\ Append(<<>>, x) = <<x>> /\ Head(<<x>>) = x /\ Tail(<<x>>) = <<>>
           /\ <<x>> # <<>> /\ <<x>>[1] = x /\ Len(<<x>>) = 1
  OBVIOUS

(* A callback that is added to a queue. *)
LEMMA QueueAppend ==
    ASSUME NEW q \in Seq(Entries), NEW e \in Entries, NEW c, NEW x
    PROVE  /\ Append(q, e) \in Seq(Entries)
           /\ InQueue(Append(q, e), c) <=> InQueue(q, c) \/ e.c = c
           /\ Once(q, c) /\ ~(InQueue(q, c) /\ e.c = c) => Once(Append(q, e), c)
           /\ Carries(q, c, x) /\ (e.c = c => e = x) => Carries(Append(q, e), c, x)
  <1> DEFINE a == Append(q, e)
  <1>1. a \in Seq(Entries)
    OBVIOUS
  <1>2. \A i \in DOMAIN q : i \in DOMAIN a /\ a[i] = q[i]
    OBVIOUS
  <1>3. \A i \in DOMAIN a : \/ i \in DOMAIN q /\ a[i] = q[i]
                            \/ i = Len(q) + 1 /\ a[i] = e
    OBVIOUS
  <1>4. Len(q) + 1 \in DOMAIN a /\ a[Len(q) + 1] = e
    OBVIOUS
  <1> HIDE DEF a
  <1>5. InQueue(a, c) <=> InQueue(q, c) \/ e.c = c
    BY <1>2, <1>3, <1>4 DEF InQueue
  <1>6. Once(q, c) /\ ~(InQueue(q, c) /\ e.c = c) => Once(a, c)
    BY <1>3 DEF Once, InQueue
  <1>7. Carries(q, c, x) /\ (e.c = c => e = x) => Carries(a, c, x)
    BY <1>3 DEF Carries
  <1> QED
    BY <1>1, <1>5, <1>6, <1>7 DEF a

(* A queue whose first callback is taken. *)
LEMMA QueueTail ==
    ASSUME NEW q \in Seq(Entries), q # <<>>, NEW c, NEW x
    PROVE  /\ Tail(q) \in Seq(Entries) /\ Head(q) \in Entries
           /\ InQueue(q, Head(q).c)
           /\ InQueue(q, c) <=> InQueue(Tail(q), c) \/ Head(q).c = c
           /\ Once(q, c) => Once(Tail(q), c)
           /\ Once(q, Head(q).c) => ~InQueue(Tail(q), Head(q).c)
           /\ Carries(q, c, x) => Carries(Tail(q), c, x) /\ (Head(q).c = c => Head(q) = x)
  <1> DEFINE a == Tail(q)
             h == Head(q)
  <1>1. a \in Seq(Entries) /\ h \in Entries
    OBVIOUS
  <1>2. 1 \in DOMAIN q /\ h = q[1]
    OBVIOUS
  <1>3. \A i \in DOMAIN a : i \in Nat /\ i + 1 \in DOMAIN q /\ i + 1 # 1 /\ a[i] = q[i + 1]
    OBVIOUS
  <1>4. \A i \in DOMAIN q : i = 1 \/ (i - 1 \in DOMAIN a /\ a[i - 1] = q[i])
    OBVIOUS
  <1> HIDE DEF a, h
  <1>5. InQueue(q, h.c)
    BY <1>2 DEF InQueue
  <1>6. InQueue(q, c) <=> InQueue(a, c) \/ h.c = c
    BY <1>2, <1>3, <1>4 DEF InQueue
  <1>7. Once(q, c) => Once(a, c)
    <2> SUFFICES ASSUME Once(q, c), NEW i \in DOMAIN a, NEW j \in DOMAIN a,
                        a[i].c = c, a[j].c = c
                 PROVE  i = j
      BY DEF Once
    <2>1. i + 1 = j + 1
      BY <1>3 DEF Once
    <2>2. i \in Nat /\ j \in Nat
      BY <1>3
    <2> QED
      BY <2>1, <2>2
  <1>8. Once(q, h.c) => ~InQueue(a, h.c)
    <2> SUFFICES ASSUME Once(q, h.c), NEW i \in DOMAIN a, a[i].c = h.c
                 PROVE  FALSE
      BY DEF InQueue
    <2> QED
      BY <1>2, <1>3 DEF Once
  <1>9. Carries(q, c, x) => Carries(a, c, x) /\ (h.c = c => h = x)
    BY <1>2, <1>3 DEF Carries
  <1> QED
    BY <1>1, <1>5, <1>6, <1>7, <1>8, <1>9 DEF a, h

-----------------------------------------------------------------------------
(* What a request carries. *)
LEMMA ZPackFields ==
    ASSUME NEW t, NEW r
    PROVE  /\ ZPack(t, r).by = t /\ ZPack(t, r).op = r.op /\ ZPack(t, r).key = r.key
  BY DEF ZPack

(* What a call returns. *)
LEMMA ReturnFields ==
    ASSUME NEW g, NEW a, NEW b, g = [answer |-> a, answered |-> b]
    PROVE  g.answer = a /\ g.answered = b
  OBVIOUS

(* What an answer carries. *)
LEMMA AnswerFields ==
    ASSUME NEW rc, NEW v
    PROVE  Answer(rc, v).rc = rc /\ Answer(rc, v).val = v
  BY DEF Answer

(* The value of an answer. *)
LEMMA AnswerVal ==
    ASSUME NEW a, NEW rc, NEW v, a = Answer(rc, v)
    PROVE  a.val = v
  BY DEF Answer

(* The codes differ, also from the other states of the poller. *)
LEMMA Codes ==
    /\ ZSC_REC_SUCC \notin {ZSC_REC_EMPTYKEY, ZSC_REC_SRVEXP, ZSC_REC_SCCBPOLLTRY,
                            ZSC_REC_NONEXISTKEY}
    /\ {"rest", "get", "read"} \cap {ZSC_REC_SCCBPOLLTRY, ZSC_REC_NONEXISTKEY} = {}
  <1>1. ZSC_REC_SUCC \notin {ZSC_REC_EMPTYKEY, ZSC_REC_SRVEXP, ZSC_REC_SCCBPOLLTRY,
                             ZSC_REC_NONEXISTKEY}
    BY Zenon DEF ZSC_REC_SUCC, ZSC_REC_EMPTYKEY, ZSC_REC_SRVEXP, ZSC_REC_SCCBPOLLTRY,
                 ZSC_REC_NONEXISTKEY
  <1>2. ASSUME NEW x \in {"rest", "get", "read"}
        PROVE  x # ZSC_REC_SCCBPOLLTRY /\ x # ZSC_REC_NONEXISTKEY
    BY <1>2, Zenon DEF ZSC_REC_SCCBPOLLTRY, ZSC_REC_NONEXISTKEY
  <1> QED
    BY <1>1, <1>2

(* The request of a thread in a call names the thread and its operation.   *)
LEMMA PackFacts ==
    ASSUME ServiceInv, NEW t \in Threads, Active(t)
    PROVE  /\ pack[t].p.by = t /\ pack[t].p.op = pack[t].r.op
           /\ pack[t].p.key = pack[t].r.key /\ pack[t].p.key \in Keys
           /\ pack[t].p \in Packs
           /\ got[t] = None
  <1>1. /\ pack[t] = [r |-> pack[t].r, p |-> ZPack(t, pack[t].r)]
        /\ pack[t].r \in scenario.requests /\ pack[t].r.key \in Keys /\ got[t] = None
    BY DEF ServiceInv, Calling
  <1>2. pack[t].p = ZPack(t, pack[t].r)
    BY <1>1
  <1>3. pack[t].r \in Requests
    BY <1>1 DEF ServiceInv, Shapes, Requests
  <1>4. /\ pack[t].p.by = t /\ pack[t].p.op = pack[t].r.op
        /\ pack[t].p.key = pack[t].r.key
    <2>1. PICK k : k = pack[t].r
      OBVIOUS
    <2>2. PICK z : z = ZPack(t, k)
      OBVIOUS
    <2>3. z.by = t /\ z.op = k.op /\ z.key = k.key
      BY <2>2, ZPackFields
    <2>4. pack[t].p = z
      BY <1>2, <2>1, <2>2
    <2> QED
      BY <2>1, <2>3, <2>4
  <1>5. pack[t].p \in Packs
    BY <1>2, <1>3 DEF Packs
  <1> QED
    BY <1>1, <1>4, <1>5

(* A ZPack carries its caller and its operation. *)
LEMMA PackOwn ==
    ASSUME ServiceInv, NEW t \in Threads, Active(t)
    PROVE  pack[t].p.by = t /\ pack[t].p.op = pack[t].r.op
  BY PackFacts

(* A ZPack is one that some call makes. *)
LEMMA PackMade ==
    ASSUME ServiceInv, NEW t \in Threads, Active(t)
    PROVE  pack[t].p \in Packs
  BY PackFacts

(* A caller is told nothing before its call returns. *)
LEMMA PackUntold ==
    ASSUME ServiceInv, NEW t \in Threads, Active(t)
    PROVE  got[t] = None
  BY PackFacts

(* The mutex has one holder: who waits for the item of a process is a      *)
(* thread of that process.                                                 *)
LEMMA HolderFacts ==
    ASSUME ServiceInv, NEW c \in Clients, holder[c] # None
    PROVE  /\ holder[c] \in Threads /\ ProcOf[holder[c]] = c
           /\ pc[holder[c]] \in {"send", "recv", "killed"}
  BY DEF ServiceInv, Shapes, Mutex

(* A thread that does not receive holds up no item of its process.         *)
LEMMA NotPending ==
    ASSUME ServiceInv, NEW t \in Threads, pc[t] = "send"
    PROVE  /\ holder[ProcOf[t]] = t /\ ProcOf[t] \in Clients
           /\ ~Pending(ProcOf[t])
  <1>1. ProcOf[t] \in Clients /\ holder[ProcOf[t]] = t
    BY ServiceAssumption DEF ServiceInv, Mutex
  <1>2. Link(ProcOf[t])
    BY <1>1 DEF ServiceInv, Links
  <1> QED
    BY <1>1, <1>2 DEF Link

(* A step that leaves alone the item of a process, the thread that waits   *)
(* for it, and the table.                                                  *)
LEMMA LinkStill ==
    ASSUME NEW c \in Clients, Link(c),
           out'[c] = out[c], in'[c] = in[c],
           queue' = queue, table' = table,
           poller' = poller,
           sock'[c] # "ok" => sock[c] # "ok",
           Pending(c) => /\ holder'[c] = holder[c]
                         /\ pc'[holder[c]] = "recv"
                         /\ pack'[holder[c]] = pack[holder[c]]
                         /\ seen'[holder[c]] = seen[holder[c]]
    PROVE  Link(c)'
  <1>1. /\ Asked(c)' <=> Asked(c)
        /\ Replied(c)' <=> Replied(c)
        /\ Queued(c)' <=> Queued(c)
        /\ Polled(c)' <=> Polled(c)
        /\ Once(queue, c)' <=> Once(queue, c)
    BY DEF Asked, Replied, Queued, Polled
  <1>2. OneItem(c)'
    BY <1>1 DEF Link, OneItem
  <1>3. sock'[c] # "ok" => ~Asked(c)' /\ ~Queued(c)' /\ ~Polled(c)'
    BY <1>1 DEF Link
  <1>4. ASSUME Pending(c)'
        PROVE  holder'[c] # None /\ pc'[holder'[c]] = "recv" /\ ItemOK(c, holder[c])'
    <2>1. Pending(c)
      BY <1>1, <1>4 DEF Pending
    <2>2. PICK h : h = holder[c]
      OBVIOUS
    <2>3. h # None /\ pc[h] = "recv" /\ ItemOK(c, h)
      BY <2>1, <2>2 DEF Link
    <2>4. holder'[c] = h /\ pc'[h] = "recv" /\ pack'[h] = pack[h] /\ seen'[h] = seen[h]
      BY <2>1, <2>2
    <2>5. (HasValue(table, h))' <=> HasValue(table, h)
      BY <2>4 DEF HasValue
    <2>6. \A a : Fine(h, a)' <=> Fine(h, a)
      BY <2>4 DEF Fine
    <2>7. ItemOK(c, h)'
      BY <1>1, <2>3, <2>4, <2>5, <2>6 DEF ItemOK
    <2>8. ItemOK(c, holder[c])' <=> ItemOK(c, h)'
      BY <2>4
    <2> QED
      BY <2>3, <2>4, <2>7, <2>8
  <1> QED
    BY <1>2, <1>3, <1>4 DEF Link

(* A process without an item. *)
LEMMA LinkNone ==
    ASSUME NEW c \in Clients, ~Pending(c)', Once(queue, c)'
    PROVE  Link(c)'
  BY DEF Link, Pending, OneItem

(* What a thread was told does not change. *)
LEMMA ToldStill ==
    ASSUME NEW t \in Threads, Told(t), got'[t] = got[t],
           pack'[t] = pack[t], seen'[t] = seen[t]
    PROVE  Told(t)'
  BY DEF Told, Fine

(* No call is under way at first. *)
LEMMA ServiceInit == Init => ServiceInv
  <1> SUFFICES ASSUME Init PROVE ServiceInv
    OBVIOUS
  <1>1. Shapes
    <2>1. \A t \in Threads : seen[t] \in [equal : BOOLEAN, raced : BOOLEAN, applied : Nat]
      BY DEF Init
    <2> QED
      BY <2>1 DEF Init, Shapes
  <1>2. PollerShape
    BY DEF Init, PollerShape
  <1>3. Mutex
    BY DEF Init, Mutex
  <1>4. Calling
    BY DEF Init, Calling, Active
  <1>5. Links
    <2> SUFFICES ASSUME NEW c \in Clients PROVE Link(c)
      BY DEF Links
    <2>1. queue = <<>> /\ DOMAIN queue = {}
      BY DEF Init
    <2>2. ~Asked(c) /\ ~Replied(c) /\ ~Polled(c)
      BY DEF Init, Asked, Replied, Polled, Resting
    <2> QED
      BY <2>1, <2>2 DEF Link, OneItem, Pending, Queued, InQueue, Once
  <1>6. Tolds
    BY DEF Init, Tolds, Told
  <1> QED
    BY <1>1, <1>2, <1>3, <1>4, <1>5, <1>6 DEF ServiceInv

(* ZHTClient's calls. *)
LEMMA ServiceCall ==
    ASSUME ServiceInv, NEW t \in Threads, NEW r \in scenario.requests, Call(t, r)
    PROVE  ServiceInv'
  <1>1. pc[t] = "idle"
    BY DEF Call
  <1>2. \A c \in Clients : holder[c] # t
    BY <1>1, ServiceAssumption DEF ServiceInv, Mutex
  <1>3. /\ UNCHANGED <<server, net, crashes, scenario, abs>>
        /\ holder' = holder
    BY <1>2, ServiceAssumption DEF Call, Return, Free
  <1>4. /\ pc' \in {[pc EXCEPT ![t] = "idle"], [pc EXCEPT ![t] = "sock"]}
        /\ pack' = [pack EXCEPT ![t] = [r |-> r, p |-> ZPack(t, r)]]
        /\ want' = [want EXCEPT ![t] = None]
        /\ seen' = [seen EXCEPT ![t] = [equal |-> FALSE, raced |-> FALSE, applied |-> 0]]
    BY DEF Call, Return
  <1>5. \/ /\ r.key \in Keys /\ pc' = [pc EXCEPT ![t] = "sock"]
           /\ got' = [got EXCEPT ![t] = None]
        \/ /\ pc' = [pc EXCEPT ![t] = "idle"]
           /\ got' = [got EXCEPT ![t] = [answer |-> Answer(ZSC_REC_EMPTYKEY, Empty), answered |-> FALSE]]
    BY ServiceAssumption DEF Call, Return, ServiceInv, Shapes
  <1>6. \A u \in Threads : u # t =>
            pc'[u] = pc[u] /\ pack'[u] = pack[u] /\ got'[u] = got[u] /\ seen'[u] = seen[u]
    BY <1>4, <1>5 DEF ServiceInv, Shapes
  <1>7. Shapes'
    BY <1>3, <1>4, <1>5, Zenon DEF ServiceInv, Shapes, server, net
  <1>8. PollerShape'
    BY <1>3 DEF ServiceInv, PollerShape, server
  <1>9. Mutex'
    <2>1. pc'[t] \in {"idle", "sock"}
      BY <1>4 DEF ServiceInv, Shapes
    <2> QED
      BY <1>1, <1>2, <1>3, <1>6, <2>1 DEF ServiceInv, Shapes, Mutex
  <1>10. Calling'
    <2> SUFFICES ASSUME NEW u \in Threads
                 PROVE  /\ Active(u)' =>
                             /\ pack'[u] = [r |-> pack'[u].r, p |-> ZPack(u, pack'[u].r)]
                             /\ pack'[u].r \in scenario'.requests /\ pack'[u].r.key \in Keys
                             /\ got'[u] = None
                        /\ pc'[u] \in {"sock", "lock", "send"} => seen'[u].applied = 0
                        /\ pc'[u] \in {"lock", "send", "recv"} => sock'[ProcOf[u]] # "none"
      BY DEF Calling
    <2>1. CASE u = t
      <3>1. pack'[t] = [r |-> r, p |-> ZPack(t, r)] /\ seen'[t].applied = 0
        BY <1>4 DEF ServiceInv, Shapes
      <3>2. (pc'[t] = "sock" /\ r.key \in Keys /\ got'[t] = None) \/ pc'[t] = "idle"
        BY <1>5 DEF ServiceInv, Shapes
      <3> QED
        BY <1>3, <2>1, <3>1, <3>2 DEF Active
    <2>2. CASE u # t
      BY <1>3, <1>6, <2>2 DEF ServiceInv, Calling, Active, net
    <2> QED
      BY <2>1, <2>2
  <1>11. Links'
    <2> SUFFICES ASSUME NEW c \in Clients PROVE Link(c)'
      BY DEF Links
    <2>1. Link(c)
      BY DEF ServiceInv, Links
    <2>2. Pending(c) => holder[c] \in Threads /\ holder[c] # t /\ pc[holder[c]] = "recv"
      BY <2>1, <1>2, HolderFacts DEF Link
    <2> QED
      BY <1>3, <1>6, <2>1, <2>2, LinkStill DEF server, net
  <1>12. Tolds'
    <2> SUFFICES ASSUME NEW u \in Threads PROVE Told(u)'
      BY DEF Tolds
    <2>1. CASE u = t
      <3>1. seen'[t].applied = 0
        BY <1>4 DEF ServiceInv, Shapes
      <3>2. got'[t] = None \/ got'[t] = [answer |-> Answer(ZSC_REC_EMPTYKEY, Empty), answered |-> FALSE]
        BY <1>5, Zenon DEF ServiceInv, Shapes
      <3>3. got'[t] # None => ~got'[t].answered /\ got'[t].answer.rc # ZSC_REC_SUCC
        <4>1. PICK a : a = Answer(ZSC_REC_EMPTYKEY, Empty)
          OBVIOUS
        <4>2. a.rc # ZSC_REC_SUCC
          BY <4>1, AnswerFields, Codes
        <4>3. PICK g : g = got'[t]
          OBVIOUS
        <4>4. ASSUME g # None PROVE g.answer = a /\ g.answered = FALSE
          BY <3>2, <4>1, <4>3, <4>4, ReturnFields
        <4> QED
          BY <4>2, <4>3, <4>4, Zenon
      <3> QED
        BY <2>1, <3>1, <3>3 DEF Told
    <2>2. CASE u # t
      BY <1>6, <2>2, ToldStill DEF ServiceInv, Tolds
    <2> QED
      BY <2>1, <2>2
  <1> QED
    BY <1>7, <1>8, <1>9, <1>10, <1>11, <1>12 DEF ServiceInv

(* A thread that was told nothing yet, and then of no success. *)
LEMMA ToldFailure ==
    ASSUME NEW t \in Threads, NEW rc \in {ZSC_REC_EMPTYKEY, ZSC_REC_SRVEXP},
           seen'[t].applied <= 1,
           got'[t] = [answer |-> Answer(rc, Empty), answered |-> FALSE]
    PROVE  Told(t)'
  <1>1. PICK a : a = Answer(rc, Empty)
    OBVIOUS
  <1>2. a.rc # ZSC_REC_SUCC
    BY <1>1, AnswerFields, Codes
  <1>3. PICK g : g = got'[t]
    OBVIOUS
  <1>4. g.answer = a /\ g.answered = FALSE
    BY <1>1, <1>3, ReturnFields
  <1> QED
    BY <1>2, <1>3, <1>4 DEF Told

(* getSockCached. *)
LEMMA ServiceGetSock ==
    ASSUME ServiceInv, NEW t \in Threads, GetSockCached(t)
    PROVE  ServiceInv'
  <1>1. pc[t] = "sock" /\ Active(t) /\ ProcOf[t] \in Clients
    BY ServiceAssumption DEF GetSockCached, Active
  <1>2. \A c \in Clients : holder[c] # t
    BY <1>1, ServiceAssumption DEF ServiceInv, Mutex
  <1>3. /\ UNCHANGED <<server, out, in, pack, calls, crashes, scenario, history>>
        /\ holder' = holder
    BY <1>1, <1>2 DEF GetSockCached, Return, Free
  <1>4. \/ /\ pc' = [pc EXCEPT ![t] = "idle"] /\ sock' = sock
           /\ got' = [got EXCEPT ![t] = [answer |-> Answer(ZSC_REC_SRVEXP, Empty), answered |-> FALSE]]
        \/ /\ pc' = [pc EXCEPT ![t] = "lock"] /\ got' = got
           /\ sock' = [sock EXCEPT ![ProcOf[t]] = IF @ = "none" THEN "ok" ELSE @]
    BY DEF GetSockCached, Return
  <1>5. pc'[t] \in {"idle", "lock"}
    BY <1>4 DEF ServiceInv, Shapes
  <1>6. \A u \in Threads : u # t => pc'[u] = pc[u] /\ got'[u] = got[u]
    BY <1>4 DEF ServiceInv, Shapes
  <1>7. Shapes'
    <2>1. sock' \in [Clients -> {"none", "ok", "closed", "reset"}]
      <3>1. sock \in [Clients -> {"none", "ok", "closed", "reset"}]
        BY DEF ServiceInv, Shapes
      <3>2. \/ sock' = sock
            \/ sock' = [sock EXCEPT ![ProcOf[t]] = IF @ = "none" THEN "ok" ELSE @]
        BY <1>4
      <3> QED
        BY <3>1, <3>2
    <2>2. /\ pc' \in [Threads -> {"idle", "sock", "lock", "send", "recv", "killed"}]
          /\ DOMAIN got' = Threads
      BY <1>4, Zenon DEF ServiceInv, Shapes
    <2> QED
      BY <1>3, <2>1, <2>2 DEF ServiceInv, Shapes, server, history
  <1>8. PollerShape'
    BY <1>3 DEF ServiceInv, PollerShape, server
  <1>9. Mutex'
    BY <1>1, <1>2, <1>3, <1>5, <1>6 DEF ServiceInv, Shapes, Mutex
  <1>10. Calling'
    <2>1. pc'[t] = "lock" => got'[t] = got[t] /\ sock'[ProcOf[t]] # "none"
      BY <1>1, <1>4 DEF ServiceInv, Shapes
    <2>2. \A c \in Clients : sock[c] # "none" => sock'[c] # "none"
      BY <1>4, Zenon DEF ServiceInv, Shapes
    <2> QED
      BY <1>1, <1>3, <1>5, <1>6, <2>1, <2>2, ServiceAssumption DEF ServiceInv, Calling, Active, history
  <1>11. Links'
    <2> SUFFICES ASSUME NEW c \in Clients PROVE Link(c)'
      BY DEF Links
    <2>1. Link(c)
      BY DEF ServiceInv, Links
    <2>2. Pending(c) => holder[c] \in Threads /\ holder[c] # t /\ pc[holder[c]] = "recv"
      BY <2>1, <1>2, HolderFacts DEF Link
    <2>3. sock'[c] # "ok" => sock[c] # "ok"
      BY <1>4 DEF ServiceInv, Shapes
    <2> QED
      BY <1>3, <1>6, <2>1, <2>2, <2>3, LinkStill DEF server, history
  <1>12. Tolds'
    <2> SUFFICES ASSUME NEW u \in Threads PROVE Told(u)'
      BY DEF Tolds
    <2>1. Told(u) /\ pack'[u] = pack[u] /\ seen'[u] = seen[u]
      BY <1>3 DEF ServiceInv, Tolds, history
    <2>2. CASE got'[u] = got[u]
      BY <2>1, <2>2, ToldStill
    <2>3. CASE got'[u] # got[u]
      <3>1. u = t
        BY <1>6, <2>3
      <3>2. got'[u] = [answer |-> Answer(ZSC_REC_SRVEXP, Empty), answered |-> FALSE]
        BY <1>4, <2>3, <3>1, Zenon DEF ServiceInv, Shapes
      <3>3. seen'[u].applied <= 1
        BY <2>1 DEF Told
      <3> QED
        BY <3>2, <3>3, ToldFailure, Zenon
    <2> QED
      BY <2>2, <2>3
  <1> QED
    BY <1>7, <1>8, <1>9, <1>10, <1>11, <1>12 DEF ServiceInv

(* sendrecv locks the mutex of the socket, when nobody has it. *)
LEMMA ServiceLock ==
    ASSUME ServiceInv, NEW t \in Threads, Lock(t)
    PROVE  ServiceInv'
  <1>1. pc[t] = "lock" /\ ProcOf[t] \in Clients /\ holder[ProcOf[t]] = None
    BY ServiceAssumption DEF Lock
  <1>2. /\ UNCHANGED <<server, net, pack, got, calls, crashes, scenario, history>>
        /\ pc' = [pc EXCEPT ![t] = "send"] /\ holder' = [holder EXCEPT ![ProcOf[t]] = t]
    BY DEF Lock
  <1>3. /\ pc'[t] = "send" /\ holder'[ProcOf[t]] = t
        /\ \A u \in Threads : u # t => pc'[u] = pc[u]
        /\ \A c \in Clients : c # ProcOf[t] => holder'[c] = holder[c]
    BY <1>1, <1>2 DEF ServiceInv, Shapes
  <1>4. \A u \in Threads : u # t /\ ProcOf[u] = ProcOf[t] => pc[u] \notin {"send", "recv"}
    <2>1. None \notin Threads
      BY ServiceAssumption, Zenon
    <2> QED
      BY <1>1, <2>1 DEF ServiceInv, Mutex
  <1>5. Shapes'
    BY <1>1, <1>2 DEF ServiceInv, Shapes, server, net, history
  <1>6. PollerShape'
    BY <1>2 DEF ServiceInv, PollerShape, server
  <1>7. Mutex'
    <2>1. ASSUME NEW u \in Threads, pc'[u] \in {"send", "recv"}
          PROVE  holder'[ProcOf[u]] = u
      <3>1. CASE u = t
        BY <1>3, <3>1
      <3>2. CASE u # t
        <4>1. pc[u] \in {"send", "recv"} /\ ProcOf[u] # ProcOf[t] /\ ProcOf[u] \in Clients
          BY <1>3, <1>4, <2>1, <3>2, ServiceAssumption
        <4> QED
          BY <1>3, <4>1 DEF ServiceInv, Mutex
      <3> QED
        BY <3>1, <3>2
    <2>2. ASSUME NEW c \in Clients, holder'[c] # None
          PROVE  ProcOf[holder'[c]] = c /\ pc'[holder'[c]] \in {"send", "recv", "killed"}
      <3>1. CASE c = ProcOf[t]
        BY <1>3, <3>1
      <3>2. CASE c # ProcOf[t]
        <4>1. holder'[c] = holder[c]
          BY <1>3, <3>2
        <4>2. holder[c] \in Threads /\ ProcOf[holder[c]] = c /\ pc[holder[c]] \in {"send", "recv", "killed"}
          BY <2>2, <4>1, HolderFacts, Zenon
        <4> QED
          BY <1>3, <3>2, <4>1, <4>2
      <3> QED
        BY <3>1, <3>2
    <2> QED
      BY <2>1, <2>2 DEF Mutex
  <1>8. Calling'
    BY <1>1, <1>2, <1>3, Zenon DEF ServiceInv, Calling, Active, history, net
  <1>9. Links'
    <2> SUFFICES ASSUME NEW c \in Clients PROVE Link(c)'
      BY DEF Links
    <2>1. Link(c)
      BY DEF ServiceInv, Links
    <2>2. Pending(c) => /\ holder[c] \in Threads /\ pc[holder[c]] = "recv"
                        /\ holder[c] # t /\ c # ProcOf[t]
      BY <1>1, <2>1, HolderFacts, Zenon DEF Link
    <2> QED
      BY <1>2, <1>3, <2>1, <2>2, LinkStill, Zenon DEF server, net, history
  <1>10. Tolds'
    BY <1>2, ToldStill DEF ServiceInv, Tolds, history
  <1> QED
    BY <1>5, <1>6, <1>7, <1>8, <1>9, <1>10 DEF ServiceInv

(* The request goes out, or is lost on a connection the server has left,   *)
(* or ends the process.                                                    *)
LEMMA ServiceSend ==
    ASSUME ServiceInv, NEW t \in Threads, Send(t)
    PROVE  ServiceInv'
  <1> DEFINE c0 == ProcOf[t]
  <1>1. pc[t] = "send" /\ Active(t) /\ c0 \in Clients
    BY ServiceAssumption DEF Send, Active
  <1>2. holder[c0] = t /\ ~Pending(c0)
    BY <1>1, NotPending
  <1>3. UNCHANGED <<server, in, holder, pack, got, calls, crashes, scenario, history>>
    BY DEF Send
  <1>4. \/ /\ sock[c0] = "ok" /\ out' = [out EXCEPT ![c0] = Append(@, pack[t])]
           /\ pc' = [pc EXCEPT ![t] = "recv"] /\ sock' = sock
        \/ /\ sock' = [sock EXCEPT ![c0] = "reset"] /\ out' = out
           /\ pc' = [pc EXCEPT ![t] = "recv"]
        \/ /\ pc' = [u \in Threads |-> IF ProcOf[u] = c0 THEN "killed" ELSE pc[u]]
           /\ sock' = sock /\ out' = out
    <2>1. sock[c0] \in {"ok", "closed", "reset"}
      BY <1>1 DEF ServiceInv, Shapes, Calling
    <2> QED
      BY <2>1, Zenon DEF Send
  <1>5. pc'[t] \in {"recv", "killed"}
    BY <1>4 DEF ServiceInv, Shapes
  <1>6. \A u \in Threads : u # t => \/ pc'[u] = pc[u]
                                    \/ pc'[u] = "killed" /\ ProcOf[u] = c0
    BY <1>4 DEF ServiceInv, Shapes
  <1>7. \A c \in Clients : c # c0 => out'[c] = out[c] /\ sock'[c] = sock[c]
    BY <1>4 DEF ServiceInv, Shapes
  <1>8. Shapes'
    <2>1. /\ sock' \in [Clients -> {"none", "ok", "closed", "reset"}]
          /\ pc' \in [Threads -> {"idle", "sock", "lock", "send", "recv", "killed"}]
          /\ DOMAIN out' = Clients
      BY <1>4, Zenon DEF ServiceInv, Shapes
    <2> QED
      BY <1>3, <2>1, Zenon DEF ServiceInv, Shapes, server, history
  <1>9. PollerShape'
    BY <1>3 DEF ServiceInv, PollerShape, server
  <1>10. Mutex'
    <2>1. ASSUME NEW u \in Threads, pc'[u] \in {"send", "recv"}
          PROVE  holder'[ProcOf[u]] = u
      BY <1>2, <1>3, <1>6, <2>1, Zenon DEF ServiceInv, Mutex
    <2>2. ASSUME NEW c \in Clients, holder'[c] # None
          PROVE  ProcOf[holder'[c]] = c /\ pc'[holder'[c]] \in {"send", "recv", "killed"}
      BY <1>3, <1>5, <1>6, <2>2, HolderFacts
    <2> QED
      BY <2>1, <2>2 DEF Mutex
  <1>11. Calling'
    <2>1. \A c \in Clients : sock[c] # "none" => sock'[c] # "none"
      BY <1>4 DEF ServiceInv, Shapes
    <2> QED
      BY <1>1, <1>3, <1>5, <1>6, <2>1, ServiceAssumption DEF ServiceInv, Calling, Active, history
  <1>12. Links'
    <2> SUFFICES ASSUME NEW c \in Clients PROVE Link(c)'
      BY DEF Links
    <2>1. Link(c)
      BY DEF ServiceInv, Links
    <2>2. CASE c # c0
      <3>1. Pending(c) => /\ holder[c] \in Threads /\ pc[holder[c]] = "recv"
                          /\ holder[c] # t /\ ProcOf[holder[c]] # c0
        BY <1>1, <2>1, <2>2, HolderFacts, Zenon DEF Link
      <3>2. Pending(c) => pc'[holder[c]] = "recv"
        BY <1>6, <3>1
      <3> QED
        BY <1>3, <1>7, <2>1, <2>2, <3>2, LinkStill, Zenon DEF server, history
    <2>3. CASE c = c0
      <3>1. /\ ~Replied(c0)' /\ ~Queued(c0)' /\ ~Polled(c0)' /\ Once(queue, c0)'
        BY <1>2, <1>3, <2>1, <2>3, Zenon DEF Link, OneItem, Pending, Replied, Queued, Polled, server
      <3>2. CASE out' = out
        BY <1>2, <2>3, <3>1, <3>2, LinkNone, Zenon DEF Pending, Asked
      <3>3. CASE out' # out
        <4>1. /\ sock'[c0] = "ok" /\ out' = [out EXCEPT ![c0] = Append(@, pack[t])]
              /\ pc'[t] = "recv"
          BY <1>4, <3>3, Zenon DEF ServiceInv, Shapes
        <4>2. out[c0] = <<>>
          BY <1>2, Zenon DEF Pending, Asked
        <4>3. out'[c0] = <<pack[t]>>
          BY <1>1, <4>1, <4>2, Single, Zenon DEF ServiceInv, Shapes
        <4>4. holder'[c0] = t /\ t # None /\ pack'[t] = pack[t] /\ seen'[t].applied = 0
          BY <1>1, <1>2, <1>3, ServiceAssumption, Zenon DEF ServiceInv, Calling, history
        <4>5. ItemOK(c0, t)'
          BY <3>1, <4>3, <4>4 DEF ItemOK
        <4>6. ItemOK(c0, holder[c0])'
          BY <4>4, <4>5
        <4>7. OneItem(c0)'
          BY <3>1 DEF OneItem
        <4> QED
          BY <2>3, <4>1, <4>4, <4>6, <4>7, Zenon DEF Link
      <3> QED
        BY <3>2, <3>3, Zenon
    <2> QED
      BY <2>2, <2>3, Zenon
  <1>13. Tolds'
    BY <1>3, ToldStill, Zenon DEF ServiceInv, Tolds, history
  <1> QED
    BY <1>8, <1>9, <1>10, <1>11, <1>12, <1>13 DEF ServiceInv

(* recvFrom: the thread that holds the mutex takes the answer to its own   *)
(* request, or finds that the server has gone, and gives the mutex back.   *)
LEMMA ServiceRecv ==
    ASSUME ServiceInv, NEW t \in Threads, Recv(t)
    PROVE  ServiceInv'
  <1> DEFINE c0 == ProcOf[t]
  <1>1. pc[t] = "recv" /\ Active(t) /\ c0 \in Clients
    BY ServiceAssumption DEF Recv, Active
  <1>2. holder[c0] = t /\ Link(c0) /\ t # None
    BY <1>1, ServiceAssumption DEF ServiceInv, Mutex, Links
  <1>3. /\ UNCHANGED <<server, sock, out, pack, calls, crashes, scenario, history>>
        /\ pc' = [pc EXCEPT ![t] = "idle"] /\ holder' = [holder EXCEPT ![c0] = None]
    BY <1>2, Zenon DEF Recv, Return, Free
  <1>4. \/ /\ in[c0] # <<>> /\ in' = [in EXCEPT ![c0] = Tail(@)]
           /\ got' = [got EXCEPT ![t] = [answer |-> Head(in[c0]), answered |-> TRUE]]
        \/ /\ in[c0] = <<>> /\ sock[c0] # "ok" /\ in' = in
           /\ got' = [got EXCEPT ![t] = [answer |-> Answer(ZSC_REC_SRVEXP, Empty), answered |-> FALSE]]
    BY DEF Recv, Return
  <1>5. /\ pc'[t] = "idle" /\ holder'[c0] = None
        /\ \A u \in Threads : u # t => pc'[u] = pc[u] /\ got'[u] = got[u]
        /\ \A c \in Clients : c # c0 => holder'[c] = holder[c] /\ in'[c] = in[c]
    BY <1>1, <1>3, <1>4 DEF ServiceInv, Shapes
  <1>6. Shapes'
    <2>1. DOMAIN in' = Clients /\ DOMAIN got' = Threads
      BY <1>4, Zenon DEF ServiceInv, Shapes
    <2>2. /\ pc' \in [Threads -> {"idle", "sock", "lock", "send", "recv", "killed"}]
          /\ holder' \in [Clients -> Threads \cup {None}]
      BY <1>3, Zenon DEF ServiceInv, Shapes
    <2> QED
      BY <1>3, <2>1, <2>2, Zenon DEF ServiceInv, Shapes, server, history
  <1>7. PollerShape'
    BY <1>3 DEF ServiceInv, PollerShape, server
  <1>8. Mutex'
    <2>1. ASSUME NEW u \in Threads, pc'[u] \in {"send", "recv"}
          PROVE  holder'[ProcOf[u]] = u
      <3>1. u # t /\ pc[u] \in {"send", "recv"}
        BY <1>5, <2>1
      <3>2. holder[ProcOf[u]] = u /\ ProcOf[u] \in Clients
        BY <3>1, ServiceAssumption, Zenon DEF ServiceInv, Mutex
      <3> QED
        BY <1>2, <1>5, <3>1, <3>2
    <2>2. ASSUME NEW c \in Clients, holder'[c] # None
          PROVE  ProcOf[holder'[c]] = c /\ pc'[holder'[c]] \in {"send", "recv", "killed"}
      <3>1. c # c0 /\ holder'[c] = holder[c]
        BY <1>5, <2>2
      <3>2. /\ holder[c] \in Threads /\ ProcOf[holder[c]] = c
            /\ pc[holder[c]] \in {"send", "recv", "killed"}
        BY <2>2, <3>1, HolderFacts, Zenon
      <3> QED
        BY <1>5, <3>1, <3>2
    <2> QED
      BY <2>1, <2>2 DEF Mutex
  <1>9. Calling'
    BY <1>3, <1>5, Zenon DEF ServiceInv, Calling, Active, history
  <1>10. Replied(c0) => in[c0] = <<in[c0][1]>> /\ Fine(t, in[c0][1])
    BY <1>2, Zenon DEF Link, Pending, ItemOK
  <1>11. Links'
    <2> SUFFICES ASSUME NEW c \in Clients PROVE Link(c)'
      BY DEF Links
    <2>1. Link(c)
      BY DEF ServiceInv, Links
    <2>2. CASE c # c0
      <3>1. Pending(c) => /\ holder[c] \in Threads /\ pc[holder[c]] = "recv"
                          /\ holder[c] # t
        BY <2>1, <2>2, HolderFacts, Zenon DEF Link
      <3> QED
        BY <1>3, <1>5, <2>1, <2>2, <3>1, LinkStill, Zenon DEF server, history
    <2>3. CASE c = c0
      <3>1. ~Asked(c0) /\ ~Queued(c0) /\ ~Polled(c0) /\ Once(queue, c0)
        BY <1>2, <1>4, Zenon DEF Link, OneItem, Replied
      <3>2. in'[c0] = <<>>
        <4>1. CASE in[c0] = <<>>
          BY <1>4, <4>1, Zenon
        <4>2. CASE in[c0] # <<>>
          <5>1. in'[c0] = Tail(in[c0])
            BY <1>1, <1>4, <4>2 DEF ServiceInv, Shapes
          <5>2. PICK a : in[c0] = <<a>>
            BY <1>10, <4>2, Zenon DEF Replied
          <5> QED
            BY <5>1, <5>2, Single, Zenon
        <4> QED
          BY <4>1, <4>2, Zenon
      <3>3. ~Pending(c0)' /\ Once(queue, c0)'
        BY <1>3, <3>1, <3>2 DEF Pending, Asked, Replied, Queued, Polled, server
      <3> QED
        BY <2>3, <3>3, LinkNone, Zenon
    <2> QED
      BY <2>2, <2>3
  <1>12. Tolds'
    <2> SUFFICES ASSUME NEW u \in Threads PROVE Told(u)'
      BY DEF Tolds
    <2>1. Told(u) /\ pack'[u] = pack[u] /\ seen'[u] = seen[u]
      BY <1>3 DEF ServiceInv, Tolds, history
    <2>2. CASE u # t
      BY <1>5, <2>1, <2>2, ToldStill
    <2>3. CASE u = t /\ in[c0] # <<>>
      <3>1. PICK a : in[c0] = <<a>> /\ Fine(t, a)
        BY <1>10, <2>3 DEF Replied
      <3>2. Head(in[c0]) = a
        BY <3>1, Single
      <3>3. got'[t] = [answer |-> a, answered |-> TRUE]
        BY <1>4, <2>3, <3>2, Zenon DEF ServiceInv, Shapes
      <3>4. Fine(t, a)'
        BY <2>1, <2>3, <3>1 DEF Fine
      <3>5. PICK g : g = got'[t]
        OBVIOUS
      <3>6. g.answer = a /\ g.answered = TRUE
        BY <3>3, <3>5, ReturnFields
      <3> QED
        BY <2>1, <2>3, <3>4, <3>5, <3>6 DEF Told
    <2>4. CASE u = t /\ in[c0] = <<>>
      <3>1. got'[t] = [answer |-> Answer(ZSC_REC_SRVEXP, Empty), answered |-> FALSE]
        BY <1>4, <2>4 DEF ServiceInv, Shapes
      <3>2. seen'[t].applied <= 1
        BY <2>1, <2>4, Zenon DEF Told
      <3> QED
        BY <2>4, <3>1, <3>2, ToldFailure, Zenon
    <2> QED
      BY <2>2, <2>3, <2>4
  <1> QED
    BY <1>6, <1>7, <1>8, <1>9, <1>11, <1>12 DEF ServiceInv

-----------------------------------------------------------------------------
(* The server. *)

(* What the history notes of a write: for a thread that waits with a       *)
(* callback, the value and the race; for the writer, that it was applied.  *)
LEMMA NotedFacts ==
    ASSUME ServiceInv, NEW tab, NEW by, NEW t \in Threads, NEW n, n = Noted(tab, by)[t]
    PROVE  /\ n \in [equal : BOOLEAN, raced : BOOLEAN, applied : Nat]
           /\ Waiting(t) =>
                /\ n.applied = seen[t].applied
                /\ seen[t].equal \/ HasValue(tab, t) => n.equal
                /\ \/ seen[t].raced
                   \/ /\ poller.at = "read" /\ poller.arg.p.by = t
                      /\ tab[pack[t].p.key] # table[pack[t].p.key]
                   => n.raced
           /\ ~Waiting(t) =>
                /\ t # by => n = seen[t]
                /\ t = by => /\ n.applied = seen[t].applied + 1
                             /\ n.equal = seen[t].equal /\ n.raced = seen[t].raced
  <1>1. seen[t] \in [equal : BOOLEAN, raced : BOOLEAN, applied : Nat]
    BY DEF ServiceInv, Shapes
  <1>2. CASE Waiting(t)
    <2>1. PICK e : e = (seen[t].equal \/ HasValue(tab, t))
      OBVIOUS
    <2>2. PICK r : r = (\/ seen[t].raced
                        \/ /\ poller.at = "read" /\ poller.arg.p.by = t
                           /\ tab[pack[t].p.key] # table[pack[t].p.key])
      BY Zenon
    <2>3. n = [equal |-> e, raced |-> r, applied |-> seen[t].applied]
      BY <1>2, <2>1, <2>2, Zenon DEF Noted, HasValue
    <2>4. e \in BOOLEAN /\ r \in BOOLEAN
      BY <2>1, <2>2, Zenon
    <2>5. seen[t].applied \in Nat
      BY <1>1
    <2>6. n.equal = e /\ n.raced = r /\ n.applied = seen[t].applied
      BY <2>3
    <2>7. n \in [equal : BOOLEAN, raced : BOOLEAN, applied : Nat]
      BY <2>3, <2>4, <2>5
    <2> QED
      BY <1>2, <2>1, <2>2, <2>6, <2>7
  <1>3. CASE ~Waiting(t)
    <2>1. n = [seen[t] EXCEPT !.applied = @ + IF t = by THEN 1 ELSE 0]
      BY <1>3, Zenon DEF Noted
    <2>2. CASE t = by
      <3>1. n = [seen[t] EXCEPT !.applied = @ + 1]
        BY <2>1, <2>2
      <3> QED
        BY <1>1, <1>3, <2>2, <3>1
    <2>3. CASE t # by
      <3>1. n = [seen[t] EXCEPT !.applied = @ + 0]
        BY <2>1, <2>3
      <3>2. n = seen[t]
        BY <1>1, <3>1
      <3> QED
        BY <1>1, <1>3, <2>3, <3>2
    <2> QED
      BY <2>2, <2>3
  <1> QED
    BY <1>2, <1>3, Zenon

(* A write counts for its own thread alone, and once. *)
LEMMA NotedApplied ==
    ASSUME ServiceInv, NEW tab, NEW by, NEW t \in Threads, NEW n, n = Noted(tab, by)[t]
    PROVE  \/ n.applied = seen[t].applied
           \/ t = by /\ n.applied = seen[t].applied + 1
  <1>1. CASE Waiting(t)
    BY <1>1, NotedFacts
  <1>2. CASE ~Waiting(t) /\ t # by
    BY <1>2, NotedFacts
  <1>3. CASE ~Waiting(t) /\ t = by
    BY <1>3, NotedFacts
  <1> QED
    BY <1>1, <1>2, <1>3

(* The request that the server reads is that of the thread that holds the  *)
(* mutex.                                                                  *)
LEMMA AskedFacts ==
    ASSUME ServiceInv, NEW c \in Clients, out[c] # <<>>
    PROVE  /\ holder[c] \in Threads /\ ProcOf[holder[c]] = c /\ pc[holder[c]] = "recv"
           /\ holder[c] # None
           /\ Head(out[c]) = pack[holder[c]] /\ Tail(out[c]) = <<>>
           /\ seen[holder[c]].applied = 0
           /\ in[c] = <<>> /\ ~Queued(c) /\ ~Polled(c) /\ Once(queue, c) /\ sock[c] = "ok"
  <1>1. Link(c) /\ Asked(c) /\ Pending(c)
    BY Zenon DEF ServiceInv, Links, Asked, Pending
  <1>2. holder[c] # None /\ pc[holder[c]] = "recv" /\ ItemOK(c, holder[c])
    BY <1>1 DEF Link
  <1>3. PICK x : x = pack[holder[c]]
    BY Zenon
  <1>4. out[c] = <<x>> /\ seen[holder[c]].applied = 0
    BY <1>1, <1>2, <1>3, Zenon DEF ItemOK
  <1>5. Head(out[c]) = x /\ Tail(out[c]) = <<>>
    BY <1>4, Single
  <1>6. in[c] = <<>> /\ ~Queued(c) /\ ~Polled(c) /\ Once(queue, c) /\ sock[c] = "ok"
    BY <1>1 DEF Link, OneItem, Replied
  <1> QED
    BY <1>2, <1>3, <1>4, <1>5, <1>6, HolderFacts

(* Another process while the server handles a request: its callback        *)
(* learns of the value and of the race.                                    *)
LEMMA LinkNoted ==
    ASSUME ServiceInv, NEW by, NEW c \in Clients, NEW tab,
           holder[c] # by,
           table' = tab, seen' = Noted(tab, by),
           out'[c] = out[c], in'[c] = in[c], sock' = sock, holder' = holder,
           pc' = pc, pack' = pack,
           Queued(c)' <=> Queued(c), Once(queue, c)',
           \A x : Carries(queue, c, x) => Carries(queue', c, x),
           poller' = IF poller.at = "read" /\ tab[poller.arg.p.key] # table[poller.arg.p.key]
                       THEN [poller EXCEPT !.torn = TRUE] ELSE poller
    PROVE  Link(c)'
  <1>1. Link(c)
    BY DEF ServiceInv, Links
  <1>2. Polled(c) => /\ poller'.at = poller.at /\ poller'.arg = poller.arg
                     /\ poller'.torn <=>
                          \/ poller.torn
                          \/ /\ poller.at = "read"
                             /\ tab[poller.arg.p.key] # table[poller.arg.p.key]
    BY Codes DEF ServiceInv, PollerShape, Polled, Resting
  <1>3. Polled(c)' <=> Polled(c)
    BY Codes DEF ServiceInv, PollerShape, Polled, Resting
  <1>4. /\ Asked(c)' <=> Asked(c)
        /\ Replied(c)' <=> Replied(c)
    BY DEF Asked, Replied
  <1>5. OneItem(c)'
    BY <1>1, <1>3, <1>4 DEF Link, OneItem
  <1>6. sock'[c] # "ok" => ~Asked(c)' /\ ~Queued(c)' /\ ~Polled(c)'
    BY <1>1, <1>3, <1>4 DEF Link
  <1>7. ASSUME Pending(c)'
        PROVE  holder'[c] # None /\ pc'[holder'[c]] = "recv" /\ ItemOK(c, holder[c])'
    <2>1. Pending(c)
      BY <1>3, <1>4, <1>7 DEF Pending
    <2>2. PICK h : h = holder[c]
      OBVIOUS
    <2>3. h # None /\ pc[h] = "recv" /\ ItemOK(c, h) /\ h \in Threads /\ h # by /\ Active(h)
      BY <1>1, <2>1, <2>2, HolderFacts DEF Link, Active
    <2>4. PICK n : n = seen'[h]
      OBVIOUS
    <2>5. Waiting(h) <=> pack[h].r.op = "callback"
      BY <2>3 DEF Waiting
    <2>6. n.applied = seen[h].applied /\ (seen[h].equal => n.equal) /\ (seen[h].raced => n.raced)
      BY <2>3, <2>4, NotedFacts
    <2>7. \A a : Fine(h, a) => Fine(h, a)'
      BY <2>4, <2>6 DEF Fine
    <2>8. Queued(c) \/ Polled(c) =>
            /\ pack[h].r.op = "callback"
            /\ HasValue(tab, h) => n.equal
            /\ poller.at = "read" /\ poller.arg.p.by = h
                 /\ tab[pack[h].p.key] # table[pack[h].p.key] => n.raced
      <3>1. Queued(c) \/ Polled(c) => pack[h].r.op = "callback"
        BY <2>3 DEF ItemOK
      <3> QED
        BY <2>3, <2>4, <2>5, <3>1, NotedFacts
    <2>9. (HasValue(table, h))' <=> HasValue(tab, h)
      BY DEF HasValue
    <2>10. Polled(c) =>
             /\ poller'.arg = [c |-> c, p |-> pack[h].p]
             /\ poller'.torn => n.raced
             /\ poller'.at = "read" /\ ~poller'.torn => tab[pack[h].p.key] # Missing
      <3> SUFFICES ASSUME Polled(c)
                   PROVE  /\ poller'.arg = [c |-> c, p |-> pack[h].p]
                          /\ poller'.torn => n.raced
                          /\ poller'.at = "read" /\ ~poller'.torn => tab[pack[h].p.key] # Missing
        OBVIOUS
      <3>1. /\ poller.arg = [c |-> c, p |-> pack[h].p]
            /\ poller.torn => seen[h].raced
            /\ poller.at = "read" /\ ~poller.torn => table[pack[h].p.key] # Missing
        BY <2>3 DEF ItemOK
      <3>2. poller.arg.p = pack[h].p /\ poller.arg.p.by = h
        BY <2>3, <3>1, PackFacts
      <3> QED
        BY <1>2, <2>6, <2>8, <3>1, <3>2
    <2>11. ItemOK(c, h)'
      <3>1. Asked(c)' => out'[c] = <<pack'[h]>> /\ seen'[h].applied = 0
        BY <1>4, <2>3, <2>4, <2>6 DEF ItemOK
      <3>2. Queued(c)' => Carries(queue', c, [c |-> c, p |-> pack'[h].p])
        BY <2>3 DEF ItemOK
      <3>3. Polled(c)' =>
              /\ poller'.arg = [c |-> c, p |-> pack'[h].p]
              /\ poller'.torn => seen'[h].raced
              /\ poller'.at = "read" /\ ~poller'.torn => table'[pack'[h].p.key] # Missing
        BY <1>3, <2>4, <2>10
      <3>4. Queued(c)' \/ Polled(c)' =>
              /\ pack'[h].r.op = "callback"
              /\ (HasValue(table, h))' => seen'[h].equal
        BY <1>3, <2>4, <2>8, <2>9
      <3>5. Replied(c)' => in'[c] = <<in'[c][1]>> /\ Fine(h, in[c][1])'
        BY <1>4, <2>3, <2>7 DEF ItemOK
      <3> QED
        BY <3>1, <3>2, <3>3, <3>4, <3>5 DEF ItemOK
    <2> QED
      BY <2>2, <2>3, <2>11
  <1> QED
    BY <1>5, <1>6, <1>7 DEF Link

(* What a thread was told, while the server handles another's request or   *)
(* its own.                                                                *)
LEMMA ToldNoted ==
    ASSUME ServiceInv, NEW by \in Threads, NEW t \in Threads, NEW tab,
           pc[by] = "recv", seen[by].applied = 0,
           seen' = Noted(tab, by), pc' = pc, pack' = pack, got' = got
    PROVE  Told(t)'
  <1>1. Told(t)
    BY DEF ServiceInv, Tolds
  <1>2. PICK n : n = seen'[t]
    OBVIOUS
  <1>3. seen[t].applied \in Nat
    BY DEF ServiceInv, Shapes
  <1>4. n.applied <= 1
    <2>1. n.applied = seen[t].applied \/ (t = by /\ n.applied = seen[t].applied + 1)
      <3>1. n = Noted(tab, by)[t]
        BY <1>2
      <3> QED
        BY <3>1, NotedApplied
    <2> QED
      BY <1>1, <1>3, <2>1 DEF Told
  <1>5. CASE Active(t)
    <2>1. got[t] = None
      BY <1>5, PackUntold
    <2> QED
      BY <1>2, <1>4, <2>1 DEF Told
  <1>6. CASE ~Active(t)
    <2>1. pc[t] \in {"idle", "killed"} /\ t # by
      BY <1>6, Zenon DEF ServiceInv, Shapes, Active
    <2>2. seen'[t] = seen[t]
      BY <1>2, <2>1, NotedFacts DEF Waiting
    <2> QED
      BY <1>1, <2>2, ToldStill
  <1> QED
    BY <1>5, <1>6

(* The operations change records, never the set of keys. *)
LEMMA TableDomain ==
    ASSUME DOMAIN table = Keys, NEW p
    PROVE  DOMAIN Table(p) = Keys
  <1>1. \A x : DOMAIN [table EXCEPT ![p.key] = x] = Keys
    OBVIOUS
  <1>2. \A q : DOMAIN InsertShared(q) = Keys
    BY DEF InsertShared
  <1>3. DOMAIN AppendShared(p) = Keys /\ DOMAIN RemoveShared(p) = Keys
    BY DEF AppendShared, RemoveShared
  <1>4. DOMAIN CompareSwapInternal(p) = Keys
    BY <1>2 DEF CompareSwapInternal
  <1> QED
    BY <1>2, <1>3, <1>4 DEF Table

(* The map keeps its keys. *)
LEMMA MapDomain ==
    ASSUME DOMAIN abs = Keys, NEW r
    PROVE  DOMAIN MapNext(r) = Keys
  <1>1. \A x : DOMAIN [abs EXCEPT ![r.key] = x] = Keys
    OBVIOUS
  <1> QED
    BY <1>1 DEF MapNext

(* HTWorker::run answers a request: it is applied once. *)
LEMMA ServiceHandle ==
    ASSUME ServiceInv, NEW c0 \in Clients, Handle(c0)
    PROVE  ServiceInv'
  <1>1. PICK t : t = holder[c0]
    OBVIOUS
  <1>2. out[c0] # <<>>
    BY DEF Handle
  <1>3. /\ t \in Threads /\ ProcOf[t] = c0 /\ pc[t] = "recv" /\ t # None /\ Active(t)
        /\ Head(out[c0]) = pack[t] /\ Tail(out[c0]) = <<>> /\ seen[t].applied = 0
        /\ in[c0] = <<>> /\ ~Queued(c0) /\ ~Polled(c0) /\ Once(queue, c0) /\ sock[c0] = "ok"
    BY <1>1, <1>2, AskedFacts, Zenon DEF Active
  <1>4. pack[t].p.by = t /\ pack[t].p.op = pack[t].r.op
    BY <1>3, PackOwn
  <1>5. PICK tab : tab = Table(pack[t].p)
    OBVIOUS
  <1>6. PICK a : a = Result(pack[t].p)
    BY Zenon
  <1>7. /\ pack[t].r.op # "callback"
        /\ out' = [out EXCEPT ![c0] = Tail(@)] /\ table' = tab
        /\ in' = [in EXCEPT ![c0] = Append(@, a)]
        /\ abs' = MapNext(pack[t].r) /\ want' = [want EXCEPT ![t] = MapAnswer(pack[t].r)]
        /\ seen' = Noted(tab, t)
        /\ poller' = IF poller.at = "read" /\ tab[poller.arg.p.key] # table[poller.arg.p.key]
                       THEN [poller EXCEPT !.torn = TRUE] ELSE poller
        /\ UNCHANGED <<up, queue, sock, holder, pc, pack, got, crashes, scenario>>
    BY <1>3, <1>4, <1>5, <1>6, Zenon DEF Handle, Reply, threads
  <1>8. DOMAIN table' = Keys /\ DOMAIN abs' = Keys
    BY <1>5, <1>7, TableDomain, MapDomain DEF ServiceInv, Shapes
  <1>9. Shapes'
    <2>1. \A u \in Threads : seen'[u] \in [equal : BOOLEAN, raced : BOOLEAN, applied : Nat]
      BY <1>7, NotedFacts
    <2>2. seen' \in [Threads -> [equal : BOOLEAN, raced : BOOLEAN, applied : Nat]]
      BY <1>7, <2>1 DEF Noted
    <2> QED
      BY <1>7, <1>8, <2>2, Zenon DEF ServiceInv, Shapes
  <1>10. PollerShape'
    BY <1>7, Codes, Zenon DEF ServiceInv, PollerShape, Resting
  <1>11. Mutex'
    BY <1>7 DEF ServiceInv, Mutex
  <1>12. Calling'
    <2> SUFFICES ASSUME NEW u \in Threads, pc[u] \in {"sock", "lock", "send"}
                 PROVE  seen'[u].applied = 0
      BY <1>7 DEF ServiceInv, Calling, Active
    <2>1. u # t /\ seen[u].applied = 0
      BY <1>3, Zenon DEF ServiceInv, Calling
    <2>2. PICK n : n = seen'[u]
      OBVIOUS
    <2>3. n.applied = seen[u].applied
      <3>1. n = Noted(tab, t)[u]
        BY <1>7, <2>2
      <3> QED
        BY <2>1, <3>1, NotedApplied
    <2> QED
      BY <2>1, <2>2, <2>3
  <1>13. Links'
    <2> SUFFICES ASSUME NEW c \in Clients PROVE Link(c)'
      BY DEF Links
    <2>1. CASE c # c0
      <3>1. holder[c] # t
        BY <1>3, <2>1, HolderFacts
      <3>2. out'[c] = out[c] /\ in'[c] = in[c]
        BY <1>7, <2>1 DEF ServiceInv, Shapes
      <3>3. Once(queue, c)' /\ (Queued(c)' <=> Queued(c))
        BY <1>7, Zenon DEF ServiceInv, Links, Link, OneItem, Queued
      <3> QED
        BY <1>7, <3>1, <3>2, <3>3, LinkNoted
    <2>2. CASE c = c0
      <3>1. out'[c0] = <<>> /\ in'[c0] = <<a>>
        BY <1>3, <1>7, Single DEF ServiceInv, Shapes
      <3>2. ~Polled(c0)'
        BY <1>3, <1>7, Codes DEF ServiceInv, PollerShape, Polled, Resting
      <3>3. ~Queued(c0)' /\ Once(queue, c0)' /\ ~Asked(c0)' /\ Replied(c0)'
        BY <1>3, <1>7, <3>1, Single, Zenon DEF Queued, Asked, Replied
      <3>4. OneItem(c0)'
        BY <3>2, <3>3 DEF OneItem
      <3>5. Fine(t, a)'
        <4>1. PICK n : n = seen'[t]
          OBVIOUS
        <4>2. ~Waiting(t)
          BY <1>7 DEF Waiting
        <4>3. n.applied = 0 + 1
          BY <1>3, <1>7, <4>1, <4>2, NotedFacts
        <4> QED
          BY <1>7, <4>1, <4>3 DEF Fine
      <3>6. ItemOK(c0, t)'
        <4>1. in'[c0][1] = a /\ in'[c0] = <<in'[c0][1]>>
          BY <3>1, Single
        <4>2. Fine(t, in[c0][1])'
          BY <3>5, <4>1
        <4> QED
          BY <3>2, <3>3, <4>1, <4>2, Zenon DEF ItemOK
      <3>7. holder'[c0] = t /\ pc'[t] = "recv" /\ sock'[c0] = "ok"
        BY <1>1, <1>3, <1>7
      <3>8. ItemOK(c0, holder[c0])'
        BY <3>6, <3>7
      <3> QED
        BY <1>3, <2>2, <3>4, <3>7, <3>8, Zenon DEF Link
    <2> QED
      BY <2>1, <2>2
  <1>14. Tolds'
    BY <1>3, <1>7, ToldNoted DEF Tolds
  <1> QED
    BY <1>9, <1>10, <1>11, <1>12, <1>13, <1>14 DEF ServiceInv

(* state_change_callback puts the request into PQUEUE. *)
LEMMA ServiceCallback ==
    ASSUME ServiceInv, NEW c0 \in Clients, StateChangeCallback(c0)
    PROVE  ServiceInv'
  <1>1. PICK t : t = holder[c0]
    OBVIOUS
  <1>2. out[c0] # <<>>
    BY DEF StateChangeCallback
  <1>3. /\ t \in Threads /\ ProcOf[t] = c0 /\ pc[t] = "recv" /\ t # None /\ Active(t)
        /\ Head(out[c0]) = pack[t] /\ Tail(out[c0]) = <<>> /\ seen[t].applied = 0
        /\ in[c0] = <<>> /\ ~Queued(c0) /\ ~Polled(c0) /\ Once(queue, c0) /\ sock[c0] = "ok"
    BY <1>1, <1>2, AskedFacts DEF Active
  <1>4. /\ pack[t].p.by = t /\ pack[t].p.op = pack[t].r.op
        /\ pack[t].p \in Packs
    <2>1. pack[t].p.by = t /\ pack[t].p.op = pack[t].r.op
      BY <1>3, PackOwn
    <2>2. pack[t].p \in Packs
      BY <1>3, PackMade
    <2> QED
      BY <2>1, <2>2
  <1>5. PICK e : e = [c |-> c0, p |-> pack[t].p]
    BY Zenon
  <1>6. e \in Entries /\ e.c = c0
    BY <1>4, <1>5 DEF Entries
  <1>7. /\ pack[t].r.op = "callback"
        /\ out' = [out EXCEPT ![c0] = Tail(@)] /\ queue' = Append(queue, e)
        /\ seen' = Noted(table, t)
        /\ UNCHANGED <<up, table, poller, sock, in, holder, pc, pack, got, crashes, scenario, abs, want>>
    BY <1>3, <1>4, <1>5, Zenon DEF StateChangeCallback, threads
  <1>8. queue \in Seq(Entries)
    BY Zenon DEF ServiceInv, Shapes
  <1>9. Shapes'
    <2>1. \A u \in Threads : seen'[u] \in [equal : BOOLEAN, raced : BOOLEAN, applied : Nat]
      BY <1>7, NotedFacts, Zenon
    <2>2. seen' \in [Threads -> [equal : BOOLEAN, raced : BOOLEAN, applied : Nat]]
      BY <1>7, <2>1, Zenon DEF Noted
    <2>3. queue' \in Seq(Entries)
      BY <1>6, <1>7, <1>8, QueueAppend, Zenon
    <2> QED
      BY <1>7, <2>2, <2>3, Zenon DEF ServiceInv, Shapes
  <1>10. PollerShape'
    BY <1>7, Zenon DEF ServiceInv, PollerShape
  <1>11. Mutex'
    BY <1>7, Zenon DEF ServiceInv, Mutex
  <1>12. Calling'
    <2> SUFFICES ASSUME NEW u \in Threads, pc[u] \in {"sock", "lock", "send"}
                 PROVE  seen'[u].applied = 0
      BY <1>7 DEF ServiceInv, Calling, Active
    <2>1. u # t /\ seen[u].applied = 0
      BY <1>3, Zenon DEF ServiceInv, Calling
    <2>2. PICK n : n = seen'[u]
      OBVIOUS
    <2>3. n.applied = seen[u].applied
      <3>1. n = Noted(table, t)[u]
        BY <1>7, <2>2, Zenon
      <3> QED
        BY <2>1, <3>1, NotedApplied
    <2> QED
      BY <2>1, <2>2, <2>3
  <1>13. Links'
    <2> SUFFICES ASSUME NEW c \in Clients PROVE Link(c)'
      BY DEF Links
    <2>1. CASE c # c0
      <3>1. holder[c] # t
        BY <1>3, <2>1, HolderFacts
      <3>2. out'[c] = out[c] /\ in'[c] = in[c]
        BY <1>7, <2>1, Zenon DEF ServiceInv, Shapes
      <3>3. Once(queue, c)
        BY Zenon DEF ServiceInv, Links, Link, OneItem
      <3>4. Once(queue, c)' /\ (Queued(c)' <=> Queued(c))
        BY <1>6, <1>7, <1>8, <2>1, <3>3, QueueAppend, Zenon DEF Queued
      <3>5. \A x : Carries(queue, c, x) => Carries(queue', c, x)
        BY <1>6, <1>7, <1>8, <2>1, QueueAppend
      <3>6. poller' = IF poller.at = "read" /\ table[poller.arg.p.key] # table[poller.arg.p.key]
                        THEN [poller EXCEPT !.torn = TRUE] ELSE poller
        BY <1>7, Zenon
      <3> QED
        BY <1>7, <3>1, <3>2, <3>4, <3>5, <3>6, LinkNoted, Zenon
    <2>2. CASE c = c0
      <3>1. out'[c0] = <<>> /\ in'[c0] = <<>>
        BY <1>3, <1>7, Zenon DEF ServiceInv, Shapes
      <3>2. ~Polled(c0)' /\ ~Asked(c0)' /\ ~Replied(c0)'
        BY <1>3, <1>7, <3>1, Zenon DEF Polled, Asked, Replied
      <3>3. Once(queue, c0)'
        BY <1>3, <1>6, <1>7, <1>8, QueueAppend, Zenon DEF Queued
      <3>4. OneItem(c0)'
        BY <3>2, <3>3, Zenon DEF OneItem
      <3>5. Carries(queue', c0, e)
        <4>1. Carries(queue, c0, e)
          BY <1>3 DEF Queued, InQueue, Carries
        <4> QED
          BY <1>6, <1>7, <1>8, <4>1, QueueAppend
      <3>6. (HasValue(table, t))' => seen'[t].equal
        <4>1. PICK n : n = seen'[t]
          OBVIOUS
        <4>2. Waiting(t)
          BY <1>3, <1>7, Zenon DEF Waiting
        <4>3. HasValue(table, t) => n.equal
          BY <1>3, <1>7, <4>1, <4>2, NotedFacts, Zenon
        <4>4. (HasValue(table, t))' <=> HasValue(table, t)
          BY <1>7, Zenon DEF HasValue
        <4> QED
          BY <4>1, <4>3, <4>4, Zenon
      <3>7. ItemOK(c0, t)'
        <4>1. Carries(queue', c0, [c |-> c0, p |-> pack'[t].p])
          BY <1>5, <1>7, <3>5, Zenon
        <4>2. pack'[t].r.op = "callback"
          BY <1>7, Zenon
        <4> QED
          BY <3>2, <3>6, <4>1, <4>2, Zenon DEF ItemOK
      <3>8. holder'[c0] = t /\ pc'[t] = "recv" /\ sock'[c0] = "ok"
        BY <1>1, <1>3, <1>7, Zenon
      <3>9. ItemOK(c0, holder[c0])'
        BY <3>7, <3>8
      <3> QED
        BY <1>3, <2>2, <3>4, <3>8, <3>9, Zenon DEF Link
    <2> QED
      BY <2>1, <2>2
  <1>14. Tolds'
    BY <1>3, <1>7, ToldNoted, Zenon DEF Tolds
  <1> QED
    BY <1>9, <1>10, <1>11, <1>12, <1>13, <1>14 DEF ServiceInv

-----------------------------------------------------------------------------
(* The poller. *)

(* A process whose callback the poller neither has nor takes. *)
LEMMA LinkBeside ==
    ASSUME NEW c \in Clients, Link(c), ~Polled(c), ~Polled(c)',
           Queued(c)' <=> Queued(c), Once(queue, c)',
           \A x : Carries(queue, c, x) => Carries(queue', c, x),
           in'[c] = in[c],
           UNCHANGED <<table, sock, out, holder, pc, pack, seen>>
    PROVE  Link(c)'
  <1>1. /\ Asked(c)' <=> Asked(c)
        /\ Replied(c)' <=> Replied(c)
    BY Zenon DEF Asked, Replied
  <1>2. OneItem(c)'
    BY <1>1, Zenon DEF Link, OneItem
  <1>3. ASSUME NEW h, ItemOK(c, h)
        PROVE  ItemOK(c, h)'
    <2>1. \A a : Fine(h, a)' <=> Fine(h, a)
      BY Zenon DEF Fine
    <2>2. (HasValue(table, h))' <=> HasValue(table, h)
      BY Zenon DEF HasValue
    <2> QED
      BY <1>1, <1>3, <2>1, <2>2, Zenon DEF ItemOK
  <1>4. Pending(c)' <=> Pending(c)
    BY <1>1, Zenon DEF Pending
  <1>5. PICK h : h = holder[c]
    BY Zenon
  <1>6. ItemOK(c, holder[c])' <=> ItemOK(c, h)'
    BY <1>5
  <1> QED
    BY <1>1, <1>2, <1>3, <1>4, <1>5, <1>6, Zenon DEF Link

(* What is known of the callback the poller works on. *)
LEMMA PolledFacts ==
    ASSUME ServiceInv, poller.at # "rest"
    PROVE  /\ poller = [at |-> poller.at, arg |-> poller.arg,
                        lapsed |-> poller.lapsed, torn |-> poller.torn]
           /\ poller.at \in {"get", "read", ZSC_REC_SCCBPOLLTRY, ZSC_REC_NONEXISTKEY}
           /\ poller.torn \in BOOLEAN /\ poller.arg \in Entries
           /\ poller.arg.c \in Clients /\ Polled(poller.arg.c)
           /\ \E t \in Threads :
                /\ holder[poller.arg.c] = t /\ t # None /\ pc[t] = "recv"
                /\ ItemOK(poller.arg.c, t)
                /\ poller.arg.p = pack[t].p /\ pack[t].r.op = "callback"
  <1>1. poller # Resting
    BY DEF Resting
  <1>2. /\ poller = [at |-> poller.at, arg |-> poller.arg,
                     lapsed |-> poller.lapsed, torn |-> poller.torn]
        /\ poller.at \in {"get", "read", ZSC_REC_SCCBPOLLTRY, ZSC_REC_NONEXISTKEY}
        /\ poller.torn \in BOOLEAN /\ poller.arg \in Entries
    BY <1>1 DEF ServiceInv, PollerShape
  <1>3. PICK c : c = poller.arg.c
    OBVIOUS
  <1>4. c \in Clients /\ Polled(c)
    BY <1>2, <1>3 DEF Entries, Polled
  <1>5. Link(c) /\ Pending(c)
    BY <1>4 DEF ServiceInv, Links, Pending
  <1>6. PICK t : t = holder[c]
    BY Zenon
  <1>7. t # None /\ t \in Threads /\ pc[t] = "recv" /\ ItemOK(c, t)
    BY <1>4, <1>5, <1>6, HolderFacts, Zenon DEF Link
  <1>8. poller.arg = [c |-> c, p |-> pack[t].p] /\ pack[t].r.op = "callback"
    BY <1>4, <1>7, Zenon DEF ItemOK
  <1>9. poller.arg.p = pack[t].p
    BY <1>8
  <1> QED
    BY <1>2, <1>3, <1>4, <1>6, <1>7, <1>8, <1>9

(* A step of the poller changes nothing that these conjuncts are about. *)
LEMMA PollerQuiet ==
    ASSUME ServiceInv,
           UNCHANGED <<up, table, sock, out, holder, threads, crashes, scenario, history>>,
           DOMAIN in' = Clients, queue' \in Seq(Entries)
    PROVE  Shapes' /\ Mutex' /\ Calling' /\ Tolds'
  <1>1. Shapes'
    BY Zenon DEF ServiceInv, Shapes, threads, history
  <1>2. Mutex'
    BY Zenon DEF ServiceInv, Mutex, threads
  <1>3. Calling'
    BY DEF ServiceInv, Calling, Active, threads, history
  <1>4. Tolds'
    BY ToldStill DEF ServiceInv, Tolds, threads, history
  <1> QED
    BY <1>1, <1>2, <1>3, <1>4, Zenon

(* The poller goes on with its callback. *)
LEMMA PollerTurn ==
    ASSUME ServiceInv, poller.at # "rest", PollerShape', poller'.at # "rest",
           poller'.arg = poller.arg,
           poller'.torn => poller.torn,
           poller'.at = "read" /\ ~poller'.torn => table[poller.arg.p.key] # Missing,
           UNCHANGED <<up, table, queue, net, holder, threads, crashes, scenario, history>>
    PROVE  ServiceInv'
  <1>1. PICK c0 : c0 = poller.arg.c
    OBVIOUS
  <1>2. c0 \in Clients /\ Polled(c0)
    BY <1>1, PolledFacts
  <1>3. PICK t \in Threads : /\ holder[c0] = t /\ t # None /\ pc[t] = "recv"
                             /\ ItemOK(c0, t)
                             /\ poller.arg.p = pack[t].p /\ pack[t].r.op = "callback"
    BY <1>1, PolledFacts, Zenon
  <1>4. Shapes' /\ Mutex' /\ Calling' /\ Tolds'
    BY PollerQuiet, Zenon DEF ServiceInv, Shapes, net
  <1>5. Links'
    <2> SUFFICES ASSUME NEW c \in Clients PROVE Link(c)'
      BY Zenon DEF Links
    <2>1. Link(c)
      BY Zenon DEF ServiceInv, Links
    <2>2. Once(queue, c)' /\ (Queued(c)' <=> Queued(c))
      BY <2>1, Zenon DEF Link, OneItem, Queued
    <2>3. CASE c # c0
      <3>1. ~Polled(c) /\ ~Polled(c)'
        BY <1>1, <2>3, Zenon DEF Polled
      <3> QED
        BY <2>1, <2>2, <3>1, LinkBeside, Zenon DEF net, threads, history
    <2>4. CASE c = c0
      <3>1. Polled(c0)' /\ (Asked(c0)' <=> Asked(c0)) /\ (Replied(c0)' <=> Replied(c0))
        BY <1>1, Zenon DEF Polled, Asked, Replied, net
      <3>2. OneItem(c0)'
        BY <1>2, <2>1, <2>2, <2>4, <3>1, Zenon DEF Link, OneItem
      <3>3. (HasValue(table, t))' <=> HasValue(table, t)
        BY Zenon DEF HasValue, threads
      <3>4. ItemOK(c0, t)'
        <4>1. ~Asked(c0)' /\ ~Replied(c0)' /\ ~Queued(c0)'
          BY <3>1, <3>2, Zenon DEF OneItem
        <4>2. /\ poller'.arg = [c |-> c0, p |-> pack'[t].p]
              /\ poller'.torn => seen'[t].raced
              /\ HasValue(table, t) => seen'[t].equal
          BY <1>2, <1>3, Zenon DEF ItemOK, threads, history
        <4>3. poller'.at = "read" /\ ~poller'.torn => table'[pack'[t].p.key] # Missing
          BY <1>3, Zenon DEF threads
        <4>4. pack'[t].r.op = "callback"
          BY <1>3, Zenon DEF threads
        <4> QED
          BY <3>3, <4>1, <4>2, <4>3, <4>4, Zenon DEF ItemOK
      <3>5. ItemOK(c0, holder[c0])'
        BY <1>3, <3>4, Zenon
      <3>6. holder'[c0] # None /\ pc'[holder'[c0]] = "recv" /\ sock'[c0] = "ok"
        BY <1>2, <1>3, <2>1, <2>4, Zenon DEF Link, net, threads
      <3> QED
        BY <2>4, <3>2, <3>5, <3>6, Zenon DEF Link
    <2> QED
      BY <2>3, <2>4, Zenon
  <1> QED
    BY <1>4, <1>5 DEF ServiceInv

(* The poller answers its callback. *)
LEMMA PollerAnswers ==
    ASSUME ServiceInv, poller.at # "rest", NEW rc, PollerReply(rc),
           NEW t \in Threads, holder[poller.arg.c] = t,
           rc = ZSC_REC_SUCC => seen[t].equal \/ seen[t].raced,
           UNCHANGED <<up, table, queue, sock, out, holder, threads, crashes, scenario, history>>
    PROVE  ServiceInv'
  <1>1. PICK c0 : c0 = poller.arg.c
    OBVIOUS
  <1>2. c0 \in Clients /\ Polled(c0) /\ Link(c0)
    BY <1>1, PolledFacts DEF ServiceInv, Links
  <1>3. holder[c0] = t /\ t # None /\ pc[t] = "recv" /\ pack[t].r.op = "callback"
    BY <1>1, PolledFacts, Zenon
  <1>4. PICK a : a = Answer(rc, Empty)
    OBVIOUS
  <1>5. in' = [in EXCEPT ![c0] = Append(@, a)] /\ poller' = Resting
    BY <1>1, <1>4 DEF PollerReply, Reply
  <1>6. Shapes' /\ Mutex' /\ Calling' /\ Tolds'
    <2>1. DOMAIN in' = Clients /\ queue' \in Seq(Entries)
      BY <1>5 DEF ServiceInv, Shapes
    <2> QED
      BY <2>1, PollerQuiet
  <1>7. PollerShape'
    BY <1>5 DEF PollerShape
  <1>8. \A c : ~Polled(c)'
    BY <1>5 DEF Polled, Resting
  <1>9. Links'
    <2> SUFFICES ASSUME NEW c \in Clients PROVE Link(c)'
      BY DEF Links
    <2>1. Link(c)
      BY Zenon DEF ServiceInv, Links
    <2>2. Once(queue, c)' /\ (Queued(c)' <=> Queued(c))
      BY <2>1, Zenon DEF Link, OneItem, Queued
    <2>3. CASE c # c0
      <3>1. ~Polled(c)
        BY <1>1, <2>3, Zenon DEF Polled
      <3>2. in'[c] = in[c]
        BY <1>5, <2>3, Zenon DEF ServiceInv, Shapes
      <3> QED
        BY <1>8, <2>1, <2>2, <3>1, <3>2, LinkBeside, Zenon DEF threads, history
    <2>4. CASE c = c0
      <3>1. ~Asked(c0) /\ ~Replied(c0) /\ ~Queued(c0)
        BY <1>2, Zenon DEF Link, OneItem
      <3>2. in'[c0] = <<a>>
        <4>1. in[c0] = <<>>
          BY <3>1, Zenon DEF Replied
        <4> QED
          BY <1>2, <1>5, <4>1, Single, Zenon DEF ServiceInv, Shapes
      <3>3. ~Asked(c0)' /\ Replied(c0)' /\ ~Queued(c0)' /\ ~Polled(c0)'
        BY <1>8, <2>2, <2>4, <3>1, <3>2, Single, Zenon DEF Asked, Replied
      <3>4. OneItem(c0)'
        BY <2>2, <2>4, <3>3 DEF OneItem
      <3>5. Fine(t, a)'
        <4>1. a.rc = rc
          BY <1>4, AnswerFields, Zenon
        <4> QED
          BY <1>3, <4>1 DEF Fine, threads, history
      <3>6. ItemOK(c0, t)'
        <4>1. in'[c0][1] = a /\ in'[c0] = <<in'[c0][1]>>
          BY <3>2, Single
        <4>2. Fine(t, in[c0][1])'
          BY <3>5, <4>1
        <4> QED
          BY <3>3, <4>1, <4>2, Zenon DEF ItemOK
      <3>7. ItemOK(c0, holder[c0])'
        BY <1>3, <3>6, Zenon
      <3>8. holder'[c0] # None /\ pc'[holder'[c0]] = "recv" /\ sock'[c0] = "ok"
        BY <1>2, <1>3, Zenon DEF Link, threads
      <3> QED
        BY <2>4, <3>4, <3>7, <3>8, Zenon DEF Link
    <2> QED
      BY <2>3, <2>4
  <1> QED
    BY <1>6, <1>7, <1>9 DEF ServiceInv

(* The poller takes the next callback from PQUEUE. *)
LEMMA ServicePop ==
    ASSUME ServiceInv, PollerPop
    PROVE  ServiceInv'
  <1>1. PICK e : e = Head(queue)
    BY Zenon
  <1>2. /\ poller.at = "rest" /\ queue # <<>> /\ queue' = Tail(queue)
        /\ poller' = [at |-> "get", arg |-> e, lapsed |-> 0, torn |-> FALSE]
        /\ UNCHANGED <<up, table, net, holder, threads, crashes, scenario, history>>
    BY <1>1 DEF PollerPop
  <1>3. queue \in Seq(Entries) /\ e \in Entries /\ e.c \in Clients
    <2>1. queue \in Seq(Entries)
      BY Zenon DEF ServiceInv, Shapes
    <2>2. e \in Entries
      BY <1>1, <1>2, <2>1, QueueTail, Zenon
    <2> QED
      BY <2>1, <2>2 DEF Entries
  <1>4. PICK c0 : c0 = e.c
    BY Zenon
  <1>5. c0 \in Clients /\ Link(c0) /\ Queued(c0) /\ Pending(c0)
    BY <1>1, <1>2, <1>3, <1>4, QueueTail, Zenon DEF ServiceInv, Links, Queued, Pending
  <1>6. PICK t : t = holder[c0]
    BY Zenon
  <1>7. /\ t \in Threads /\ t # None /\ pc[t] = "recv" /\ ItemOK(c0, t)
    BY <1>5, <1>6, HolderFacts, Zenon DEF Link
  <1>8. e = [c |-> c0, p |-> pack[t].p]
    <2>1. PICK x : x = [c |-> c0, p |-> pack[t].p]
      BY Zenon
    <2>2. Carries(queue, c0, x)
      BY <1>5, <1>7, <2>1, Zenon DEF ItemOK
    <2> QED
      BY <1>1, <1>2, <1>3, <1>4, <2>1, <2>2, QueueTail
  <1>9. Shapes' /\ Mutex' /\ Calling' /\ Tolds'
    <2>1. DOMAIN in' = Clients /\ queue' \in Seq(Entries)
      BY <1>2, <1>3, QueueTail, Zenon DEF ServiceInv, Shapes, net
    <2> QED
      BY <1>2, <2>1, PollerQuiet, Zenon DEF net
  <1>10. /\ poller'.at = "get" /\ poller'.arg = e /\ poller'.torn = FALSE
         /\ poller' = [at |-> poller'.at, arg |-> poller'.arg,
                       lapsed |-> poller'.lapsed, torn |-> poller'.torn]
    BY <1>2
  <1>11. PollerShape'
    BY <1>3, <1>10, Zenon DEF PollerShape
  <1>12. Links'
    <2> SUFFICES ASSUME NEW c \in Clients PROVE Link(c)'
      BY DEF Links
    <2>1. Link(c) /\ Once(queue, c)
      BY DEF ServiceInv, Links, Link, OneItem
    <2>2. Once(queue, c)'
      BY <1>2, <1>3, <2>1, QueueTail, Zenon
    <2>3. CASE c # c0
      <3>1. ~Polled(c) /\ ~Polled(c)'
        BY <1>2, <1>4, <1>10, <2>3, Zenon DEF Polled
      <3>2. Queued(c)' <=> Queued(c)
        BY <1>1, <1>2, <1>3, <1>4, <2>3, QueueTail, Zenon DEF Queued
      <3>3. \A x : Carries(queue, c, x) => Carries(queue', c, x)
        BY <1>2, <1>3, QueueTail
      <3> QED
        BY <1>2, <2>1, <2>2, <3>1, <3>2, <3>3, LinkBeside, Zenon DEF net, threads, history
    <2>4. CASE c = c0
      <3>1. ~Asked(c0) /\ ~Replied(c0)
        BY <1>5, Zenon DEF Link, OneItem
      <3>2. ~Queued(c0)'
        BY <1>1, <1>2, <1>3, <1>4, <2>1, <2>4, QueueTail, Zenon DEF Queued
      <3>3. ~Asked(c0)' /\ ~Replied(c0)' /\ Polled(c0)'
        BY <1>2, <1>4, <1>10, <3>1, Zenon DEF Asked, Replied, Polled, net
      <3>4. OneItem(c0)'
        BY <2>2, <2>4, <3>2, <3>3, Zenon DEF OneItem
      <3>5. (HasValue(table, t))' <=> HasValue(table, t)
        BY <1>2, Zenon DEF HasValue, threads
      <3>6. pack'[t].r.op = "callback" /\ (HasValue(table, t) => seen'[t].equal)
        BY <1>2, <1>5, <1>7, Zenon DEF ItemOK, threads, history
      <3>7. ItemOK(c0, t)'
        <4>1. poller'.arg = [c |-> c0, p |-> pack'[t].p]
          BY <1>2, <1>8, <1>10, Zenon DEF threads
        <4> QED
          BY <1>10, <3>2, <3>3, <3>5, <3>6, <4>1, Zenon DEF ItemOK
      <3>8. holder'[c0] = t /\ pc'[t] = "recv" /\ sock'[c0] = "ok"
        BY <1>2, <1>5, <1>6, <1>7, Zenon DEF Link, net, threads
      <3>9. ItemOK(c0, holder[c0])'
        BY <3>7, <3>8
      <3> QED
        BY <1>7, <2>4, <3>4, <3>8, <3>9, Zenon DEF Link
    <2> QED
      BY <2>3, <2>4
  <1> QED
    BY <1>9, <1>11, <1>12 DEF ServiceInv

(* state_change_callback_internal finds the record ... *)
LEMMA ServicePollerGet ==
    ASSUME ServiceInv, PollerGet
    PROVE  ServiceInv'
  <1>1. /\ poller.at = "get"
        /\ UNCHANGED <<up, table, queue, net, holder, threads, crashes, scenario, history>>
    BY Zenon DEF PollerGet
  <1>2. PICK x : /\ x \in {"read", ZSC_REC_NONEXISTKEY}
                 /\ x = "read" => Stored(poller.arg.p.key)
                 /\ poller' = [poller EXCEPT !.at = x, !.torn = FALSE]
    BY Codes, Zenon DEF PollerGet
  <1>3. /\ poller = [at |-> poller.at, arg |-> poller.arg,
                     lapsed |-> poller.lapsed, torn |-> poller.torn]
        /\ poller.arg \in Entries
    BY <1>1, PolledFacts
  <1>4. poller' = [at |-> x, arg |-> poller.arg, lapsed |-> poller.lapsed, torn |-> FALSE]
    BY <1>2, <1>3, Zenon
  <1>5. /\ poller'.at = x /\ poller'.arg = poller.arg /\ poller'.torn = FALSE
        /\ poller' = [at |-> poller'.at, arg |-> poller'.arg,
                      lapsed |-> poller'.lapsed, torn |-> poller'.torn]
    BY <1>4
  <1>6. PollerShape'
    BY <1>2, <1>3, <1>5 DEF PollerShape
  <1>7. poller'.at # "rest"
    BY <1>2, <1>5, Codes, Zenon
  <1> QED
    BY <1>1, <1>2, <1>5, <1>6, <1>7, PollerTurn DEF Stored

(* ... and compares it: a success means that the value was there, or that  *)
(* a write raced with the reading.                                         *)
LEMMA ServicePollerRead ==
    ASSUME ServiceInv, PollerRead
    PROVE  ServiceInv'
  <1>1. /\ poller.at = "read"
        /\ UNCHANGED <<up, table, queue, sock, out, holder, threads, crashes, scenario, history>>
    BY DEF PollerRead
  <1>2. PICK t \in Threads : /\ holder[poller.arg.c] = t /\ ItemOK(poller.arg.c, t)
                             /\ poller.arg.p = pack[t].p
    BY <1>1, PolledFacts
  <1>3. /\ poller = [at |-> poller.at, arg |-> poller.arg,
                     lapsed |-> poller.lapsed, torn |-> poller.torn]
        /\ poller.arg \in Entries /\ poller.torn \in BOOLEAN /\ Polled(poller.arg.c)
    BY <1>1, PolledFacts
  <1>4. PICK c0 : c0 = poller.arg.c
    BY Zenon
  <1>5. /\ poller.torn => seen[t].raced
        /\ ~poller.torn => table[pack[t].p.key] # Missing
        /\ HasValue(table, t) => seen[t].equal
    <2>1. ItemOK(c0, t) /\ Polled(c0)
      BY <1>2, <1>3, <1>4
    <2> QED
      BY <1>1, <2>1, Zenon DEF ItemOK
  <1>6. \/ /\ PollerReply(ZSC_REC_SUCC)
           /\ poller.torn \/ StrToZPack(table[pack[t].p.key]).val = pack[t].p.val
        \/ poller' = [poller EXCEPT !.at = ZSC_REC_SCCBPOLLTRY] /\ UNCHANGED in
    BY <1>2, Zenon DEF PollerRead
  <1>7. CASE /\ PollerReply(ZSC_REC_SUCC)
             /\ poller.torn \/ StrToZPack(table[pack[t].p.key]).val = pack[t].p.val
    <2>1. seen[t].equal \/ seen[t].raced
      BY <1>5, <1>7 DEF HasValue
    <2> QED
      BY <1>1, <1>2, <1>7, <2>1, PollerAnswers
  <1>8. CASE poller' = [poller EXCEPT !.at = ZSC_REC_SCCBPOLLTRY] /\ UNCHANGED in
    <2>1. poller' = [at |-> ZSC_REC_SCCBPOLLTRY, arg |-> poller.arg,
                     lapsed |-> poller.lapsed, torn |-> poller.torn]
      BY <1>3, <1>8
    <2>2. /\ poller'.at = ZSC_REC_SCCBPOLLTRY /\ poller'.arg = poller.arg
          /\ poller'.torn = poller.torn
          /\ poller' = [at |-> poller'.at, arg |-> poller'.arg,
                        lapsed |-> poller'.lapsed, torn |-> poller'.torn]
      BY <2>1
    <2>3. PollerShape'
      BY <1>3, <2>2 DEF PollerShape
    <2>4. poller'.at \notin {"rest", "read"}
      BY <2>2, Codes, Zenon
    <2> QED
      BY <1>1, <1>8, <2>2, <2>3, <2>4, PollerTurn DEF net
  <1> QED
    BY <1>6, <1>7, <1>8

(* The wait between two polls, and the end of the lease. *)
LEMMA ServicePollerSleep ==
    ASSUME ServiceInv, PollerSleep
    PROVE  ServiceInv'
  <1>1. /\ poller.at \in {ZSC_REC_SCCBPOLLTRY, ZSC_REC_NONEXISTKEY}
        /\ UNCHANGED <<up, table, queue, sock, out, holder, threads, crashes, scenario, history>>
    BY DEF PollerSleep
  <1>2. poller.at # "rest" /\ poller.at # ZSC_REC_SUCC
    BY <1>1, Codes, Zenon
  <1>3. /\ poller = [at |-> poller.at, arg |-> poller.arg,
                     lapsed |-> poller.lapsed, torn |-> poller.torn]
        /\ poller.arg \in Entries /\ poller.torn \in BOOLEAN
    BY <1>2, PolledFacts
  <1>4. \/ PollerReply(poller.at)
        \/ \E l : poller' = [poller EXCEPT !.at = "get", !.lapsed = l] /\ UNCHANGED in
    BY Zenon DEF PollerSleep
  <1>5. CASE PollerReply(poller.at)
    <2>1. PICK t \in Threads : holder[poller.arg.c] = t
      BY <1>2, PolledFacts
    <2> QED
      BY <1>1, <1>2, <1>5, <2>1, PollerAnswers, Zenon
  <1>6. CASE \E l : poller' = [poller EXCEPT !.at = "get", !.lapsed = l] /\ UNCHANGED in
    <2>1. PICK l : poller' = [poller EXCEPT !.at = "get", !.lapsed = l] /\ UNCHANGED in
      BY <1>6, Zenon
    <2>2. poller' = [at |-> "get", arg |-> poller.arg, lapsed |-> l, torn |-> poller.torn]
      BY <1>3, <2>1, Zenon
    <2>3. /\ poller'.at = "get" /\ poller'.arg = poller.arg
          /\ poller'.torn = poller.torn
          /\ poller' = [at |-> poller'.at, arg |-> poller'.arg,
                        lapsed |-> poller'.lapsed, torn |-> poller'.torn]
      BY <2>2
    <2>4. PollerShape'
      BY <1>3, <2>3 DEF PollerShape
    <2> QED
      BY <1>1, <1>2, <2>1, <2>3, <2>4, PollerTurn DEF net
  <1> QED
    BY <1>4, <1>5, <1>6, Zenon

-----------------------------------------------------------------------------
(* The server dies: what it held is lost, and no connection is left on     *)
(* which it could be asked for.  Answers under way still arrive.           *)
LEMMA ServiceCrash ==
    ASSUME ServiceInv, Crash
    PROVE  ServiceInv'
  <1>1. /\ up' = FALSE /\ table' = [k \in Keys |-> Missing] /\ queue' = <<>>
        /\ poller' = Resting /\ out' = [c \in Clients |-> <<>>]
        /\ abs' = [k \in Keys |-> <<>>]
        /\ UNCHANGED <<in, holder, threads, scenario, want, seen>>
        /\ sock' = [c \in Clients |-> IF sock[c] # "ok" THEN sock[c]
                                      ELSE IF out[c] # <<>> THEN "reset" ELSE "closed"]
    BY DEF Crash
  <1>2. Shapes'
    <2>1. sock' \in [Clients -> {"none", "ok", "closed", "reset"}]
      BY <1>1 DEF ServiceInv, Shapes
    <2>2. queue' \in Seq(Entries)
      <3>1. queue' = <<>>
        BY <1>1, Zenon
      <3> QED
        BY <3>1
    <2>4. up' \in BOOLEAN
      BY <1>1, Zenon
    <2>3. DOMAIN table' = Keys /\ DOMAIN abs' = Keys /\ DOMAIN out' = Clients
      BY <1>1
    <2> QED
      BY <1>1, <2>1, <2>2, <2>3, <2>4, Zenon DEF ServiceInv, Shapes, threads
  <1>3. PollerShape'
    BY <1>1 DEF PollerShape
  <1>4. Mutex'
    BY <1>1, Zenon DEF ServiceInv, Mutex, threads
  <1>5. Calling'
    <2>1. \A c \in Clients : sock[c] # "none" => sock'[c] # "none"
      BY <1>1
    <2> QED
      BY <1>1, <2>1, ServiceAssumption, Zenon DEF ServiceInv, Calling, Active, threads
  <1>6. Links'
    <2> SUFFICES ASSUME NEW c \in Clients PROVE Link(c)'
      BY DEF Links
    <2>1. Link(c)
      BY Zenon DEF ServiceInv, Links
    <2>2. ~Asked(c)' /\ ~Polled(c)' /\ (Replied(c)' <=> Replied(c))
      BY <1>1 DEF Asked, Polled, Replied, Resting
    <2>3. ~Queued(c)' /\ Once(queue, c)'
      <3>1. DOMAIN queue' = {}
        BY <1>1
      <3> QED
        BY <3>1, Zenon DEF Queued, InQueue, Once
    <2>4. CASE ~Replied(c)
      BY <2>2, <2>3, <2>4, LinkNone, Zenon DEF Pending
    <2>5. CASE Replied(c)
      <3>1. PICK h : h = holder[c]
        OBVIOUS
      <3>2. h # None /\ pc[h] = "recv" /\ ItemOK(c, h)
        BY <2>1, <2>5, <3>1, Zenon DEF Link, Pending
      <3>3. in[c] = <<in[c][1]>> /\ Fine(h, in[c][1])
        BY <2>5, <3>2, Zenon DEF ItemOK
      <3>4. Fine(h, in[c][1])' <=> Fine(h, in[c][1])
        BY <1>1, Zenon DEF Fine, threads
      <3>5. ItemOK(c, h)'
        BY <1>1, <2>2, <2>3, <3>3, <3>4, Zenon DEF ItemOK
      <3>6. ItemOK(c, holder[c])'
        BY <1>1, <3>1, <3>5
      <3> QED
        BY <1>1, <2>2, <2>3, <3>1, <3>2, <3>6, Zenon DEF Link, OneItem, threads
    <2> QED
      BY <2>4, <2>5
  <1>7. Tolds'
    BY <1>1, ToldStill DEF ServiceInv, Tolds, threads
  <1> QED
    BY <1>2, <1>3, <1>4, <1>5, <1>6, <1>7 DEF ServiceInv

(* Nothing of what the invariant is about changes. *)
LEMMA ServiceSame ==
    ASSUME ServiceInv, up' \in BOOLEAN,
           UNCHANGED <<table, queue, poller, net, holder, threads, crashes, scenario, history>>
    PROVE  ServiceInv'
  <1>1. Shapes'
    BY DEF ServiceInv, Shapes, net, threads, history
  <1>2. PollerShape'
    BY DEF ServiceInv, PollerShape
  <1>3. Mutex'
    BY Zenon DEF ServiceInv, Mutex, threads
  <1>4. Calling'
    BY Zenon DEF ServiceInv, Calling, Active, net, threads, history
  <1>5. Links'
    <2> SUFFICES ASSUME NEW c \in Clients PROVE Link(c)'
      BY DEF Links
    <2>1. Link(c)
      BY Zenon DEF ServiceInv, Links
    <2>2. Pending(c) => pc'[holder[c]] = "recv"
      BY <2>1, Zenon DEF Link, threads
    <2> QED
      BY <2>1, <2>2, LinkStill, Zenon DEF net, threads, history
  <1>6. Tolds'
    BY ToldStill, Zenon DEF ServiceInv, Tolds, threads, history
  <1> QED
    BY <1>1, <1>2, <1>3, <1>4, <1>5, <1>6, Zenon DEF ServiceInv

(* Every step of threads, server and poller keeps the invariant. *)
LEMMA ServiceNext == ServiceInv /\ [Next]_vars => ServiceInv'
  <1> SUFFICES ASSUME ServiceInv, [Next]_vars PROVE ServiceInv'
    OBVIOUS
  <1>1. ASSUME NEW t \in Threads, NEW r \in scenario.requests, Call(t, r) PROVE ServiceInv'
    BY <1>1, ServiceCall
  <1>2. ASSUME NEW t \in Threads, ThreadStep(t) PROVE ServiceInv'
    BY <1>2, ServiceGetSock, ServiceLock, ServiceSend, ServiceRecv DEF ThreadStep
  <1>3. ASSUME NEW c \in Clients, ServerStep(c) PROVE ServiceInv'
    BY <1>3, ServiceHandle, ServiceCallback DEF ServerStep
  <1>4. CASE PollerStep
    BY <1>4, ServicePop, ServicePollerGet, ServicePollerRead, ServicePollerSleep DEF PollerStep
  <1>5. CASE Crash
    BY <1>5, ServiceCrash
  <1>6. CASE Restart
    <2>1. /\ up' \in BOOLEAN
          /\ UNCHANGED <<table, queue, poller, net, holder, threads, crashes, scenario, history>>
      BY <1>6, Zenon DEF Restart
    <2> QED
      BY <2>1, ServiceSame
  <1>7. CASE UNCHANGED vars
    <2>1. /\ up' \in BOOLEAN
          /\ UNCHANGED <<table, queue, poller, net, holder, threads, crashes, scenario, history>>
      BY <1>7 DEF vars, server, ServiceInv, Shapes
    <2> QED
      BY <2>1, ServiceSame
  <1> QED
    BY <1>1, <1>2, <1>3, <1>4, <1>5, <1>6, <1>7 DEF Next

(* The invariant holds in every reachable state. *)
LEMMA ServiceInvHolds == Spec => []ServiceInv
  <1> QED
    BY ServiceInit, ServiceNext, PTL DEF Spec

(* The invariant gives the properties of what callers are told. *)
LEMMA ToldMeans ==
    ServiceInv => SuccessIsApplied /\ CallbackUnlessRaced
  <1> SUFFICES ASSUME ServiceInv, NEW t \in Threads
               PROVE  /\ seen[t].applied <= 1
                      /\ got[t] # None /\ got[t].answer.rc = ZSC_REC_SUCC
                           /\ pack[t].r.op # "callback" => seen[t].applied = 1
                      /\ Answered(t) /\ pack[t].r.op = "callback"
                           /\ got[t].answer.rc = ZSC_REC_SUCC
                           => seen[t].equal \/ seen[t].raced
    BY DEF SuccessIsApplied, CallbackUnlessRaced
  <1>1. Told(t)
    BY DEF ServiceInv, Tolds
  <1> QED
    BY <1>1 DEF Told, Fine, Answered

(* For any clients, calls and crashes: a write is applied at most once, and *)
(* a call that HTWorker's operations answered with ZSC_REC_SUCC has been   *)
(* applied; the silence of a dead server is never taken for a success.     *)
THEOREM SuccessCorrect == Spec => []SuccessIsApplied
  <1> QED
    BY ServiceInvHolds, ToldMeans, PTL

(* For any clients, calls and crashes: the poller's success means that the *)
(* key had the expected value while the caller waited, or that a write hit *)
(* the record between PMAP's get and the comparison.                       *)
THEOREM CallbackCorrect == Spec => []CallbackUnlessRaced
  <1> QED
    BY ServiceInvHolds, ToldMeans, PTL

-----------------------------------------------------------------------------
(* The store answers as a map. *)

(* An empty value is stored as a mark, beside a flag that compare_swap      *)
(* leaves alone.  No call stores the one or the other.                     *)
Blank == {Empty, NullVal}

NothingBlank ==
    \A x \in Scenarios : \A r \in x.requests :
        (r.op = "insert" => r.val \notin Blank) /\ (r.op = "cas" => r.new \notin Blank)

(* Calls for which HTWorker behaves like a map: no append, whose binary    *)
(* form a lookup does not read, no compare_swap to an empty value, and none *)
(* from an empty value where one may be stored.  The calls of MATRIX are   *)
(* such: a scheduler that counts tasks before "num tasks recv" is inserted *)
(* expects an empty value, but none is stored.                             *)
PlainRequest(r) ==
    /\ r.op # "append"
    /\ r.op = "cas" => r.new # Empty /\ (NothingBlank \/ r.val \notin Blank)

PlainCalls == \A x \in Scenarios : \A r \in x.requests : PlainRequest(r)

(* A record of the store, and what a map holds for its key. *)
Record(v)  == [text |-> TRUE, val |-> v, valnull |-> FALSE, bin |-> FALSE]
NullRecord == [text |-> TRUE, val |-> NullVal, valnull |-> TRUE, bin |-> FALSE]

Same(rec, val) ==
    \/ rec = Missing /\ val = <<>>
    \/ \E v : rec = Record(v) /\ val = <<v>>
    \/ rec = NullRecord /\ val = <<Empty>>

(* An answer is the one the map gave. *)
Agrees(t, a) == pack[t].r.op # "callback" => want[t] = [a EXCEPT !.val = <<@>>]

(* The answer under way to process c, and the one that thread t got. *)
ReplyAgrees(c)  == Replied(c) => Agrees(holder[c], in[c][1])
AnswerAgrees(t) == Answered(t) => Agrees(t, got[t].answer)

MapInv ==
    /\ \A k \in Keys : Same(table[k], abs[k])
    /\ \A c \in Clients : ReplyAgrees(c)
    /\ \A t \in Threads : AnswerAgrees(t)

(* What the map holds where nothing blank is stored. *)
Filled(m) == NothingBlank => \A k \in Keys : m[k] \notin {<<Empty>>, <<NullVal>>}

(* The empty store is the empty map. *)
LEMMA MapInit == Init => MapInv
  <1> SUFFICES ASSUME Init PROVE MapInv
    OBVIOUS
  <1>1. \A k \in Keys : Same(table[k], abs[k])
    BY DEF Init, Same
  <1>2. \A c \in Clients : ~Replied(c)
    BY DEF Init, Replied
  <1>3. \A t \in Threads : ~Answered(t)
    BY DEF Init, Answered
  <1> QED
    BY <1>1, <1>2, <1>3 DEF MapInv, ReplyAgrees, AnswerAgrees

(* What a record reads as. *)
LEMMA RecordReads ==
    ASSUME NEW v, NEW rec, rec = Record(v), NEW z, z = StrToZPack(rec)
    PROVE  rec # Missing /\ z.val = v /\ z.valnull = FALSE /\ ExtractValue(z) = v
  <1>1. rec.text = TRUE /\ Missing.text = FALSE
    BY DEF Record, Missing
  <1>2. rec.val = v /\ rec.valnull = FALSE
    BY Zenon DEF Record
  <1>3. z = [val |-> rec.val, valnull |-> rec.valnull]
    BY <1>1, Zenon DEF StrToZPack
  <1>4. z.val = rec.val /\ z.valnull = rec.valnull
    BY <1>3
  <1>5. z.val = v /\ z.valnull = FALSE
    BY <1>2, <1>4
  <1>6. rec # Missing
    BY <1>1
  <1> QED
    BY <1>5, <1>6 DEF ExtractValue

(* What the record of an empty value reads as: its mark, and nothing. *)
LEMMA NullReads ==
    ASSUME NEW z, z = StrToZPack(NullRecord)
    PROVE  NullRecord # Missing /\ z.val = NullVal /\ ExtractValue(z) = Empty
  <1>1. NullRecord.text = TRUE /\ Missing.text = FALSE
    BY DEF NullRecord, Missing
  <1>2. NullRecord.val = NullVal /\ NullRecord.valnull = TRUE
    BY Zenon DEF NullRecord
  <1>3. z = [val |-> NullRecord.val, valnull |-> NullRecord.valnull]
    BY <1>1 DEF StrToZPack
  <1>4. z.val = NullRecord.val /\ z.valnull = NullRecord.valnull
    BY <1>3
  <1>5. z.val = NullVal /\ z.valnull = TRUE
    BY <1>2, <1>4
  <1>6. NullRecord # Missing
    BY <1>1
  <1> QED
    BY <1>5, <1>6 DEF ExtractValue

(* A key that is not stored reads as nothing. *)
LEMMA MissingReads ==
    ASSUME NEW z, z = StrToZPack(Missing)
    PROVE  z.val = Empty
  <1>1. z = [val |-> Empty, valnull |-> FALSE]
    BY DEF StrToZPack, Missing
  <1> QED
    BY <1>1

(* lookup_shared. *)
LEMMA LookupFinds ==
    ASSUME NEW tab, NEW k
    PROVE  /\ \A v : tab[k] = Record(v) => LookupShared(tab, k) = Answer(ZSC_REC_SUCC, v)
           /\ tab[k] = NullRecord => LookupShared(tab, k) = Answer(ZSC_REC_SUCC, Empty)
  <1>1. ASSUME NEW v, tab[k] = Record(v)
        PROVE  LookupShared(tab, k) = Answer(ZSC_REC_SUCC, v)
    <2>1. PICK z : z = StrToZPack(tab[k])
      OBVIOUS
    <2>2. ExtractValue(z) = v
      BY <1>1, <2>1, RecordReads, Zenon
    <2>3. tab[k] # Missing
      BY <1>1, RecordReads, Zenon
    <2> QED
      BY <2>1, <2>2, <2>3 DEF LookupShared
  <1>2. ASSUME tab[k] = NullRecord
        PROVE  LookupShared(tab, k) = Answer(ZSC_REC_SUCC, Empty)
    <2>1. PICK z : z = StrToZPack(tab[k])
      OBVIOUS
    <2>2. ExtractValue(z) = Empty
      BY <1>2, <2>1, NullReads
    <2>3. tab[k] # Missing
      BY <1>2, NullReads, Zenon
    <2> QED
      BY <2>1, <2>2, <2>3 DEF LookupShared
  <1> QED
    BY <1>1, <1>2

(* What a request carries for its values. *)
LEMMA ZPackVal ==
    ASSUME NEW t, NEW r
    PROVE  /\ ZPack(t, r).val = (IF r.val = Empty THEN NullVal ELSE r.val)
           /\ ZPack(t, r).newval = (IF r.new = Empty THEN NullNewval ELSE r.new)
  BY Zenon DEF ZPack

(* An empty value is flagged. *)
LEMMA ZPackNull ==
    ASSUME NEW t, NEW r
    PROVE  ZPack(t, r).valnull = (r.val = Empty)
  BY DEF ZPack

(* An answer as the map writes it. *)
LEMMA AnswerWrap ==
    ASSUME NEW rc, NEW v
    PROVE  [Answer(rc, v) EXCEPT !.val = <<@>>] = Answer(rc, <<v>>)
  BY DEF Answer

(* compare_swap_internal. *)
LEMMA SwapAsMap ==
    ASSUME DOMAIN table = Keys, DOMAIN abs = Keys, NEW t, NEW r, NEW z, z = ZPack(t, r),
           r.op = "cas", r.val \notin Blank, r.new # Empty,
           r.key \in Keys, Same(table[r.key], abs[r.key])
    PROVE  /\ Matches(z) <=> abs[r.key] = <<r.val>>
           /\ Matches(z) => Table(z) = [table EXCEPT ![r.key] = Record(r.new)]
           /\ ~Matches(z) => Table(z) = table
           /\ [Result(z) EXCEPT !.val = <<@>>] = MapAnswer(r)
  <1>1. z.op = "cas" /\ z.key = r.key /\ z.val = r.val /\ z.newval = r.new
    <2>1. r.val # Empty /\ r.new # Empty
      BY Zenon DEF Blank
    <2>2. z.val = r.val /\ z.newval = r.new
      BY <2>1, ZPackVal
    <2>3. z.op = "cas" /\ z.key = r.key
      BY ZPackFields
    <2> QED
      BY <2>2, <2>3
  <1>2. r.val # Empty /\ r.val # NullVal
    BY DEF Blank
  <1>3. PICK rec, val : rec = table[r.key] /\ val = abs[r.key]
    OBVIOUS
  <1>4. Same(rec, val)
    BY <1>3, Zenon
  <1>5. Matches(z) <=> StrToZPack(rec).val = r.val
    BY <1>1, <1>3 DEF Matches
  <1>6. Table(z) = CompareSwapInternal(z)
    BY <1>1 DEF Table
  <1>7. ~Matches(z) => CompareSwapInternal(z) = table
    BY Zenon DEF CompareSwapInternal
  <1>8. PICK l : l = LookupShared(CompareSwapInternal(z), r.key).val
    OBVIOUS
  <1>9. Result(z) = Answer(IF Matches(z) THEN ZSC_REC_SUCC ELSE ZSC_REC_SRVEXP, l)
    BY <1>1, <1>8 DEF Result
  <1>10. MapAnswer(r) = IF val = <<r.val>> THEN Answer(ZSC_REC_SUCC, <<r.new>>)
                        ELSE Answer(ZSC_REC_SRVEXP, Joined(r.key))
    BY <1>3, Zenon DEF MapAnswer
  <1>11. ASSUME rec = Missing, val = <<>>
         PROVE  /\ ~Matches(z) /\ val # <<r.val>>
                /\ l = Empty /\ Joined(r.key) = <<Empty>>
    <2>1. ~Matches(z)
      <3>1. PICK y : y = StrToZPack(Missing)
        BY Zenon
      <3>2. y.val = Empty
        BY <3>1, MissingReads
      <3> QED
        BY <1>2, <1>5, <1>11, <3>1, <3>2, Zenon
    <2>2. val # <<r.val>>
      BY <1>11, Single, Zenon
    <2>3. l = Empty
      <3>1. PICK a : a = LookupShared(table, r.key)
        BY Zenon
      <3>2. a = Answer(ZSC_REC_NONEXISTKEY, Empty)
        BY <1>3, <1>11, <3>1, Zenon DEF LookupShared
      <3>3. a.val = Empty
        BY <3>2, AnswerVal, Zenon
      <3> QED
        BY <1>7, <1>8, <2>1, <3>1, <3>3, Zenon
    <2>4. Joined(r.key) = <<Empty>>
      BY <1>3, <1>11, Zenon DEF Joined
    <2> QED
      BY <2>1, <2>2, <2>3, <2>4, Zenon
  <1>12. ASSUME rec = NullRecord, val = <<Empty>>
         PROVE  /\ ~Matches(z) /\ val # <<r.val>>
                /\ l = Empty /\ Joined(r.key) = <<Empty>>
    <2>1. ~Matches(z)
      <3>1. PICK y : y = StrToZPack(NullRecord)
        BY Zenon
      <3>2. y.val = NullVal
        BY <3>1, NullReads, Zenon
      <3> QED
        BY <1>2, <1>5, <1>12, <3>1, <3>2
    <2>2. val # <<r.val>>
      BY <1>2, <1>12, Single, Zenon
    <2>3. l = Empty
      <3>1. PICK a : a = LookupShared(table, r.key)
        OBVIOUS
      <3>2. a = Answer(ZSC_REC_SUCC, Empty)
        BY <1>3, <1>12, <3>1, LookupFinds, Zenon
      <3>3. a.val = Empty
        BY <3>2, AnswerVal
      <3> QED
        BY <1>7, <1>8, <2>1, <3>1, <3>3
    <2>4. Joined(r.key) = <<Empty>>
      BY <1>3, <1>12, Single, Zenon DEF Joined
    <2> QED
      BY <2>1, <2>2, <2>3, <2>4
  <1>13. ASSUME NEW v, rec = Record(v), val = <<v>>, v # r.val
         PROVE  /\ ~Matches(z) /\ val # <<r.val>>
                /\ l = v /\ Joined(r.key) = <<v>>
    <2>1. ~Matches(z)
      <3>1. PICK y : y = StrToZPack(Record(v))
        BY Zenon
      <3>2. y.val = v
        BY <3>1, RecordReads, Zenon
      <3> QED
        BY <1>5, <1>13, <3>1, <3>2, Zenon
    <2>2. val # <<r.val>>
      BY <1>13, Single
    <2>3. l = v
      <3>1. PICK a : a = LookupShared(table, r.key)
        OBVIOUS
      <3>2. a = Answer(ZSC_REC_SUCC, v)
        BY <1>3, <1>13, <3>1, LookupFinds, Zenon
      <3>3. a.val = v
        BY <3>2, AnswerVal, Zenon
      <3> QED
        BY <1>7, <1>8, <2>1, <3>1, <3>3
    <2>4. Joined(r.key) = <<v>>
      BY <1>3, <1>13, Single DEF Joined
    <2> QED
      BY <2>1, <2>2, <2>3, <2>4, Zenon
  <1>14. ASSUME rec = Record(r.val), val = <<r.val>>
         PROVE  /\ Matches(z) /\ l = r.new
                /\ Table(z) = [table EXCEPT ![r.key] = Record(r.new)]
    <2>1. PICK s : s = StrToZPack(rec)
      OBVIOUS
    <2>2. s.val = r.val /\ s.valnull = FALSE
      <3>1. PICK v : v = r.val
        OBVIOUS
      <3>2. rec = Record(v)
        BY <1>14, <3>1, Zenon
      <3>3. s.val = v /\ s.valnull = FALSE
        BY <2>1, <3>2, RecordReads, Zenon
      <3> QED
        BY <3>1, <3>3
    <2>3. StrToZPack(table[z.key]) = s
      BY <1>1, <1>3, <2>1
    <2>4. Matches(z)
      BY <1>1, <2>2, <2>3 DEF Matches
    <2>5. PICK n : n = s.valnull
      BY Zenon
    <2>6. CompareSwapInternal(z) = [table EXCEPT ![r.key] = Record(r.new)]
      <3>1. PICK y : y = [z EXCEPT !.val = z.newval, !.valnull = n]
        OBVIOUS
      <3>2. CompareSwapInternal(z) = InsertShared(y)
        BY <2>3, <2>4, <2>5, <3>1 DEF CompareSwapInternal
      <3>3. PICK w : w = z.newval
        OBVIOUS
      <3>4. y.key = z.key /\ y.val = w /\ y.valnull = n
        <4>1. y = [z EXCEPT !.val = w, !.valnull = n]
          BY <3>1, <3>3
        <4>2. PICK o, k, e, b, v0, n0, w0 :
                 z = [op |-> o, key |-> k, lease |-> e, by |-> b,
                      val |-> v0, valnull |-> n0, newval |-> w0]
          BY Zenon DEF ZPack
        <4> QED
          BY <4>1, <4>2
      <3>5. y.key = r.key /\ y.val = r.new /\ y.valnull = FALSE
        BY <1>1, <2>2, <2>5, <3>3, <3>4
      <3> QED
        BY <3>2, <3>5, Zenon DEF InsertShared, Record
    <2>7. l = r.new
      <3>1. PICK tab : tab = CompareSwapInternal(z)
        BY Zenon
      <3>2. tab[r.key] = Record(r.new)
        BY <2>6, <3>1
      <3>3. l = r.new
        <4>1. PICK a : a = LookupShared(tab, r.key)
          BY Zenon
        <4>2. a = Answer(ZSC_REC_SUCC, r.new)
          BY <3>2, <4>1, LookupFinds, Zenon
        <4>3. a.val = r.new
          BY <4>2, AnswerVal
        <4> QED
          BY <1>8, <3>1, <4>1, <4>3
      <3> QED
        BY <3>3
    <2> QED
      BY <1>6, <2>4, <2>6, <2>7, Zenon
  <1>15. CASE val = <<r.val>> /\ rec = Record(r.val)
    <2>1. Result(z) = Answer(ZSC_REC_SUCC, r.new) /\ MapAnswer(r) = Answer(ZSC_REC_SUCC, <<r.new>>)
      BY <1>9, <1>10, <1>14, <1>15, Zenon
    <2>2. [Result(z) EXCEPT !.val = <<@>>] = MapAnswer(r)
      BY <2>1, AnswerWrap
    <2> QED
      BY <1>3, <1>14, <1>15, <2>2, Zenon
  <1>16. CASE ~(val = <<r.val>> /\ rec = Record(r.val))
    <2>1. /\ ~Matches(z) /\ val # <<r.val>>
          /\ Joined(r.key) = <<l>>
      BY <1>4, <1>11, <1>12, <1>13, <1>16, Zenon DEF Same
    <2> QED
      <3>1. Result(z) = Answer(ZSC_REC_SRVEXP, l) /\ MapAnswer(r) = Answer(ZSC_REC_SRVEXP, <<l>>)
        BY <1>9, <1>10, <2>1, Zenon
      <3>2. [Result(z) EXCEPT !.val = <<@>>] = MapAnswer(r)
        BY <3>1, AnswerWrap, Zenon
      <3> QED
        BY <1>3, <1>6, <1>7, <2>1, <3>2, Zenon
  <1> QED
    BY <1>15, <1>16, Zenon

(* compare_swap_internal, when an empty value is expected and none is      *)
(* stored.                                                                 *)
LEMMA SwapBlank ==
    ASSUME NEW t, NEW r, NEW z, z = ZPack(t, r), r.op = "cas", r.val \in Blank,
           Same(table[r.key], abs[r.key]), abs[r.key] \notin {<<Empty>>, <<NullVal>>}
    PROVE  /\ Table(z) = table /\ abs[r.key] # <<r.val>>
           /\ [Result(z) EXCEPT !.val = <<@>>] = MapAnswer(r)
  <1>1. z.op = "cas" /\ z.key = r.key /\ z.val = NullVal
    <2>1. z.val = NullVal
      BY ZPackVal DEF Blank
    <2>2. z.op = "cas" /\ z.key = r.key
      BY ZPackFields
    <2> QED
      BY <2>1, <2>2, Zenon
  <1>2. PICK rec, val : rec = table[r.key] /\ val = abs[r.key]
    OBVIOUS
  <1>3. Same(rec, val) /\ val # <<Empty>> /\ val # <<NullVal>>
    BY <1>2
  <1>4. val # <<r.val>>
    BY <1>3, Zenon DEF Blank
  <1>5. Matches(z) <=> StrToZPack(rec).val = NullVal
    BY <1>1, <1>2, Zenon DEF Matches
  <1>6. PICK l : l = LookupShared(table, r.key).val
    BY Zenon
  <1>7. ASSUME rec = Missing, val = <<>>
        PROVE  ~Matches(z) /\ Joined(r.key) = <<l>>
    <2>1. PICK y : y = StrToZPack(Missing)
      OBVIOUS
    <2>2. y.val = Empty
      BY <2>1, MissingReads
    <2>3. Empty # NullVal
      BY Zenon DEF Empty, NullVal
    <2>4. LookupShared(table, r.key) = Answer(ZSC_REC_NONEXISTKEY, Empty)
      BY <1>2, <1>7, Zenon DEF LookupShared
    <2>5. l = Empty
      <3>1. PICK a : a = LookupShared(table, r.key)
        BY Zenon
      <3>2. a.val = Empty
        BY <2>4, <3>1, AnswerVal
      <3> QED
        BY <1>6, <3>1, <3>2, Zenon
    <2>6. Joined(r.key) = <<Empty>>
      BY <1>2, <1>7, Zenon DEF Joined
    <2> QED
      BY <1>5, <1>7, <2>1, <2>2, <2>3, <2>5, <2>6
  <1>8. ASSUME NEW v, rec = Record(v), val = <<v>>
        PROVE  ~Matches(z) /\ Joined(r.key) = <<l>>
    <2>1. PICK y : y = StrToZPack(Record(v))
      BY Zenon
    <2>2. y.val = v
      BY <2>1, RecordReads, Zenon
    <2>3. v # NullVal
      BY <1>3, <1>8
    <2>4. LookupShared(table, r.key) = Answer(ZSC_REC_SUCC, v)
      BY <1>2, <1>8, LookupFinds, Zenon
    <2>5. l = v
      <3>1. PICK a : a = LookupShared(table, r.key)
        OBVIOUS
      <3>2. a.val = v
        BY <2>4, <3>1, AnswerVal, Zenon
      <3> QED
        BY <1>6, <3>1, <3>2, Zenon
    <2>6. Joined(r.key) = <<v>>
      BY <1>2, <1>8, Single DEF Joined
    <2> QED
      BY <1>5, <1>8, <2>1, <2>2, <2>3, <2>5, <2>6, Zenon
  <1>9. ~Matches(z) /\ Joined(r.key) = <<l>>
    BY <1>3, <1>7, <1>8 DEF Same
  <1>10. Table(z) = table /\ CompareSwapInternal(z) = table
    BY <1>1, <1>9 DEF Table, CompareSwapInternal
  <1>11. Result(z) = Answer(ZSC_REC_SRVEXP, l)
    BY <1>1, <1>6, <1>9, <1>10 DEF Result
  <1>12. MapAnswer(r) = Answer(ZSC_REC_SRVEXP, <<l>>)
    BY <1>2, <1>4, <1>9 DEF MapAnswer
  <1> QED
    BY <1>2, <1>4, <1>10, <1>11, <1>12, AnswerWrap, Zenon

(* A record is stored where the map holds something. *)
LEMMA SameStored ==
    ASSUME NEW rec, NEW val, Same(rec, val)
    PROVE  rec # Missing <=> val # <<>>
  <1>1. NullRecord # Missing
    <2>1. PICK z : z = StrToZPack(NullRecord)
      OBVIOUS
    <2> QED
      BY <2>1, NullReads
  <1>2. \A v : Record(v) # Missing
    BY RecordReads, Zenon
  <1>3. \A v : <<v>> # <<>>
    BY Single
  <1> QED
    BY <1>1, <1>2, <1>3 DEF Same

(* The record that insert_shared stores stands for the value of the call. *)
LEMMA InsertStores ==
    ASSUME NEW t, NEW r, NEW z, z = ZPack(t, r),
           NEW e, e = [text |-> TRUE, val |-> z.val, valnull |-> z.valnull, bin |-> FALSE]
    PROVE  Same(e, <<r.val>>)
  <1>1. PICK v, n : v = z.val /\ n = z.valnull
    OBVIOUS
  <1>2. e = [text |-> TRUE, val |-> v, valnull |-> n, bin |-> FALSE]
    BY <1>1
  <1>3. CASE r.val = Empty
    <2>1. v = NullVal
      BY <1>1, <1>3, ZPackVal
    <2>2. n = TRUE
      BY <1>1, <1>3, ZPackNull, Zenon
    <2>3. e = NullRecord
      BY <1>2, <2>1, <2>2, Zenon DEF NullRecord
    <2> QED
      BY <1>3, <2>3, Zenon DEF Same
  <1>4. CASE r.val # Empty
    <2>1. v = r.val
      BY <1>1, <1>4, ZPackVal
    <2>2. n = FALSE
      BY <1>1, <1>4, ZPackNull, Zenon
    <2>3. e = Record(r.val)
      BY <1>2, <2>1, <2>2, Zenon DEF Record
    <2> QED
      BY <2>3 DEF Same
  <1> QED
    BY <1>3, <1>4

(* One key of the store and of the map changes alike. *)
LEMMA SameExcept ==
    ASSUME DOMAIN table = Keys, DOMAIN abs = Keys, \A k \in Keys : Same(table[k], abs[k]),
           NEW x \in Keys, NEW e, NEW v, Same(e, v), NEW tab, NEW map,
           tab = [table EXCEPT ![x] = e], map = [abs EXCEPT ![x] = v]
    PROVE  \A k \in Keys : Same(tab[k], map[k])
  <1> TAKE k \in Keys
  <1>1. CASE k = x
    <2>1. tab[k] = e /\ map[k] = v
      BY <1>1
    <2> QED
      BY <2>1
  <1>2. CASE k # x
    <2>1. tab[k] = table[k] /\ map[k] = abs[k]
      BY <1>2
    <2> QED
      BY <2>1
  <1> QED
    BY <1>1, <1>2

(* HTWorker::run does to the store, and answers, what a map would. *)
LEMMA HandleAsMap ==
    ASSUME DOMAIN table = Keys, DOMAIN abs = Keys, NEW t, NEW r, NEW z, z = ZPack(t, r),
           PlainRequest(r), r.key \in Keys, \A k \in Keys : Same(table[k], abs[k]), Filled(abs)
    PROVE  /\ \A k \in Keys : Same(Table(z)[k], MapNext(r)[k])
           /\ MapAnswer(r) = [Result(z) EXCEPT !.val = <<@>>]
  <1>1. z.op = r.op /\ z.key = r.key
    BY ZPackFields
  <1>2. CASE r.op = "insert"
    <2>0. PICK e : e = [text |-> TRUE, val |-> z.val, valnull |-> z.valnull, bin |-> FALSE]
      BY Zenon
    <2>1. Same(e, <<r.val>>) /\ InsertShared(z) = [table EXCEPT ![r.key] = e]
      <3>1. Same(e, <<r.val>>)
        BY <2>0, InsertStores
      <3>2. InsertShared(z) = [table EXCEPT ![r.key] = e]
        BY <1>1, <2>0, Zenon DEF InsertShared
      <3> QED
        BY <3>1, <3>2
    <2>2. Table(z) = InsertShared(z) /\ MapNext(r) = [abs EXCEPT ![r.key] = <<r.val>>]
      BY <1>1, <1>2 DEF Table, MapNext
    <2>3. \A k \in Keys : Same(Table(z)[k], MapNext(r)[k])
      BY <2>1, <2>2, SameExcept
    <2>4. Result(z) = Answer(ZSC_REC_SUCC, Empty) /\ MapAnswer(r) = Answer(ZSC_REC_SUCC, <<Empty>>)
      BY <1>1, <1>2 DEF Result, MapAnswer
    <2> QED
      BY <2>3, <2>4, AnswerWrap, Zenon
  <1>3. CASE r.op = "remove"
    <2>1. Table(z) = [table EXCEPT ![r.key] = Missing] /\ MapNext(r) = [abs EXCEPT ![r.key] = <<>>]
      BY <1>1, <1>3 DEF Table, RemoveShared, MapNext
    <2>2. Same(Missing, <<>>)
      BY DEF Same
    <2>3. \A k \in Keys : Same(Table(z)[k], MapNext(r)[k])
      BY <2>1, <2>2, SameExcept
    <2>4. Stored(z.key) <=> abs[r.key] # <<>>
      BY <1>1, SameStored DEF Stored
    <2>5. PICK rc : rc = Found(Stored(z.key))
      BY Zenon
    <2>6. rc = Found(abs[r.key] # <<>>)
      BY <2>4, <2>5 DEF Found
    <2>7. Result(z) = Answer(rc, Empty) /\ MapAnswer(r) = Answer(rc, <<Empty>>)
      BY <1>1, <1>3, <2>5, <2>6 DEF Result, MapAnswer
    <2> QED
      BY <2>3, <2>7, AnswerWrap
  <1>4. CASE r.op = "lookup"
    <2>1. Table(z) = table /\ MapNext(r) = abs
      BY <1>1, <1>4 DEF Table, MapNext
    <2>2. Result(z) = LookupShared(table, r.key)
      BY <1>1, <1>4 DEF Result
    <2>3. MapAnswer(r) = Answer(Found(abs[r.key] # <<>>), Joined(r.key))
      BY <1>4 DEF MapAnswer
    <2>4. CASE table[r.key] = Missing /\ abs[r.key] = <<>>
      <3>1. Result(z) = Answer(ZSC_REC_NONEXISTKEY, Empty)
        BY <2>2, <2>4, Zenon DEF LookupShared
      <3>2. MapAnswer(r) = Answer(ZSC_REC_NONEXISTKEY, <<Empty>>)
        BY <2>3, <2>4 DEF Found, Joined
      <3> QED
        BY <2>1, <3>1, <3>2, AnswerWrap, Zenon
    <2>5. ASSUME NEW v, table[r.key] = Record(v), abs[r.key] = <<v>>
          PROVE  MapAnswer(r) = [Result(z) EXCEPT !.val = <<@>>]
      <3>1. Result(z) = Answer(ZSC_REC_SUCC, v)
        BY <2>2, <2>5, LookupFinds, Zenon
      <3>2. MapAnswer(r) = Answer(ZSC_REC_SUCC, <<v>>)
        BY <2>3, <2>5, Single, Zenon DEF Found, Joined
      <3> QED
        BY <3>1, <3>2, AnswerWrap, Zenon
    <2>6. CASE table[r.key] = NullRecord /\ abs[r.key] = <<Empty>>
      <3>1. Result(z) = Answer(ZSC_REC_SUCC, Empty)
        BY <2>2, <2>6, LookupFinds, Zenon
      <3>2. MapAnswer(r) = Answer(ZSC_REC_SUCC, <<Empty>>)
        BY <2>3, <2>6, Single DEF Found, Joined
      <3> QED
        BY <2>1, <3>1, <3>2, AnswerWrap
    <2>7. Same(table[r.key], abs[r.key])
      OBVIOUS
    <2> QED
      BY <2>1, <2>4, <2>5, <2>6, <2>7 DEF Same
  <1>5. CASE r.op = "cas" /\ r.val \in Blank
    <2>1. abs[r.key] \notin {<<Empty>>, <<NullVal>>}
      BY <1>5 DEF PlainRequest, Filled
    <2>2. /\ Table(z) = table /\ abs[r.key] # <<r.val>>
          /\ [Result(z) EXCEPT !.val = <<@>>] = MapAnswer(r)
      BY <1>5, <2>1, SwapBlank
    <2>3. MapNext(r) = abs
      BY <1>5, <2>2 DEF MapNext
    <2> QED
      BY <2>2, <2>3
  <1>6. CASE r.op = "cas" /\ r.val \notin Blank
    <2>0. r.new # Empty
      BY <1>6 DEF PlainRequest
    <2>1. /\ Matches(z) <=> abs[r.key] = <<r.val>>
          /\ Matches(z) => Table(z) = [table EXCEPT ![r.key] = Record(r.new)]
          /\ ~Matches(z) => Table(z) = table
          /\ [Result(z) EXCEPT !.val = <<@>>] = MapAnswer(r)
      BY <1>6, <2>0, SwapAsMap
    <2>2. CASE Matches(z)
      <3>1. MapNext(r) = [abs EXCEPT ![r.key] = <<r.new>>]
        BY <1>6, <2>1, <2>2 DEF MapNext
      <3>2. Same(Record(r.new), <<r.new>>)
        BY DEF Same
      <3>3. \A k \in Keys : Same(Table(z)[k], MapNext(r)[k])
        BY <2>1, <2>2, <3>1, <3>2, SameExcept
      <3> QED
        BY <2>1, <3>3
    <2>3. CASE ~Matches(z)
      <3>1. MapNext(r) = abs
        BY <1>6, <2>1, <2>3 DEF MapNext
      <3> QED
        BY <2>1, <2>3, <3>1
    <2> QED
      BY <2>2, <2>3
  <1>7. CASE r.op \notin {"insert", "append", "remove", "lookup", "cas"}
    <2>1. Table(z) = table /\ MapNext(r) = abs
      BY <1>1, <1>7 DEF Table, MapNext
    <2>2. Result(z) = Answer(ZSC_REC_SUCC, Empty) /\ MapAnswer(r) = Answer(ZSC_REC_SUCC, <<Empty>>)
      BY <1>1, <1>7 DEF Result, MapAnswer
    <2> QED
      BY <2>1, <2>2, AnswerWrap
  <1> QED
    BY <1>2, <1>3, <1>4, <1>5, <1>6, <1>7, Zenon DEF PlainRequest

(* A step that leaves an answer under way and its receiver alone. *)
LEMMA ReplyStill ==
    ASSUME NEW c, ReplyAgrees(c),
           Replied(c)' => /\ in'[c] = in[c] /\ holder'[c] = holder[c]
                          /\ pack'[holder[c]] = pack[holder[c]]
                          /\ want'[holder[c]] = want[holder[c]]
    PROVE  ReplyAgrees(c)'
  BY DEF ReplyAgrees, Replied, Agrees

(* A step that leaves what a thread got. *)
LEMMA AnswerStill ==
    ASSUME NEW t, AnswerAgrees(t),
           Answered(t)' => got'[t] = got[t] /\ pack'[t] = pack[t] /\ want'[t] = want[t]
    PROVE  AnswerAgrees(t)'
  BY DEF AnswerAgrees, Answered, Agrees

(* An answer that no server gave. *)
LEMMA Unanswered ==
    ASSUME NEW t, NEW a, got'[t] = [answer |-> a, answered |-> FALSE] \/ got'[t] = None
    PROVE  ~Answered(t)'
  <1>1. CASE got'[t] = None
    BY <1>1 DEF Answered
  <1>2. CASE got'[t] = [answer |-> a, answered |-> FALSE]
    <2>1. got'[t].answered = FALSE
      BY <1>2
    <2> QED
      BY <2>1 DEF Answered
  <1> QED
    BY <1>1, <1>2

(* Who waits for an answer under way. *)
LEMMA RepliedFacts ==
    ASSUME ServiceInv, NEW c \in Clients, Replied(c)
    PROVE  /\ holder[c] \in Threads /\ holder[c] # None /\ ProcOf[holder[c]] = c
           /\ pc[holder[c]] = "recv" /\ in[c] = <<in[c][1]>>
  <1>1. Link(c) /\ Pending(c)
    BY Zenon DEF ServiceInv, Links, Pending
  <1> QED
    BY <1>1, HolderFacts, Zenon DEF Link, ItemOK

(* A new call has no answer yet, and nobody waits for its thread. *)
LEMMA MapCall ==
    ASSUME ServiceInv, MapInv, NEW t \in Threads, NEW r, Call(t, r)
    PROVE  MapInv'
  <1>1. pc[t] = "idle"
    BY Zenon DEF Call
  <1>2. \A c \in Clients : holder[c] # t
    BY <1>1, ServiceAssumption, Zenon DEF ServiceInv, Mutex
  <1>3. table' = table /\ abs' = abs /\ in' = in /\ holder' = holder
    BY <1>2, ServiceAssumption, Zenon DEF Call, Return, Free, server, net
  <1>4. /\ pack' = [pack EXCEPT ![t] = [r |-> r, p |-> ZPack(t, r)]]
        /\ want' = [want EXCEPT ![t] = None]
        /\ \/ got' = [got EXCEPT ![t] = None]
           \/ got' = [got EXCEPT ![t] = [answer |-> Answer(ZSC_REC_EMPTYKEY, Empty), answered |-> FALSE]]
    BY Zenon DEF Call, Return
  <1>5. \A u \in Threads : u # t =>
            pack'[u] = pack[u] /\ want'[u] = want[u] /\ got'[u] = got[u]
    BY <1>4, Zenon DEF ServiceInv, Shapes
  <1>6. ~Answered(t)'
    <2>1. got'[t] \in {None, [answer |-> Answer(ZSC_REC_EMPTYKEY, Empty), answered |-> FALSE]}
      BY <1>4, Zenon DEF ServiceInv, Shapes
    <2> QED
      BY <2>1, Unanswered, Zenon
  <1>7. ASSUME NEW c \in Clients PROVE ReplyAgrees(c)'
    <2>1. Replied(c)' => Replied(c)
      BY <1>3, Zenon DEF Replied
    <2> QED
      BY <1>2, <1>3, <1>5, <2>1, RepliedFacts, ReplyStill, Zenon DEF MapInv
  <1>8. ASSUME NEW u \in Threads PROVE AnswerAgrees(u)'
    BY <1>5, <1>6, AnswerStill, Zenon DEF MapInv
  <1> QED
    BY <1>3, <1>7, <1>8, Zenon DEF MapInv

(* A step that neither writes to the store nor answers. *)
LEMMA MapSame ==
    ASSUME MapInv, UNCHANGED <<table, abs, in, holder, pack, want>>,
           \A t \in Threads : Answered(t)' => got'[t] = got[t]
    PROVE  MapInv'
  <1>1. ASSUME NEW c \in Clients PROVE ReplyAgrees(c)'
    BY ReplyStill, Zenon DEF MapInv
  <1>2. ASSUME NEW t \in Threads PROVE AnswerAgrees(t)'
    BY AnswerStill, Zenon DEF MapInv
  <1> QED
    BY <1>1, <1>2, Zenon DEF MapInv

(* A connection that is refused yields no answer. *)
LEMMA MapGetSock ==
    ASSUME ServiceInv, MapInv, NEW t \in Threads, GetSockCached(t)
    PROVE  MapInv'
  <1>1. pc[t] = "sock"
    BY Zenon DEF GetSockCached
  <1>2. \A c \in Clients : holder[c] # t
    BY <1>1, ServiceAssumption, Zenon DEF ServiceInv, Mutex
  <1>3. UNCHANGED <<table, abs, in, holder, pack, want>>
    BY <1>2, ServiceAssumption, Zenon DEF GetSockCached, Return, Free, server, history
  <1>4. \/ got' = got
        \/ got' = [got EXCEPT ![t] = [answer |-> Answer(ZSC_REC_SRVEXP, Empty), answered |-> FALSE]]
    BY Zenon DEF GetSockCached, Return
  <1>5. \A u \in Threads : Answered(u)' => got'[u] = got[u]
    <2>1. CASE got' = got
      BY <2>1, Zenon
    <2>2. CASE got' = [got EXCEPT ![t] = [answer |-> Answer(ZSC_REC_SRVEXP, Empty), answered |-> FALSE]]
      <3>1. got'[t] = [answer |-> Answer(ZSC_REC_SRVEXP, Empty), answered |-> FALSE]
        BY <2>2, Zenon DEF ServiceInv, Shapes
      <3>2. ~Answered(t)'
        BY <3>1, Unanswered, Zenon
      <3> QED
        BY <2>2, <3>2, Zenon DEF ServiceInv, Shapes
    <2> QED
      BY <1>4, <2>1, <2>2
  <1> QED
    BY <1>3, <1>5, MapSame

(* Who takes the mutex finds no answer under way. *)
LEMMA MapLock ==
    ASSUME ServiceInv, MapInv, NEW t \in Threads, Lock(t)
    PROVE  MapInv'
  <1>1. ProcOf[t] \in Clients /\ holder[ProcOf[t]] = None
    BY ServiceAssumption, Zenon DEF Lock
  <1>2. /\ UNCHANGED <<table, abs, in, pack, want, got>>
        /\ holder' = [holder EXCEPT ![ProcOf[t]] = t]
    BY Zenon DEF Lock, server, net, history
  <1>3. ASSUME NEW c \in Clients PROVE ReplyAgrees(c)'
    <2>1. Replied(c)' => Replied(c)
      BY <1>2, Zenon DEF Replied
    <2>2. Replied(c) => c # ProcOf[t]
      BY <1>1, RepliedFacts, Zenon
    <2>3. c # ProcOf[t] => holder'[c] = holder[c]
      BY <1>2, Zenon DEF ServiceInv, Shapes
    <2> QED
      BY <1>2, <2>1, <2>2, <2>3, ReplyStill, Zenon DEF MapInv
  <1>4. ASSUME NEW u \in Threads PROVE AnswerAgrees(u)'
    BY <1>2, AnswerStill, Zenon DEF MapInv
  <1> QED
    BY <1>2, <1>3, <1>4, Zenon DEF MapInv

(* recvFrom hands over the answer to the request of its own thread. *)
LEMMA MapRecv ==
    ASSUME ServiceInv, MapInv, NEW t \in Threads, Recv(t)
    PROVE  MapInv'
  <1>1. PICK c0 : c0 = ProcOf[t]
    BY Zenon
  <1>2. pc[t] = "recv" /\ c0 \in Clients /\ holder[c0] = t /\ t # None
    BY <1>1, ServiceAssumption, Zenon DEF Recv, ServiceInv, Mutex
  <1>3. UNCHANGED <<table, abs, pack, want>> /\ holder' = [holder EXCEPT ![c0] = None]
    BY <1>1, <1>2, Zenon DEF Recv, Return, Free, server, history
  <1>4. \/ /\ in[c0] # <<>> /\ in' = [in EXCEPT ![c0] = Tail(@)]
           /\ got' = [got EXCEPT ![t] = [answer |-> Head(in[c0]), answered |-> TRUE]]
        \/ /\ in[c0] = <<>> /\ in' = in
           /\ got' = [got EXCEPT ![t] = [answer |-> Answer(ZSC_REC_SRVEXP, Empty), answered |-> FALSE]]
    BY <1>1, Zenon DEF Recv, Return
  <1>5. /\ \A u \in Threads : u # t => got'[u] = got[u]
        /\ \A c \in Clients : c # c0 => holder'[c] = holder[c] /\ in'[c] = in[c]
    BY <1>2, <1>3, <1>4, Zenon DEF ServiceInv, Shapes
  <1>6. in'[c0] = <<>>
    <2>1. CASE in[c0] = <<>>
      BY <1>4, <2>1, Zenon
    <2>2. CASE in[c0] # <<>>
      <3>1. PICK a : in[c0] = <<a>>
        BY <1>2, <2>2, RepliedFacts, Zenon DEF Replied
      <3>2. in'[c0] = Tail(in[c0])
        BY <1>2, <1>4, <2>2, Zenon DEF ServiceInv, Shapes
      <3> QED
        BY <3>1, <3>2, Single, Zenon
    <2> QED
      BY <2>1, <2>2, Zenon
  <1>7. ASSUME NEW c \in Clients PROVE ReplyAgrees(c)'
    <2>1. CASE c = c0
      BY <1>6, <2>1, Zenon DEF ReplyAgrees, Replied
    <2>2. CASE c # c0
      BY <1>3, <1>5, <2>2, ReplyStill, Zenon DEF MapInv
    <2> QED
      BY <2>1, <2>2, Zenon
  <1>8. AnswerAgrees(t)'
    <2>1. CASE in[c0] = <<>>
      <3>1. got'[t] = [answer |-> Answer(ZSC_REC_SRVEXP, Empty), answered |-> FALSE]
        BY <1>4, <2>1, Zenon DEF ServiceInv, Shapes
      <3> QED
        BY <3>1, Unanswered, Zenon DEF AnswerAgrees
    <2>2. CASE in[c0] # <<>>
      <3>1. PICK a : a = in[c0][1]
        BY Zenon
      <3>2. in[c0] = <<a>>
        BY <1>2, <2>2, <3>1, RepliedFacts, Zenon DEF Replied
      <3>3. Head(in[c0]) = a
        BY <3>2, Single, Zenon
      <3>4. got'[t] = [answer |-> a, answered |-> TRUE]
        BY <1>4, <2>2, <3>3, Zenon DEF ServiceInv, Shapes
      <3>5. got'[t].answer = a
        BY <3>4, ReturnFields, Zenon
      <3>6. Agrees(t, a)
        BY <1>2, <2>2, <3>1 DEF MapInv, ReplyAgrees, Replied
      <3> QED
        BY <1>3, <3>5, <3>6 DEF AnswerAgrees, Agrees
    <2> QED
      BY <2>1, <2>2, Zenon
  <1>9. ASSUME NEW u \in Threads PROVE AnswerAgrees(u)'
    BY <1>3, <1>5, <1>8, AnswerStill, Zenon DEF MapInv
  <1> QED
    BY <1>3, <1>7, <1>9 DEF MapInv

(* HTWorker::run for the request of a waiting thread. *)
LEMMA MapHandle ==
    ASSUME ServiceInv, MapInv, PlainCalls, Filled(abs), NEW c0 \in Clients, Handle(c0)
    PROVE  MapInv'
  <1>1. PICK t : t = holder[c0]
    OBVIOUS
  <1>2. out[c0] # <<>>
    BY DEF Handle
  <1>3. /\ t \in Threads /\ ProcOf[t] = c0 /\ Active(t)
        /\ Head(out[c0]) = pack[t] /\ in[c0] = <<>>
    BY <1>1, <1>2, AskedFacts DEF Active
  <1>4. PICK r, z : r = pack[t].r /\ z = pack[t].p
    BY Zenon
  <1>5. z = ZPack(t, r) /\ r \in scenario.requests /\ r.key \in Keys /\ got[t] = None
    <2>1. /\ pack[t] = [r |-> pack[t].r, p |-> ZPack(t, pack[t].r)]
          /\ pack[t].r \in scenario.requests /\ pack[t].r.key \in Keys /\ got[t] = None
      BY <1>3, Zenon DEF ServiceInv, Calling
    <2>2. pack[t].p = ZPack(t, pack[t].r)
      BY <2>1
    <2> QED
      BY <1>4, <2>1, <2>2, Zenon
  <1>6. PlainRequest(r)
    BY <1>5, Zenon DEF PlainCalls, ServiceInv, Shapes
  <1>7. z.by = t
    BY <1>5, ZPackFields
  <1>8. PICK a : a = Result(z)
    OBVIOUS
  <1>9. /\ table' = Table(z) /\ abs' = MapNext(r)
        /\ in' = [in EXCEPT ![c0] = Append(@, a)]
        /\ want' = [want EXCEPT ![t] = MapAnswer(r)]
        /\ UNCHANGED <<holder, pack, got>>
    BY <1>3, <1>4, <1>7, <1>8, Zenon DEF Handle, Reply, threads
  <1>10. /\ \A k \in Keys : Same(Table(z)[k], MapNext(r)[k])
         /\ MapAnswer(r) = [a EXCEPT !.val = <<@>>]
    <2>1. DOMAIN table = Keys /\ DOMAIN abs = Keys
      BY DEF ServiceInv, Shapes
    <2>2. \A k \in Keys : Same(table[k], abs[k])
      BY DEF MapInv
    <2> QED
      BY <1>5, <1>6, <1>8, <2>1, <2>2, HandleAsMap
  <1>11. want'[t] = MapAnswer(r) /\ \A u \in Threads : u # t => want'[u] = want[u]
    BY <1>3, <1>9, Zenon DEF ServiceInv, Shapes
  <1>12. in'[c0] = <<a>>
    <2>1. in'[c0] = Append(in[c0], a)
      BY <1>9, Zenon DEF ServiceInv, Shapes
    <2> QED
      BY <1>3, <2>1, Single, Zenon
  <1>13. ASSUME NEW c \in Clients PROVE ReplyAgrees(c)'
    <2>1. CASE c = c0
      <3>1. in'[c][1] = a /\ holder'[c] = t
        BY <1>1, <1>9, <1>12, <2>1, Single
      <3>2. Agrees(t, a)'
        BY <1>10, <1>11, Zenon DEF Agrees
      <3> QED
        BY <3>1, <3>2 DEF ReplyAgrees, Agrees
    <2>2. CASE c # c0
      <3>1. in'[c] = in[c]
        BY <1>9, <2>2, Zenon DEF ServiceInv, Shapes
      <3>2. Replied(c) => holder[c] \in Threads /\ holder[c] # t
        BY <1>3, <2>2, RepliedFacts
      <3>3. Replied(c)' => Replied(c)
        BY <3>1, Zenon DEF Replied
      <3> QED
        BY <1>9, <1>11, <3>1, <3>2, <3>3, ReplyStill, Zenon DEF MapInv
    <2> QED
      BY <2>1, <2>2
  <1>14. ASSUME NEW u \in Threads PROVE AnswerAgrees(u)'
    <2>1. Answered(u)' => u # t
      BY <1>5, <1>9, Zenon DEF Answered
    <2> QED
      BY <1>9, <1>11, <2>1, AnswerStill, Zenon DEF MapInv
  <1>15. \A k \in Keys : Same(table'[k], abs'[k])
    BY <1>9, <1>10, Zenon
  <1> QED
    BY <1>13, <1>14, <1>15, Zenon DEF MapInv

(* The answer of the poller is to a callback. *)
LEMMA MapPollerReply ==
    ASSUME ServiceInv, MapInv, poller.at # "rest", NEW rc, PollerReply(rc),
           UNCHANGED <<up, table, queue, sock, out, holder, threads, crashes, scenario, history>>
    PROVE  MapInv'
  <1>1. PICK c0 : c0 = poller.arg.c
    OBVIOUS
  <1>2. c0 \in Clients /\ pack[holder[c0]].r.op = "callback"
    BY <1>1, PolledFacts
  <1>3. UNCHANGED <<table, abs, holder, pack, want, got>>
    BY Zenon DEF threads, history
  <1>4. \A c \in Clients : c # c0 => in'[c] = in[c]
    BY <1>1, Zenon DEF PollerReply, Reply, ServiceInv, Shapes
  <1>5. ASSUME NEW c \in Clients PROVE ReplyAgrees(c)'
    <2>1. CASE c = c0
      BY <1>2, <1>3, <2>1, Zenon DEF ReplyAgrees, Agrees
    <2>2. CASE c # c0
      BY <1>3, <1>4, <2>2, ReplyStill, Zenon DEF MapInv
    <2> QED
      BY <2>1, <2>2
  <1>6. ASSUME NEW u \in Threads PROVE AnswerAgrees(u)'
    BY <1>3, AnswerStill, Zenon DEF MapInv
  <1> QED
    BY <1>3, <1>5, <1>6, Zenon DEF MapInv

(* The poller compares, and answers or waits. *)
LEMMA MapPollerRead ==
    ASSUME ServiceInv, MapInv, PollerRead
    PROVE  MapInv'
  <1>1. /\ poller.at = "read"
        /\ UNCHANGED <<up, table, queue, sock, out, holder, threads, crashes, scenario, history>>
    BY DEF PollerRead
  <1>2. PollerReply(ZSC_REC_SUCC) \/ in' = in
    BY Zenon DEF PollerRead
  <1>3. CASE PollerReply(ZSC_REC_SUCC)
    BY <1>1, <1>3, MapPollerReply
  <1>4. CASE in' = in
    BY <1>1, <1>4, MapSame DEF threads, history
  <1> QED
    BY <1>2, <1>3, <1>4

(* The lease is over, or the poller tries again. *)
LEMMA MapPollerSleep ==
    ASSUME ServiceInv, MapInv, PollerSleep
    PROVE  MapInv'
  <1>1. /\ poller.at \in {ZSC_REC_SCCBPOLLTRY, ZSC_REC_NONEXISTKEY}
        /\ UNCHANGED <<up, table, queue, sock, out, holder, threads, crashes, scenario, history>>
    BY DEF PollerSleep
  <1>2. poller.at # "rest"
    BY <1>1, Codes, Zenon
  <1>3. PollerReply(poller.at) \/ in' = in
    BY DEF PollerSleep
  <1>4. CASE PollerReply(poller.at)
    BY <1>1, <1>2, <1>4, MapPollerReply
  <1>5. CASE in' = in
    BY <1>1, <1>5, MapSame DEF threads, history
  <1> QED
    BY <1>3, <1>4, <1>5

(* The map is lost with the store. *)
LEMMA MapCrash ==
    ASSUME ServiceInv, MapInv, Crash
    PROVE  MapInv'
  <1>1. /\ table' = [k \in Keys |-> Missing] /\ abs' = [k \in Keys |-> <<>>]
        /\ UNCHANGED <<in, holder, pack, want, got>>
    BY DEF Crash, threads
  <1>2. \A k \in Keys : Same(table'[k], abs'[k])
    BY <1>1, Zenon DEF Same
  <1>3. ASSUME NEW c \in Clients PROVE ReplyAgrees(c)'
    BY <1>1, ReplyStill, Zenon DEF MapInv
  <1>4. ASSUME NEW t \in Threads PROVE AnswerAgrees(t)'
    BY <1>1, AnswerStill, Zenon DEF MapInv
  <1> QED
    BY <1>2, <1>3, <1>4 DEF MapInv

(* Every step of a service whose calls are plain. *)
LEMMA MapStep == PlainCalls /\ ServiceInv /\ MapInv /\ Filled(abs) /\ [Next]_vars => MapInv'
  <1> SUFFICES ASSUME PlainCalls, ServiceInv, MapInv, Filled(abs), [Next]_vars PROVE MapInv'
    OBVIOUS
  <1>1. ASSUME NEW t \in Threads, NEW r \in scenario.requests, Call(t, r) PROVE MapInv'
    BY <1>1, MapCall
  <1>2. ASSUME NEW t \in Threads, Send(t) PROVE MapInv'
    BY <1>2, MapSame DEF Send, server, history
  <1>3. ASSUME NEW t \in Threads, ThreadStep(t) PROVE MapInv'
    BY <1>2, <1>3, MapGetSock, MapLock, MapRecv DEF ThreadStep
  <1>4. ASSUME NEW c \in Clients, StateChangeCallback(c) PROVE MapInv'
    BY <1>4, MapSame DEF StateChangeCallback, threads
  <1>5. ASSUME NEW c \in Clients, ServerStep(c) PROVE MapInv'
    BY <1>4, <1>5, MapHandle DEF ServerStep
  <1>6. CASE PollerPop \/ PollerGet \/ Restart \/ UNCHANGED vars
    BY <1>6, MapSame DEF PollerPop, PollerGet, Restart, vars, server, net, threads, history
  <1>7. CASE PollerStep
    BY <1>6, <1>7, MapPollerRead, MapPollerSleep DEF PollerStep
  <1>8. CASE Crash
    BY <1>8, MapCrash, Zenon
  <1> QED
    BY <1>1, <1>3, <1>5, <1>6, <1>7, <1>8 DEF Next

(* What a plain request makes the map hold. *)
LEMMA MapNextFilled ==
    ASSUME NothingBlank, DOMAIN abs = Keys, Filled(abs), NEW x \in Scenarios,
           NEW r \in x.requests, r.op # "append"
    PROVE  Filled(MapNext(r))
  <1>1. CASE r.op = "insert"
    <2>1. r.val # Empty /\ r.val # NullVal
      BY <1>1 DEF NothingBlank, Blank
    <2>2. MapNext(r) = [abs EXCEPT ![r.key] = <<r.val>>]
      BY <1>1 DEF MapNext
    <2> QED
      BY <2>1, <2>2 DEF Filled
  <1>2. CASE r.op = "remove"
    <2>1. MapNext(r) = [abs EXCEPT ![r.key] = <<>>]
      BY <1>2 DEF MapNext
    <2> QED
      BY <2>1 DEF Filled
  <1>3. CASE r.op = "cas" /\ abs[r.key] = <<r.val>>
    <2>1. r.new # Empty /\ r.new # NullVal
      BY <1>3 DEF NothingBlank, Blank
    <2>2. MapNext(r) = [abs EXCEPT ![r.key] = <<r.new>>]
      BY <1>3 DEF MapNext
    <2> QED
      BY <2>1, <2>2 DEF Filled
  <1>4. CASE /\ r.op \notin {"insert", "append", "remove"}
             /\ ~(r.op = "cas" /\ abs[r.key] = <<r.val>>)
    <2>1. MapNext(r) = abs
      BY <1>4, Zenon DEF MapNext
    <2> QED
      BY <2>1
  <1> QED
    BY <1>1, <1>2, <1>3, <1>4

(* The map is written by requests, and lost in a crash. *)
LEMMA FilledNext ==
    PlainCalls /\ ServiceInv /\ Filled(abs) /\ [Next]_vars => Filled(abs)'
  <1> SUFFICES ASSUME PlainCalls, ServiceInv, Filled(abs), NothingBlank, [Next]_vars
               PROVE  Filled(abs)'
    BY Zenon DEF Filled
  <1>1. ASSUME NEW c0 \in Clients, Handle(c0) PROVE Filled(abs)'
    <2>1. PICK r : r = Head(out[c0]).r /\ abs' = MapNext(r)
      BY <1>1 DEF Handle
    <2>2. PICK t : t = holder[c0]
      OBVIOUS
    <2>3. t \in Threads /\ Active(t) /\ Head(out[c0]) = pack[t]
      BY <1>1, <2>2, AskedFacts, Zenon DEF Active, Handle
    <2>4. r \in scenario.requests
      BY <2>1, <2>3, Zenon DEF ServiceInv, Calling
    <2>5. scenario \in Scenarios
      BY Zenon DEF ServiceInv, Shapes
    <2>6. r.op # "append" /\ DOMAIN abs = Keys
      BY <2>4, <2>5, Zenon DEF PlainCalls, PlainRequest, ServiceInv, Shapes
    <2>7. Filled(MapNext(r))
      BY <2>4, <2>5, <2>6, MapNextFilled
    <2> QED
      BY <2>1, <2>7 DEF Filled
  <1>2. CASE Crash
    BY <1>2 DEF Crash, Filled
  <1>3. CASE abs' = abs
    BY <1>3, Zenon DEF Filled
  <1>4. ASSUME NEW t \in Threads, NEW r \in scenario.requests, Call(t, r) PROVE abs' = abs
    BY <1>4, Zenon DEF Call
  <1>5. ASSUME NEW t \in Threads, ThreadStep(t) PROVE abs' = abs
    BY <1>5, Zenon DEF ThreadStep, GetSockCached, Lock, Send, Recv, history
  <1>6. ASSUME NEW c \in Clients, StateChangeCallback(c) PROVE abs' = abs
    BY <1>6, Zenon DEF StateChangeCallback
  <1>7. CASE PollerStep \/ Restart \/ UNCHANGED vars
    BY <1>7 DEF PollerStep, PollerPop, PollerGet, PollerRead, PollerSleep, Restart, vars, history
  <1> QED
    BY <1>1, <1>2, <1>3, <1>4, <1>5, <1>6, <1>7, Zenon DEF Next, ServerStep

(* One request or one answer of a process at a time. *)
LEMMA OneUnderWay == ServiceInv => TypeOK
  <1> SUFFICES ASSUME ServiceInv, NEW c \in Clients PROVE Len(out[c]) + Len(in[c]) <= 1
    BY DEF ServiceInv, Shapes, TypeOK
  <1>1. CASE Asked(c)
    <2>1. in[c] = <<>>
      BY <1>1, AskedFacts DEF Asked
    <2>2. Link(c) /\ Pending(c)
      BY <1>1, Zenon DEF ServiceInv, Links, Pending
    <2>3. PICK x : out[c] = <<x>>
      BY <1>1, <2>2, Zenon DEF Link, ItemOK
    <2>4. Len(out[c]) = 1 /\ Len(in[c]) = 0
      BY <2>1, <2>3
    <2> QED
      BY <2>4
  <1>2. CASE ~Asked(c) /\ Replied(c)
    <2>1. PICK x : in[c] = <<x>>
      BY <1>2, RepliedFacts, Zenon
    <2>2. out[c] = <<>>
      BY <1>2, Zenon DEF Asked
    <2> QED
      BY <2>1, <2>2
  <1>3. CASE ~Asked(c) /\ ~Replied(c)
    <2>1. out[c] = <<>> /\ in[c] = <<>>
      BY <1>3 DEF Asked, Replied
    <2> QED
      BY <2>1
  <1> QED
    BY <1>1, <1>2, <1>3, Zenon

(* What a caller is told is what a map answers to its own request, and a   *)
(* socket carries one request or one answer at a time: for any threads and *)
(* processes that call concurrently, and any crashes of the server.        *)
THEOREM CallsCorrect == PlainCalls => (Spec => []CallsOK)
  <1>1. MapInv => AnswersAsMap
    BY DEF MapInv, AnswerAgrees, Agrees, AnswersAsMap
  <1>2. ASSUME PlainCalls PROVE Spec => []CallsOK
    <2>1. ServiceInv /\ MapInv /\ Filled(abs) /\ [Next]_vars
              => ServiceInv' /\ MapInv' /\ Filled(abs)'
      BY <1>2, ServiceNext, MapStep, FilledNext
    <2>2. ServiceInv /\ MapInv => CallsOK
      BY <1>1, OneUnderWay, Zenon DEF CallsOK
    <2>3. Init => Filled(abs)
      BY Single DEF Init, Filled
    <2> QED
      BY <2>1, <2>2, <2>3, ServiceInit, MapInit, PTL DEF Spec
  <1> QED
    BY <1>2

=============================================================================
