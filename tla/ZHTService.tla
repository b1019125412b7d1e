----------------------------- MODULE ZHTService -----------------------------
(* A ZHT server and its clients: HTWorker's operations on the store, the    *)
(* client library (ZHTClient, TCPProxy with one cached socket and one mutex *)
(* for each server), and the thread of the server that answers the state    *)
(* change callbacks.                                                        *)
(*                                                                          *)
(* The store keeps a record as text (zpack_to_str), except for what append  *)
(* adds, which is the binary form of the request.  str_to_zpack reads the   *)
(* first record of a text and finds nothing in binary data alone.  An empty *)
(* value travels as "^" or "?" beside a flag.                               *)
(*                                                                          *)
(* abs, want and seen are history: what a map would hold and answer.        *)
EXTENDS Integers, Sequences, FiniteSets

CONSTANTS
    Clients,        \* processes
    Threads, ProcOf,\* their threads, and the process of each
    Keys,           \* without the empty key ""
    Interval,       \* SCCB_POLL_INTERVAL
    Scenarios,      \* what a run lets happen
    None

(* The empty string: of a key that ZHTClient refuses, of a value that none *)
(* is stored for.                                                          *)
Empty == ""

ASSUME ServiceAssumption ==
    /\ ProcOf \in [Threads -> Clients] /\ None \notin Threads /\ Interval \in Nat \ {0}
    /\ \A x \in Scenarios :
          /\ x.threads \subseteq Threads     \* the threads that make calls
          /\ \A r \in x.requests :           \* their calls: [op, key, val, new, lease]
                r.key \in Keys \cup {Empty} /\ r.lease \in Nat
          /\ x.maxCalls \in Nat              \* bound: calls of a thread
          /\ x.maxCrashes \in Nat            \* bound: crashes of the server

VARIABLES
    up, table,          \* the server: does it run, what does the store hold
    queue,              \* PQUEUE, the callbacks to answer
    poller,             \* the thread that answers them
    sock,               \* a process's cached socket: "none", "ok", "closed", "reset"
    out, in,            \* requests and answers under way on it
    holder,             \* the thread that holds the socket's mutex
    pc, pack, got,      \* a thread: what it does, its request, its last answer
    calls, crashes,
    scenario,
    abs, want, seen     \* history

server  == <<up, table, queue, poller>>
net     == <<sock, out, in>>
threads == <<pc, pack, got, calls>>
history == <<abs, want, seen>>
vars    == <<server, net, holder, threads, crashes, scenario, history>>

-----------------------------------------------------------------------------
(* The codes that calls return. *)
ZSC_REC_SUCC        == "000"
ZSC_REC_EMPTYKEY    == "-01"
ZSC_REC_SRVEXP      == "-04"
ZSC_REC_SCCBPOLLTRY == "-91"
ZSC_REC_NONEXISTKEY == "-92"

(* What stands for an empty value, and for an empty second value. *)
NullVal    == "^"
NullNewval == "?"

(* The records of the store. *)
Missing == [text |-> FALSE, val |-> Empty, valnull |-> FALSE, bin |-> FALSE]
Stored(k) == table[k] # Missing

(* str_to_zpack of what is stored: binary data alone reads as nothing. *)
StrToZPack(s) == IF s.text THEN [val |-> s.val, valnull |-> s.valnull]
                           ELSE [val |-> Empty, valnull |-> FALSE]

(* ZHTClient::extract_value *)
ExtractValue(p) == IF p.valnull THEN Empty ELSE p.val

(* commonOpInternal fills the request: an empty value becomes "^", an empty *)
(* second value "?".                                                        *)
ZPack(t, r) ==
    [op |-> r.op, key |-> r.key, lease |-> r.lease, by |-> t,
     val |-> IF r.val = Empty THEN NullVal ELSE r.val, valnull |-> r.val = Empty,
     newval |-> IF r.new = Empty THEN NullNewval ELSE r.new]

Answer(rc, val) == [rc |-> rc, val |-> val]

(* What a map answers and becomes: a value is the sequence of its pieces.   *)
Joined(k) == IF abs[k] = <<>> THEN <<Empty>> ELSE abs[k]

Found(stored) == IF stored THEN ZSC_REC_SUCC ELSE ZSC_REC_NONEXISTKEY

MapAnswer(r) ==
    CASE r.op = "lookup"  -> Answer(Found(abs[r.key] # <<>>), Joined(r.key))
      [] r.op = "remove"  -> Answer(Found(abs[r.key] # <<>>), <<Empty>>)
      [] r.op = "cas"     -> IF abs[r.key] = <<r.val>>
                               THEN Answer(ZSC_REC_SUCC, <<r.new>>)
                               ELSE Answer(ZSC_REC_SRVEXP, Joined(r.key))
      [] OTHER            -> Answer(ZSC_REC_SUCC, <<Empty>>)

MapNext(r) ==
    CASE r.op = "insert"  -> [abs EXCEPT ![r.key] = <<r.val>>]
      [] r.op = "append"  -> [abs EXCEPT ![r.key] = Append(@, r.val)]
      [] r.op = "remove"  -> [abs EXCEPT ![r.key] = <<>>]
      [] r.op = "cas" /\ abs[r.key] = <<r.val>> -> [abs EXCEPT ![r.key] = <<r.new>>]
      [] OTHER            -> abs

-----------------------------------------------------------------------------
(* HTWorker: what an operation does to the store, and its answer.           *)
LookupShared(tab, k) ==
    IF tab[k] = Missing THEN Answer(ZSC_REC_NONEXISTKEY, Empty)
                        ELSE Answer(ZSC_REC_SUCC, ExtractValue(StrToZPack(tab[k])))

InsertShared(p) ==
    [table EXCEPT ![p.key] = [text |-> TRUE, val |-> p.val, valnull |-> p.valnull,
                              bin |-> FALSE]]

(* append_shared adds the binary form, whatever the record is. *)
AppendShared(p) == [table EXCEPT ![p.key].bin = TRUE]

RemoveShared(p) == [table EXCEPT ![p.key] = Missing]

(* compare_swap_internal: the record that is stored gets the new value and  *)
(* keeps its flag.  A key that is not stored has the value "", which no     *)
(* request carries.                                                         *)
Matches(p) == StrToZPack(table[p.key]).val = p.val

CompareSwapInternal(p) ==
    IF Matches(p)
      THEN InsertShared([p EXCEPT !.val = p.newval,
                                  !.valnull = StrToZPack(table[p.key]).valnull])
      ELSE table

(* HTWorker::run, for the operations that answer at once.  The answer of    *)
(* compare_swap carries what a lookup finds afterwards.                     *)
Table(p) ==
    CASE p.op = "insert" -> InsertShared(p)
      [] p.op = "append" -> AppendShared(p)
      [] p.op = "remove" -> RemoveShared(p)
      [] p.op = "cas"    -> CompareSwapInternal(p)
      [] OTHER           -> table

Result(p) ==
    CASE p.op = "lookup" -> LookupShared(table, p.key)
      [] p.op = "remove" -> Answer(Found(Stored(p.key)), Empty)
      [] p.op = "cas"    -> Answer(IF Matches(p) THEN ZSC_REC_SUCC ELSE ZSC_REC_SRVEXP,
                                   LookupShared(CompareSwapInternal(p), p.key).val)
      [] OTHER           -> Answer(ZSC_REC_SUCC, Empty)

-----------------------------------------------------------------------------
(* The threads of the clients. *)
Free(t) == IF holder[ProcOf[t]] = t THEN [holder EXCEPT ![ProcOf[t]] = None] ELSE holder

Return(t, a, answered) ==
    /\ pc' = [pc EXCEPT ![t] = "idle"]
    /\ got' = [got EXCEPT ![t] = [answer |-> a, answered |-> answered]]
    /\ holder' = Free(t)

(* A call of ZHTClient; an empty key goes no further. *)
Call(t, r) ==
    /\ pc[t] = "idle" /\ t \in scenario.threads /\ calls[t] < scenario.maxCalls
    /\ calls' = [calls EXCEPT ![t] = @ + 1]
    /\ pack' = [pack EXCEPT ![t] = [r |-> r, p |-> ZPack(t, r)]]
    /\ want' = [want EXCEPT ![t] = None]
    /\ seen' = [seen EXCEPT ![t] = [equal |-> FALSE, raced |-> FALSE, applied |-> 0]]
    /\ IF r.key = Empty
         THEN Return(t, Answer(ZSC_REC_EMPTYKEY, Empty), FALSE)
         ELSE /\ pc' = [pc EXCEPT ![t] = "sock"]
              /\ got' = [got EXCEPT ![t] = None]
              /\ UNCHANGED holder
    /\ UNCHANGED <<server, net, crashes, scenario, abs>>

(* getSockCached, under CC_MUTEX: the cached socket, or a new one.  When    *)
(* the connection is refused nothing is cached, and sending on the socket   *)
(* -1 and reading from it fail: an empty answer.                            *)
GetSockCached(t) ==
    LET c == ProcOf[t] IN
    /\ pc[t] = "sock"
    /\ IF sock[c] = "none" /\ ~up
         THEN /\ Return(t, Answer(ZSC_REC_SRVEXP, Empty), FALSE)
              /\ UNCHANGED sock
         ELSE /\ sock' = [sock EXCEPT ![c] = IF @ = "none" THEN "ok" ELSE @]
              /\ pc' = [pc EXCEPT ![t] = "lock"]
              /\ UNCHANGED <<got, holder>>
    /\ UNCHANGED <<server, out, in, pack, calls, crashes, scenario, history>>

(* A plausible bug: the mutex was not found, and LockGuard locks nothing. *)
LockNothing(t) ==
    /\ pc[t] = "lock"
    /\ pc' = [pc EXCEPT ![t] = "send"]
    /\ UNCHANGED <<server, net, holder, pack, got, calls, crashes, scenario, history>>

(* sendrecv takes the mutex of the socket until it has the answer ... *)
Lock(t) ==
    /\ pc[t] = "lock" /\ holder[ProcOf[t]] = None
    /\ holder' = [holder EXCEPT ![ProcOf[t]] = t]
    /\ pc' = [pc EXCEPT ![t] = "send"]
    /\ UNCHANGED <<server, net, pack, got, calls, crashes, scenario, history>>

(* ... and sends.  Nobody catches SIGPIPE: sending on a socket that was     *)
(* reset ends the process.  On a socket that was closed the send succeeds   *)
(* and the reset comes back.                                                *)
Send(t) ==
    LET c == ProcOf[t] IN
    /\ pc[t] = "send"
    /\ CASE sock[c] = "ok" ->
              /\ out' = [out EXCEPT ![c] = Append(@, pack[t])]
              /\ pc' = [pc EXCEPT ![t] = "recv"]
              /\ UNCHANGED sock
         [] sock[c] = "closed" ->
              /\ sock' = [sock EXCEPT ![c] = "reset"]
              /\ pc' = [pc EXCEPT ![t] = "recv"]
              /\ UNCHANGED out
         [] sock[c] = "reset" ->
              /\ pc' = [u \in Threads |-> IF ProcOf[u] = c THEN "killed" ELSE pc[u]]
              /\ UNCHANGED <<sock, out>>
    /\ UNCHANGED <<server, in, holder, pack, got, calls, crashes, scenario, history>>

(* A plausible bug: an empty answer is taken for success. *)
RecvTrusting(t) ==
    LET c == ProcOf[t] IN
    /\ pc[t] = "recv"
    /\ \/ /\ in[c] # <<>>
          /\ Return(t, Head(in[c]), TRUE)
          /\ in' = [in EXCEPT ![c] = Tail(@)]
       \/ /\ in[c] = <<>> /\ sock[c] # "ok"
          /\ Return(t, Answer(ZSC_REC_SUCC, Empty), FALSE)
          /\ UNCHANGED in
    /\ UNCHANGED <<server, sock, out, pack, calls, crashes, scenario, history>>

(* recvFrom: the next answer on the socket.  An empty answer, when the      *)
(* server is gone, becomes ZSC_REC_SRVEXP.                                  *)
Recv(t) ==
    LET c == ProcOf[t] IN
    /\ pc[t] = "recv"
    /\ \/ /\ in[c] # <<>>
          /\ Return(t, Head(in[c]), TRUE)
          /\ in' = [in EXCEPT ![c] = Tail(@)]
       \/ /\ in[c] = <<>> /\ sock[c] # "ok"
          /\ Return(t, Answer(ZSC_REC_SRVEXP, Empty), FALSE)
          /\ UNCHANGED in
    /\ UNCHANGED <<server, sock, out, pack, calls, crashes, scenario, history>>

-----------------------------------------------------------------------------
(* The server. *)
Reply(c, a) == in' = [in EXCEPT ![c] = Append(@, a)]

(* History of a write: who waits for the value it leaves, and whether the   *)
(* poller is between finding the record and reading it.                     *)
Waiting(t) == /\ pc[t] \notin {"idle", "killed"}
              /\ pack[t].r.op = "callback"

Noted(tab, by) ==
    [t \in Threads |->
        IF Waiting(t)
          THEN [equal   |-> \/ seen[t].equal
                            \/ /\ tab[pack[t].p.key] # Missing
                               /\ StrToZPack(tab[pack[t].p.key]).val = pack[t].p.val,
                raced   |-> \/ seen[t].raced
                            \/ /\ poller.at = "read" /\ poller.arg.p.by = t
                               /\ tab[pack[t].p.key] # table[pack[t].p.key],
                applied |-> seen[t].applied]
          ELSE [seen[t] EXCEPT !.applied = @ + IF t = by THEN 1 ELSE 0]]

(* HTWorker::run for the next request on a connection: the epoll thread     *)
(* handles one at a time.                                                   *)
Handle(c) ==
    LET q == Head(out[c]) IN
    /\ up /\ out[c] # <<>>
    /\ q.p.op # "callback"
    /\ out' = [out EXCEPT ![c] = Tail(@)]
    /\ table' = Table(q.p)
    /\ Reply(c, Result(q.p))
    /\ abs' = MapNext(q.r)
    /\ want' = [want EXCEPT ![q.p.by] = MapAnswer(q.r)]
    /\ seen' = Noted(Table(q.p), q.p.by)
    /\ poller' = IF poller.at = "read" /\ Table(q.p)[poller.arg.p.key] # table[poller.arg.p.key]
                   THEN [poller EXCEPT !.torn = TRUE] ELSE poller
    /\ UNCHANGED <<up, queue, sock, holder, threads, crashes, scenario>>

(* state_change_callback: queue it for the poller, a thread that the first  *)
(* one starts.                                                              *)
StateChangeCallback(c) ==
    LET q == Head(out[c]) IN
    /\ up /\ out[c] # <<>>
    /\ q.p.op = "callback"
    /\ out' = [out EXCEPT ![c] = Tail(@)]
    /\ queue' = Append(queue, [c |-> c, p |-> q.p])
    /\ seen' = Noted(table, q.p.by)
    /\ UNCHANGED <<up, table, poller, sock, in, holder, threads, crashes, scenario, abs, want>>

Resting == [at |-> "rest"]

PollerPop ==
    /\ up /\ poller.at = "rest" /\ queue # <<>>
    /\ poller' = [at |-> "get", arg |-> Head(queue), lapsed |-> 0, torn |-> FALSE]
    /\ queue' = Tail(queue)
    /\ UNCHANGED <<up, table, net, holder, threads, crashes, scenario, history>>

(* The answer of the poller, and the end of its turn. *)
PollerReply(rc) ==
    /\ Reply(poller.arg.c, Answer(rc, Empty))
    /\ poller' = Resting

(* state_change_callback_internal: find the record ... *)
PollerGet ==
    /\ up /\ poller.at = "get"
    /\ poller' = [poller EXCEPT !.at = IF Stored(poller.arg.p.key) THEN "read"
                                       ELSE ZSC_REC_NONEXISTKEY,
                                !.torn = FALSE]
    /\ UNCHANGED <<up, table, queue, net, holder, threads, crashes, scenario, history>>

(* ... and compare it, through a pointer into the table that nothing        *)
(* protects: when the epoll thread has written or removed the record in     *)
(* between, anything may be read.                                           *)
PollerRead ==
    /\ up /\ poller.at = "read"
    /\ \E equal \in IF poller.torn THEN BOOLEAN
                    ELSE {StrToZPack(table[poller.arg.p.key]).val = poller.arg.p.val} :
         IF equal THEN PollerReply(ZSC_REC_SUCC)
                  ELSE poller' = [poller EXCEPT !.at = ZSC_REC_SCCBPOLLTRY] /\ UNCHANGED in
    /\ UNCHANGED <<up, table, queue, sock, out, holder, threads, crashes, scenario, history>>

(* Plausible bugs: the time that has passed is counted anew after each      *)
(* wait, and the end of the lease is reported as a success.                 *)
PollerSleepForgetting ==
    /\ up /\ poller.at \in {ZSC_REC_SCCBPOLLTRY, ZSC_REC_NONEXISTKEY}
    /\ IF Interval >= poller.arg.p.lease
         THEN PollerReply(poller.at)
         ELSE /\ poller' = [poller EXCEPT !.at = "get", !.lapsed = Interval]
              /\ UNCHANGED in
    /\ UNCHANGED <<up, table, queue, sock, out, holder, threads, crashes, scenario, history>>

PollerSleepSucceeding ==
    /\ up /\ poller.at \in {ZSC_REC_SCCBPOLLTRY, ZSC_REC_NONEXISTKEY}
    /\ IF poller.lapsed + Interval >= poller.arg.p.lease
         THEN PollerReply(ZSC_REC_SUCC)
         ELSE /\ poller' = [poller EXCEPT !.at = "get", !.lapsed = @ + Interval]
              /\ UNCHANGED in
    /\ UNCHANGED <<up, table, queue, sock, out, holder, threads, crashes, scenario, history>>

(* The wait between two polls, which ends with the lease. *)
PollerSleep ==
    /\ up /\ poller.at \in {ZSC_REC_SCCBPOLLTRY, ZSC_REC_NONEXISTKEY}
    /\ IF poller.lapsed + Interval >= poller.arg.p.lease
         THEN PollerReply(poller.at)
         ELSE /\ poller' = [poller EXCEPT !.at = "get", !.lapsed = @ + Interval]
              /\ UNCHANGED in
    /\ UNCHANGED <<up, table, queue, sock, out, holder, threads, crashes, scenario, history>>

(* The server dies with what it holds in memory, and starts again.  A       *)
(* socket with a request nobody read is reset, another one is closed.       *)
Crash ==
    /\ up /\ crashes < scenario.maxCrashes
    /\ crashes' = crashes + 1
    /\ up' = FALSE
    /\ table' = [k \in Keys |-> Missing]
    /\ queue' = <<>> /\ poller' = Resting
    /\ sock' = [c \in Clients |-> IF sock[c] # "ok" THEN sock[c]
                                  ELSE IF out[c] # <<>> THEN "reset" ELSE "closed"]
    /\ out' = [c \in Clients |-> <<>>]
    /\ abs' = [k \in Keys |-> <<>>]
    /\ UNCHANGED <<in, holder, threads, scenario, want, seen>>

Restart ==
    /\ ~up
    /\ up' = TRUE
    /\ UNCHANGED <<table, queue, poller, net, holder, threads, crashes, scenario, history>>

-----------------------------------------------------------------------------
Init ==
    /\ scenario \in Scenarios
    /\ up = TRUE /\ table = [k \in Keys |-> Missing]
    /\ queue = <<>> /\ poller = Resting
    /\ sock = [c \in Clients |-> "none"]
    /\ out = [c \in Clients |-> <<>>] /\ in = [c \in Clients |-> <<>>]
    /\ holder = [c \in Clients |-> None]
    /\ pc = [t \in Threads |-> "idle"]
    /\ pack = [t \in Threads |-> None] /\ got = [t \in Threads |-> None]
    /\ calls = [t \in Threads |-> 0] /\ crashes = 0
    /\ abs = [k \in Keys |-> <<>>]
    /\ want = [t \in Threads |-> None]
    /\ seen = [t \in Threads |-> [equal |-> FALSE, raced |-> FALSE, applied |-> 0]]

ThreadStep(t) == GetSockCached(t) \/ Lock(t) \/ Send(t) \/ Recv(t)
ServerStep(c) == Handle(c) \/ StateChangeCallback(c)
PollerStep    == PollerPop \/ PollerGet \/ PollerRead \/ PollerSleep

Next ==
    \/ \E t \in Threads : ThreadStep(t) \/ \E r \in scenario.requests : Call(t, r)
    \/ \E c \in Clients : ServerStep(c)
    \/ PollerStep \/ Crash \/ Restart

(* The epoll thread, the poller and the threads of the clients go on while  *)
(* they can; nobody has to call, and nothing has to crash.                  *)
Fairness ==
    /\ \A t \in Threads : WF_vars(ThreadStep(t))
    /\ \A c \in Clients : WF_vars(ServerStep(c))
    /\ WF_vars(PollerStep)

Spec == Init /\ [][Next]_vars /\ Fairness

-----------------------------------------------------------------------------
(* Types; at most one request or answer of a process is under way, since    *)
(* sendrecv holds the socket's mutex from the request to the answer.        *)
TypeOK ==
    /\ up \in BOOLEAN /\ sock \in [Clients -> {"none", "ok", "closed", "reset"}]
    /\ pc \in [Threads -> {"idle", "sock", "lock", "send", "recv", "killed"}]
    /\ holder \in [Clients -> Threads \cup {None}]
    /\ \A c \in Clients : Len(out[c]) + Len(in[c]) <= 1

Answered(t) == got[t] # None /\ got[t].answered

(* What a caller is told is what a map answers to its own request, at some  *)
(* moment between the call and the return, whatever other threads of the    *)
(* process and other processes ask: sendrecv keeps the socket to itself     *)
(* until the answer has come, and HTWorker's operations do not interleave.  *)
AnswersAsMap ==
    \A t \in Threads :
        Answered(t) /\ pack[t].r.op # "callback" =>
            want[t] = [got[t].answer EXCEPT !.val = <<@>>]

(* The calls are answered as by a map, and a socket carries one request or  *)
(* one answer at a time.                                                    *)
CallsOK == TypeOK /\ AnswersAsMap

(* ZHT/README: "ZHT supports the API set such as insert/lookup/remove/      *)
(* append/compare_swap.": a lookup returns what was inserted and appended.  *)
LookupReadsAppended ==
    \A t \in Threads :
        Answered(t) /\ pack[t].r.op = "lookup" => want[t].val = <<got[t].answer.val>>

(* c_zhtclient.h: "Return 0(zero), if SEEN_VALUE equals to value lookuped   *)
(* by the key, and set the value to NEW_VALUE": a compare_swap that         *)
(* succeeded reads the new value back.                                      *)
SwapSetsValue ==
    \A t \in Threads :
        Answered(t) /\ pack[t].r.op = "cas" /\ got[t].answer.rc = ZSC_REC_SUCC =>
            got[t].answer.val = pack[t].r.new

(* A write is applied at most once, and one that was reported as a success  *)
(* has been applied: the client neither repeats a request nor takes the     *)
(* silence of a server that died for an answer.                             *)
SuccessIsApplied ==
    \A t \in Threads :
        /\ seen[t].applied <= 1
        /\ got[t] # None /\ got[t].answer.rc = ZSC_REC_SUCC /\ pack[t].r.op # "callback"
             => seen[t].applied = 1

(* A callback succeeds only if the key had the expected value at some       *)
(* moment while the caller waited, unless a write hit the record just while *)
(* the poller read it.                                                      *)
CallbackUnlessRaced ==
    \A t \in Threads :
        Answered(t) /\ pack[t].r.op = "callback" /\ got[t].answer.rc = ZSC_REC_SUCC =>
            seen[t].equal \/ seen[t].raced

(* "EXPECTED_VAL: the value expected to be equal to what is lookuped by the *)
(* key, if equal, return 0, or keep polling in server-side": the same       *)
(* without the exception.                                                   *)
CallbackTruthful ==
    \A t \in Threads :
        Answered(t) /\ pack[t].r.op = "callback" /\ got[t].answer.rc = ZSC_REC_SUCC =>
            seen[t].equal

(* Every call returns, or the process is ended by the signal: a callback    *)
(* when its lease is over, behind the callbacks queued before it, and any   *)
(* call when the server dies.                                               *)
EveryCallReturns ==
    \A t \in Threads : pc[t] = "sock" ~> pc[t] \in {"idle", "killed"}
=============================================================================
