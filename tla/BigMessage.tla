----------------------------- MODULE BigMessage -----------------------------
(* Requests on their way into a ZHT server: a client cuts a message into    *)
(* blobs with a header each (bigdata_transfer), sends them over TCP or UDP, *)
(* and the edge-triggered epoll loop of the server (EpollServer::serve)     *)
(* reads them and puts the message together again.  One map of blobs serves *)
(* all connections.                                                         *)
(*                                                                          *)
(* Bytes are counted in units: a header is one unit, a blob holds BlobSize  *)
(* units of the message, and the read buffer one whole blob.                *)
EXTENDS Integers, Sequences, FiniteSets, SequencesExt, Bags

CONSTANTS
    Clients,
    Length,       \* client -> length of its message in units
    Uuids,        \* the message ids that IdHelper::genId may yield
    UniqueIds,    \* whether they come out different
    BlobSize,
    Fragment,     \* whether a read may return less than was sent at once
    Udp,          \* UDP in place of TCP
    MaxLost, MaxCopies,  \* bounds: datagrams lost and duplicated
    MaxResets,    \* bound: clients that die
    Listen        \* the listening socket

(* What the constants have to be. *)
BigMessageAssumption ==
    /\ Length \in [Clients -> Nat \ {0}]
    /\ BlobSize \in Nat \ {0}
    /\ {UniqueIds, Fragment, Udp} \subseteq BOOLEAN
    /\ {MaxLost, MaxCopies, MaxResets} \subseteq Nat

VARIABLES
    uuid,      \* client -> id of its message, 0 before it is split
    blobs,     \* client -> blobs still to be sent
    conn,      \* client -> "none", "backlog", "open", "finished", "reset", "closed"
    stream,    \* client -> units sent over TCP and not yet read
    net,       \* UDP datagrams under way, a bag
    ready,     \* sockets with an event that epoll_wait has not reported
    serving,   \* the socket whose event is being handled, or 0
    BdMap,     \* uuid -> blobs received
    delivered, \* messages given to ZProcessor::process: [from, value]
    lost, copies, resets

transport == <<conn, stream, net, ready>>
faults    == <<lost, copies, resets>>
vars      == <<uuid, blobs, transport, serving, BdMap, delivered, faults>>

Nobody == 0

-----------------------------------------------------------------------------
(* Blobs. *)

Unit(c, i)  == [head |-> FALSE, from |-> c, i |-> i]
Message(c)  == [i \in 1 .. Length[c] |-> Unit(c, i)]

(* BdSendBase::split *)
Total(n) == n \div BlobSize + (IF n % BlobSize # 0 THEN 1 ELSE 0)
Split(id, msg) ==
    LET total == Total(Len(msg))
        last(k) == IF k * BlobSize < Len(msg) THEN k * BlobSize ELSE Len(msg)
    IN  [k \in 1 .. total |-> [uuid |-> id, seqNum |-> k, total |-> total,
                               value |-> SubSeq(msg, (k - 1) * BlobSize + 1, last(k))]]

(* Variant: the header is taken for a part of the value. *)
AssignWithHeader(text) ==
    IF text[1].head
    THEN [uuid |-> text[1].uuid, seqNum |-> text[1].seqNum, total |-> text[1].total, value |-> text]
    ELSE [uuid |-> 0, seqNum |-> 0, total |-> 0, value |-> text]

(* Blob::toString and Blob::assign.  Text that does not begin with a       *)
(* header is read as a blob with all numbers 0.                            *)
BlobText(b) ==
    <<[head |-> TRUE, uuid |-> b.uuid, seqNum |-> b.seqNum, total |-> b.total]>> \o b.value
Assign(text) ==
    IF text[1].head
    THEN [uuid |-> text[1].uuid, seqNum |-> text[1].seqNum, total |-> text[1].total,
          value |-> Tail(text)]
    ELSE [uuid |-> 0, seqNum |-> 0, total |-> 0, value |-> text]

(* The set of blobs is ordered by seqNum, and keeps the first of each. *)
Insert(set, b) == IF \E x \in set : x.seqNum = b.seqNum THEN set ELSE set \cup {b}
CombineBlobs(set) ==
    FoldLeft(LAMBDA text, b : text \o b.value, <<>>,
             SetToSortSeq(set, LAMBDA x, y : x.seqNum < y.seqNum))

(* Variant: the message is put together in the order of arrival of the     *)
(* last blob.                                                              *)
GetBdStrLastFirst(map, b) ==
    LET new == Insert(IF b.uuid \in DOMAIN map THEN map[b.uuid] ELSE {}, b)
        keep(ids) == [u \in ids |-> IF u = b.uuid THEN new ELSE map[u]]
    IN  IF b.total = 1 THEN [ready |-> TRUE, result |-> b.value, map |-> map]
        ELSE IF b.uuid \in DOMAIN map /\ Cardinality(new) = b.total
        THEN [ready |-> TRUE, result |-> CombineBlobs(new \ {b}) \o b.value,
              map |-> [u \in DOMAIN map \ {b.uuid} |-> map[u]]]
        ELSE [ready |-> FALSE, result |-> <<>>, map |-> keep(DOMAIN map \cup {b.uuid})]

(* Variant: a complete message is not deleted. *)
GetBdStrKeeping(map, b) ==
    LET new == Insert(IF b.uuid \in DOMAIN map THEN map[b.uuid] ELSE {}, b)
        keep(ids) == [u \in ids |-> IF u = b.uuid THEN new ELSE map[u]]
    IN  IF b.total = 1 THEN [ready |-> TRUE, result |-> b.value, map |-> map]
        ELSE [ready |-> b.uuid \in DOMAIN map /\ Cardinality(new) = b.total,
              result |-> CombineBlobs(new), map |-> keep(DOMAIN map \cup {b.uuid})]

(* Variant: the last blob is not waited for. *)
GetBdStrEager(map, b) ==
    LET new == Insert(IF b.uuid \in DOMAIN map THEN map[b.uuid] ELSE {}, b)
        keep(ids) == [u \in ids |-> IF u = b.uuid THEN new ELSE map[u]]
    IN  IF Cardinality(new) >= b.total - 1
        THEN [ready |-> TRUE, result |-> CombineBlobs(new),
              map |-> [u \in DOMAIN map \ {b.uuid} |-> map[u]]]
        ELSE [ready |-> FALSE, result |-> <<>>, map |-> keep(DOMAIN map \cup {b.uuid})]

(* BdRecvBase::getBdStr *)
GetBdStr(map, b) ==
    LET new == Insert(IF b.uuid \in DOMAIN map THEN map[b.uuid] ELSE {}, b)
        keep(ids) == [u \in ids |-> IF u = b.uuid THEN new ELSE map[u]]
    IN  IF b.total = 1 THEN [ready |-> TRUE, result |-> b.value, map |-> map]
        ELSE IF b.uuid \in DOMAIN map /\ Cardinality(new) = b.total
        THEN [ready |-> TRUE, result |-> CombineBlobs(new),
              map |-> [u \in DOMAIN map \ {b.uuid} |-> map[u]]]
        ELSE [ready |-> FALSE, result |-> <<>>, map |-> keep(DOMAIN map \cup {b.uuid})]

-----------------------------------------------------------------------------
(* The clients. *)

(* BdSendBase: split under an id of genId, a hash of a random string.      *)
Prepare(c) ==
    /\ uuid[c] = 0
    /\ \E id \in Uuids :
         /\ UniqueIds => \A d \in Clients : uuid[d] # id
         /\ uuid' = [uuid EXCEPT ![c] = id]
         /\ blobs' = [blobs EXCEPT ![c] = Split(id, Message(c))]
    /\ UNCHANGED <<transport, serving, BdMap, delivered, faults>>

(* TCPProxy::makeClientSocket *)
Connect(c) ==
    /\ ~Udp /\ conn[c] = "none"
    /\ conn' = [conn EXCEPT ![c] = "backlog"]
    /\ ready' = ready \cup {Listen}
    /\ UNCHANGED <<uuid, blobs, stream, net, serving, BdMap, delivered, faults>>

(* BdSendBase::bsend, one blob.  The connection is there before accept.    *)
Event(c) == IF conn[c] = "backlog" THEN ready ELSE ready \cup {c}
Bsend(c) ==
    /\ ~Udp /\ blobs[c] # <<>>
    /\ conn[c] \in {"backlog", "open"}
    /\ blobs' = [blobs EXCEPT ![c] = Tail(@)]
    /\ stream' = [stream EXCEPT ![c] = @ \o BlobText(Head(blobs[c]))]
    /\ ready' = Event(c)
    /\ UNCHANGED <<uuid, conn, net, serving, BdMap, delivered, faults>>

BsendTo(c) ==
    /\ Udp /\ blobs[c] # <<>>
    /\ blobs' = [blobs EXCEPT ![c] = Tail(@)]
    /\ net' = net (+) SetToBag({[from |-> c, text |-> BlobText(Head(blobs[c]))]})
    /\ ready' = ready \cup {Listen}
    /\ UNCHANGED <<uuid, conn, stream, serving, BdMap, delivered, faults>>

(* The client closes the connection when it has sent everything ...        *)
Finish(c) ==
    /\ conn[c] = "open" /\ uuid[c] # 0 /\ blobs[c] = <<>>
    /\ conn' = [conn EXCEPT ![c] = "finished"]
    /\ ready' = ready \cup {c}
    /\ UNCHANGED <<uuid, blobs, stream, net, serving, BdMap, delivered, faults>>

(* ... or dies.                                                            *)
Reset(c) ==
    /\ resets < MaxResets /\ conn[c] = "open"
    /\ resets' = resets + 1
    /\ conn' = [conn EXCEPT ![c] = "reset"]
    /\ blobs' = [blobs EXCEPT ![c] = <<>>]
    /\ ready' = ready \cup {c}
    /\ UNCHANGED <<uuid, stream, net, serving, BdMap, delivered, lost, copies>>

(* The network. *)
Lose ==
    /\ lost < MaxLost
    /\ \E d \in BagToSet(net) : net' = net (-) SetToBag({d})
    /\ lost' = lost + 1
    /\ UNCHANGED <<uuid, blobs, conn, stream, ready, serving, BdMap, delivered, copies, resets>>

Duplicate ==
    /\ copies < MaxCopies
    /\ \E d \in BagToSet(net) : net' = net (+) SetToBag({d})
    /\ copies' = copies + 1
    /\ UNCHANGED <<uuid, blobs, conn, stream, ready, serving, BdMap, delivered, lost, resets>>

-----------------------------------------------------------------------------
(* EpollServer::serve, for TCP. *)

(* epoll_wait reports an event once; a broken connection is closed, with   *)
(* what it still held.                                                     *)
EpollWait ==
    /\ serving = Nobody
    /\ \E s \in ready :
         /\ ready' = ready \ {s}
         /\ IF s # Listen /\ conn[s] = "reset"
            THEN /\ conn' = [conn EXCEPT ![s] = "closed"]
                 /\ stream' = [stream EXCEPT ![s] = <<>>]
                 /\ UNCHANGED serving
            ELSE /\ serving' = s
                 /\ UNCHANGED <<conn, stream>>
    /\ UNCHANGED <<uuid, blobs, net, BdMap, delivered, faults>>

Backlog == {c \in Clients : conn[c] = "backlog"}

(* The accept loop; a socket that already holds data is reported at once.  *)
Accept ==
    /\ ~Udp /\ serving = Listen
    /\ \E c \in Backlog :
         /\ conn' = [conn EXCEPT ![c] = "open"]
         /\ ready' = IF stream[c] # <<>> THEN ready \cup {c} ELSE ready
    /\ UNCHANGED <<uuid, blobs, stream, net, serving, BdMap, delivered, faults>>

AcceptAgain ==
    /\ ~Udp /\ serving = Listen /\ Backlog = {}
    /\ serving' = Nobody
    /\ UNCHANGED <<uuid, blobs, transport, BdMap, delivered, faults>>

Took(c, text) ==
    LET r == GetBdStr(BdMap, Assign(text))
    IN  /\ BdMap' = r.map
        /\ delivered' = IF r.ready THEN Append(delivered, [from |-> c, value |-> r.result])
                        ELSE delivered

(* Variant: one read per event. *)
RecvOnce(c) ==
    /\ serving = c /\ stream[c] # <<>>
    /\ LET n == IF Len(stream[c]) < BlobSize + 1 THEN Len(stream[c]) ELSE BlobSize + 1
       IN  /\ Took(c, SubSeq(stream[c], 1, n))
           /\ stream' = [stream EXCEPT ![c] = SubSeq(@, n + 1, Len(@))]
    /\ serving' = Nobody
    /\ UNCHANGED <<uuid, blobs, conn, net, ready, faults>>

(* The read loop of a connection: a read returns what is there, at most a  *)
(* buffer full, or less when the network has cut it up.                    *)
Recv(c) ==
    /\ serving = c /\ stream[c] # <<>>
    /\ LET most == IF Len(stream[c]) < BlobSize + 1 THEN Len(stream[c]) ELSE BlobSize + 1
       IN  \E n \in (IF Fragment THEN 1 .. most ELSE {most}) :
             /\ Took(c, SubSeq(stream[c], 1, n))
             /\ stream' = [stream EXCEPT ![c] = SubSeq(@, n + 1, Len(@))]
    /\ UNCHANGED <<uuid, blobs, conn, net, ready, serving, faults>>

(* It ends with nothing to read or with the end of the connection.         *)
RecvEnd(c) ==
    /\ serving = c /\ stream[c] = <<>>
    /\ serving' = Nobody
    /\ conn' = [conn EXCEPT ![c] = IF @ \in {"finished", "reset"} THEN "closed" ELSE @]
    /\ ready' = IF conn[c] \in {"finished", "reset"} THEN ready \ {c} ELSE ready
    /\ UNCHANGED <<uuid, blobs, stream, net, BdMap, delivered, faults>>

(* The UDP loop: it never leaves the socket. *)
RecvFrom ==
    /\ Udp /\ serving = Listen
    /\ \E d \in BagToSet(net) :
         /\ net' = net (-) SetToBag({d})
         /\ Took(d.from, d.text)
    /\ UNCHANGED <<uuid, blobs, conn, stream, ready, serving, faults>>

-----------------------------------------------------------------------------
Init ==
    /\ uuid = [c \in Clients |-> 0]
    /\ blobs = [c \in Clients |-> <<>>]
    /\ conn = [c \in Clients |-> "none"]
    /\ stream = [c \in Clients |-> <<>>]
    /\ net = EmptyBag
    /\ ready = {} /\ serving = Nobody
    /\ BdMap = <<>>
    /\ delivered = <<>>
    /\ lost = 0 /\ copies = 0 /\ resets = 0

Sending(c) == Prepare(c) \/ Connect(c) \/ Bsend(c) \/ BsendTo(c) \/ Finish(c)
Serve == EpollWait \/ Accept \/ AcceptAgain \/ RecvFrom \/ \E c \in Clients : Recv(c) \/ RecvEnd(c)

Next ==
    \/ \E c \in Clients : Sending(c) \/ Reset(c)
    \/ Lose \/ Duplicate
    \/ Serve

(* The server loops for ever; a client that has begun goes on.             *)
Spec ==
    /\ Init /\ [][Next]_vars
    /\ WF_vars(Serve)
    /\ \A c \in Clients : WF_vars(Prepare(c)) /\ WF_vars(Connect(c)) /\ WF_vars(Bsend(c))

-----------------------------------------------------------------------------
(* Properties. *)

(* Type invariant of the clients, the sockets and the blobs. *)
TypeOK ==
    /\ \A c \in Clients :
         /\ conn[c] \in {"none", "backlog", "open", "finished", "reset", "closed"}
         /\ \A i \in DOMAIN stream[c] : stream[c][i].head \in BOOLEAN
    /\ ready \subseteq Clients \cup {Listen}
    /\ serving \in Clients \cup {Listen, Nobody}
    /\ \A u \in DOMAIN BdMap : \A b \in BdMap[u] :
           b.uuid = u /\ Len(b.value) <= (IF u = 0 THEN BlobSize + 1 ELSE BlobSize)

(* What the server hands to its processor is a message that the client of  *)
(* that connection sent, whole and in order, although blobs of all clients *)
(* go through one map, and datagrams overtake each other, are lost and     *)
(* come twice.  bigdata_transfer.cpp:355 says "receive all blobs of big    *)
(* data", :164 "unique message id".                                        *)
DeliveredIntact ==
    \A i \in DOMAIN delivered : delivered[i].value = Message(delivered[i].from)

(* Over TCP no message is processed twice. *)
DeliveredOnce ==
    \A i, j \in DOMAIN delivered : i # j => delivered[i].from # delivered[j].from

(* No data and no connection waits without an event: the loop reads until  *)
(* there is nothing left, "as we are running in edge-triggered mode and    *)
(* won't get a notification again for the same data" (EpollServer.cpp:521).*)
NothingStranded ==
    /\ \A c \in Clients : conn[c] \in {"open", "finished"} /\ stream[c] # <<>> =>
                              c \in ready \/ serving = c
    /\ Backlog # {} /\ ~Udp => Listen \in ready \/ serving = Listen

Arrived(c) == conn[c] = "reset" \/ \E i \in DOMAIN delivered : delivered[i].from = c

(* Every message is processed, unless its client dies. *)
Arrives == \A c \in Clients : <>Arrived(c)

(* The map forgets a message that is complete: when every client is done   *)
(* no blob is left in it.                                                  *)
NothingLeft ==
    (\A c \in Clients : \E i \in DOMAIN delivered : delivered[i].from = c) => BdMap = <<>>
=============================================================================
