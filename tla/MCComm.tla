------------------------------- MODULE MCComm -------------------------------
(* The parts that carry a request to a ZHT server, for TLC: the blobs over  *)
(* TCP and over UDP (BigMessage), the cache of sockets (LRUCache), the      *)
(* message queues of the MPI broker (MsgQueue), and the choice of server    *)
(* and protocol (Membership); and the conversations between MATRIX          *)
(* processes (Transport).  They share no state.  A behaviour is one of one  *)
(* part, which its first state chooses; the variables of the others are     *)
(* "off".                                                                   *)
EXTENDS Integers

CONSTANTS c1, c2, None, k1, k2, k3, k4, small, large, client, server1

VARIABLES
    part,
    uuid, blobs, conn, stream, net, ready, serving, BdMap, delivered, lost, copies, resets,
    list, index, curr_size, recent,
    nextClient, req, rep, broker, pc, myAddress, ticket, answer, deaths, crashes,
    inits, ZHTParameters, NeighborSeeds, NeighborVector, proxy, server, stub,
    kind, tasks, output, sends, socket, open, rpc, buf, result, clean

blobVars  == <<uuid, blobs, conn, stream, net, ready, serving, BdMap, delivered, lost,
               copies, resets>>
cacheVars == <<list, index, curr_size, recent>>
queueVars == <<nextClient, req, rep, broker, pc, myAddress, ticket, answer, deaths, crashes>>
confVars  == <<inits, ZHTParameters, NeighborSeeds, NeighborVector, proxy, server, stub>>
talkVars  == <<kind, tasks, output, sends, socket, open, rpc, buf, result, clean>>
vars      == <<part, blobVars, cacheVars, queueVars, confVars, talkVars>>

(* With blobs of two units, a message of one unit is one short blob, three  *)
(* units end in a short blob, and four fill both blobs.                     *)
Lengths == <<3, 4, 1>>

Tcp == INSTANCE BigMessage WITH
    Clients <- {1, 2}, Length <- [c \in {1, 2} |-> Lengths[c]], Uuids <- {101, 102},
    UniqueIds <- TRUE, BlobSize <- 2, Fragment <- FALSE, Udp <- FALSE,
    MaxLost <- 0, MaxCopies <- 0, MaxResets <- 1, Listen <- 99

Udp == INSTANCE BigMessage WITH
    Clients <- {1, 2, 3}, Length <- Lengths, Uuids <- {101, 102, 103},
    UniqueIds <- TRUE, BlobSize <- 2, Fragment <- FALSE, Udp <- TRUE,
    MaxLost <- 1, MaxCopies <- 2, MaxResets <- 0, Listen <- 99

(* Four sockets, small and large, where three small ones fit. *)
Cache == INSTANCE LRUCache WITH
    Keys <- {k1, k2, k3, k4}, Datas <- {small, large},
    Sizefn <- [d \in {small, large} |-> IF d = small THEN 1 ELSE 2],
    MaxSize <- 3, PtrTouch <- {TRUE}

(* Two clients and a broker that lives on; a broker that is started again,  *)
(* with few addresses.                                                      *)
Queues == INSTANCE MsgQueue WITH
    Clients <- {c1, c2}, FirstAddress <- 5, MaxAddress <- 12, LowAddress <- 3,
    QueueCap <- 4, MaxRequests <- 2, MaxDeaths <- 2, MaxCrashes <- 0

Reborn == INSTANCE MsgQueue WITH
    Clients <- {c1, c2}, FirstAddress <- 5, MaxAddress <- 6, LowAddress <- 3,
    QueueCap <- 4, MaxRequests <- 2, MaxDeaths <- 1, MaxCrashes <- 1

(* Files of many neighbours, and files of many parameters, in the order of  *)
(* their texts.                                                             *)
Param(name, value) == [name |-> name, value |-> value]
OnlyTcp   == <<Param("PROTOCOL", "TCP")>>
AllParams == <<Param("PORT", "50000"), Param("PROTOCOL", "MPI"), Param("PROTOCOL", "TCP"),
               Param("PROTOCOL", "UDP")>>

Neighbors == INSTANCE Membership WITH
    Clients <- {client}, Servers <- {server1}, NumNeighbors <- 3, Params <- OnlyTcp,
    MaxParamLines <- 1, MaxNeighborLines <- 4, MaxInits <- 2, Hashes <- 0 .. 5

Protocols == INSTANCE Membership WITH
    Clients <- {client}, Servers <- {server1}, NumNeighbors <- 1, Params <- AllParams,
    MaxParamLines <- 3, MaxNeighborLines <- 1, MaxInits <- 2, Hashes <- 0 .. 5

(* Tasks as in README.md, "user directory command": four conversations, of  *)
(* up to three tasks; and conversations whose connection may be refused.    *)
(* The batches and the long output fill the buffer; a command and an output *)
(* have a $.                                                                *)
Task(id, cmd) == [taskid |-> <<id>>, user |-> <<"kewang">>, dir |-> <<"bin">>,
                  cmd |-> cmd, datalength |-> 0]
Task1       == Task("t1", <<"hostname">>)
Task2       == Task("t2", <<"date">>)
Task3       == Task("t3", <<"echo", "$", "home">>)
SomeOutputs == {<<"node1">>, <<"a", "$", "b">>, [i \in 1 .. 60 |-> "x"]}
AllKinds    == {"submit", "steal", "push", "data"}

Talks == INSTANCE Transport WITH
    Kinds <- AllKinds, Outputs <- SomeOutputs,
    Batches <- {<<>>, <<Task1>>, <<Task3>>, <<Task2, Task1>>, <<Task1, Task2, Task3>>},
    MaxTaskPerPkg <- 2, Buf <- 52, MayRefuse <- FALSE, stream <- socket

Refusals == INSTANCE Transport WITH
    Kinds <- AllKinds, Outputs <- SomeOutputs, Batches <- {<<>>, <<Task2>>},
    MaxTaskPerPkg <- 2, Buf <- 52, MayRefuse <- TRUE, stream <- socket

ASSUME /\ Tcp!BigMessageAssumption /\ Udp!BigMessageAssumption
       /\ Cache!LRUAssumption /\ Cache!FetchIsUse
       /\ Queues!MsgQueueAssumption /\ Queues!AddressesSuffice
       /\ Reborn!MsgQueueAssumption
       /\ Neighbors!MembershipAssumption /\ Protocols!MembershipAssumption
       /\ Talks!TransportAssumption /\ Refusals!TransportAssumption

-----------------------------------------------------------------------------
NoBlobs ==
    /\ uuid = "off" /\ blobs = "off" /\ conn = "off" /\ stream = "off" /\ net = "off"
    /\ ready = "off" /\ serving = "off" /\ BdMap = "off" /\ delivered = "off"
    /\ lost = "off" /\ copies = "off" /\ resets = "off"
NoCache == list = "off" /\ index = "off" /\ curr_size = "off" /\ recent = "off"
NoQueue ==
    /\ nextClient = "off" /\ req = "off" /\ rep = "off" /\ broker = "off" /\ pc = "off"
    /\ myAddress = "off" /\ ticket = "off" /\ answer = "off"
    /\ deaths = "off" /\ crashes = "off"
NoConf ==
    /\ inits = "off" /\ ZHTParameters = "off" /\ NeighborSeeds = "off"
    /\ NeighborVector = "off" /\ proxy = "off" /\ server = "off" /\ stub = "off"
NoTalk ==
    /\ kind = "off" /\ tasks = "off" /\ output = "off" /\ sends = "off" /\ socket = "off"
    /\ open = "off" /\ rpc = "off" /\ buf = "off" /\ result = "off" /\ clean = "off"

Init ==
    \/ part = "tcp" /\ Tcp!Init /\ NoCache /\ NoQueue /\ NoConf /\ NoTalk
    \/ part = "udp" /\ Udp!Init /\ NoCache /\ NoQueue /\ NoConf /\ NoTalk
    \/ part = "cache" /\ Cache!Init /\ NoBlobs /\ NoQueue /\ NoConf /\ NoTalk
    \/ part = "queues" /\ Queues!Init /\ NoBlobs /\ NoCache /\ NoConf /\ NoTalk
    \/ part = "reborn" /\ Reborn!Init /\ NoBlobs /\ NoCache /\ NoConf /\ NoTalk
    \/ part = "neighbors" /\ Neighbors!Init /\ NoBlobs /\ NoCache /\ NoQueue /\ NoTalk
    \/ part = "protocols" /\ Protocols!Init /\ NoBlobs /\ NoCache /\ NoQueue /\ NoTalk
    \/ part = "talks" /\ Talks!Init /\ NoBlobs /\ NoCache /\ NoQueue /\ NoConf
    \/ part = "refusals" /\ Refusals!Init /\ NoBlobs /\ NoCache /\ NoQueue /\ NoConf

(* A step of one part. *)
TcpDo(A)      == part = "tcp" /\ A /\ UNCHANGED <<part, cacheVars, queueVars, confVars, talkVars>>
UdpDo(A)      == part = "udp" /\ A /\ UNCHANGED <<part, cacheVars, queueVars, confVars, talkVars>>
CacheDo(A)    == part = "cache" /\ A /\ UNCHANGED <<part, blobVars, queueVars, confVars, talkVars>>
QueuesDo(A)   == part = "queues" /\ A /\ UNCHANGED <<part, blobVars, cacheVars, confVars, talkVars>>
RebornDo(A)   == part = "reborn" /\ A /\ UNCHANGED <<part, blobVars, cacheVars, confVars, talkVars>>
NeighborsDo(A) == part = "neighbors" /\ A /\ UNCHANGED <<part, blobVars, cacheVars, queueVars, talkVars>>
ProtocolsDo(A) == part = "protocols" /\ A /\ UNCHANGED <<part, blobVars, cacheVars, queueVars, talkVars>>
TalksDo(A)    == part = "talks" /\ A /\ UNCHANGED <<part, blobVars, cacheVars, queueVars, confVars>>
RefusalsDo(A) == part = "refusals" /\ A /\ UNCHANGED <<part, blobVars, cacheVars, queueVars, confVars>>

Next ==
    \/ TcpDo(Tcp!Next)
    \/ UdpDo(Udp!Next)
    \/ CacheDo(Cache!Next)
    \/ QueuesDo(Queues!Next)
    \/ RebornDo(Reborn!Next)
    \/ NeighborsDo(Neighbors!Next)
    \/ ProtocolsDo(Protocols!Next)
    \/ TalksDo(Talks!Next)
    \/ RefusalsDo(Refusals!Next)

(* The fairness of BigMessage, MsgQueue and Transport.  A behaviour is one  *)
(* of one part, so that steps of different parts may share a conjunct.      *)
Fairness ==
    /\ WF_vars(\/ TcpDo(Tcp!Serve) \/ QueuesDo(Queues!BrokerStep)
               \/ TalksDo(Talks!Receiver) \/ RefusalsDo(Refusals!Receiver))
    /\ WF_vars(\/ TcpDo(Tcp!Prepare(1)) \/ QueuesDo(Queues!TakeAddress(c1))
               \/ TalksDo(Talks!Sender) \/ RefusalsDo(Refusals!Sender))
    /\ WF_vars(TcpDo(Tcp!Prepare(2)) \/ QueuesDo(Queues!TakeAddress(c2)))
    /\ WF_vars(TcpDo(Tcp!Connect(1)) \/ QueuesDo(Queues!Receive(c1) \/ Queues!ReceiveUnsent(c1)))
    /\ WF_vars(TcpDo(Tcp!Connect(2)) \/ QueuesDo(Queues!Receive(c2) \/ Queues!ReceiveUnsent(c2)))
    /\ WF_vars(TcpDo(Tcp!Bsend(1)))
    /\ WF_vars(TcpDo(Tcp!Bsend(2)))

Spec == Init /\ [][Next]_vars /\ Fairness

-----------------------------------------------------------------------------
(* What getBdStr hands over is what one client sent, whole and in order,    *)
(* over TCP and over UDP; over TCP nothing is handed over twice, the        *)
(* edge-triggered loop of serve leaves no data and no connection without an *)
(* event, and no blob of a message that was handed over is kept.            *)
BlobsDelivered ==
    /\ part = "tcp" => /\ Tcp!TypeOK /\ Tcp!DeliveredIntact /\ Tcp!DeliveredOnce
                       /\ Tcp!NothingStranded /\ Tcp!NothingLeft
    /\ part = "udp" => Udp!TypeOK /\ Udp!DeliveredIntact

(* Every message is handed over, unless its client dies. *)
Arrives == \A c \in {1, 2} : <>(part = "tcp" => Tcp!Arrived(c))

(* After every call of the cache _index and _list hold the same keys,       *)
(* _curr_size counts entries that fit into _max_size, and the entries stand *)
(* in the order of their last use, so that insert evicts the right one.     *)
CacheConsistent == part = "cache" => Cache!CacheConsistent

(* While the broker lives, MsgServer::recv gives no address to two clients, *)
(* and a client takes from the reply queue the answer to its own request.   *)
(* No request is answered twice, not even by a broker that was killed.      *)
AnswersOwn ==
    /\ part = "queues" => Queues!AnswersOwn
    /\ part = "reborn" => Reborn!TypeOK /\ Reborn!OneAnswer

(* Every client of the broker gets its address and the answers to the       *)
(* requests that xmit sent.                                                 *)
NobodyHangs ==
    \A c \in {c1, c2} :
        (part = "queues" /\ Queues!Waits(c)) ~> (part = "queues" /\ ~Queues!Waits(c))

(* Processes that read the same neighbours send a key to the same server,   *)
(* and a client and a server that read the same parameters talk the same    *)
(* protocol.                                                                *)
ConfigurationsAgree ==
    /\ part = "neighbors" => Neighbors!ConfigurationsAgree
    /\ part = "protocols" => Protocols!ConfigurationsAgree

(* The receiver of a conversation gets the tasks, or the data, that were    *)
(* sent, in their order, unless a read filled the buffer, was the first one *)
(* and too short for proc_req, or ended with a $ of the text.               *)
ReceivedAsSent == part = "talks" => Talks!ReceivedAsSent

(* Every conversation ends, also one whose connection is refused. *)
ConversationEnds == <>(part \in {"talks", "refusals"} => Talks!Ended)
=============================================================================
