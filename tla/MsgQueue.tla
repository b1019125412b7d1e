------------------------------ MODULE MsgQueue ------------------------------
(* The message-queue transport of ZHT over MPI: client processes of a node  *)
(* talk to the node's broker through two System V queues, one for requests  *)
(* and one for replies (ipc_plus, mq_proxy_stub), and the broker exchanges  *)
(* every request for an answer with an MPI server (mpi_broker,              *)
(* mpi_proxy_stub).                                                         *)
(*                                                                          *)
(* A message has a type.  Type 1 asks the broker for an address, type 2     *)
(* gives one, and every other type is the address of a client.  A request   *)
(* and its answer are told apart from others by the client, its process and *)
(* a number.                                                                *)
EXTENDS Integers, Sequences, FiniteSets, Functions

CONSTANTS
    Clients,
    FirstAddress, MaxAddress, LowAddress,   \* 0x100, 32000 and 3
    QueueCap,       \* messages that a queue holds
    MaxRequests,    \* bound: requests of a client
    MaxDeaths,      \* bound: clients that are killed
    MaxCrashes,     \* bound: brokers that are killed and started again
    None

(* What tells a request from the others: its client, the client's process  *)
(* and the number of the request.                                          *)
Tickets == [client : Clients, life : Nat, n : Nat]

(* What the constants have to be. *)
MsgQueueAssumption ==
    /\ {FirstAddress, MaxAddress, LowAddress} \subseteq Nat \ (0 .. 2)
    /\ LowAddress <= FirstAddress /\ FirstAddress <= MaxAddress
    /\ QueueCap \in Nat \ {0}
    /\ {MaxRequests, MaxDeaths, MaxCrashes} \subseteq Nat
    /\ IsFiniteSet(Clients)
    /\ None \notin Tickets

(* The broker lives on, and there are more addresses from the first one on *)
(* than processes that may ask for one.                                    *)
AddressesSuffice ==
    /\ MaxCrashes = 0
    /\ FirstAddress + Cardinality(Clients) + MaxDeaths <= MaxAddress

VARIABLES
    nextClient,
    req,        \* the request queue: sequence of [type, data]
    rep,        \* the reply queue: type -> sequence of data
    broker,     \* what the broker does: [at, type, data]
    pc,         \* a client: "new", "registering", "ready", "waiting", "unsent"
    myAddress,  \* its address, 0 before it has one
    ticket,     \* its last request
    answer,     \* the answer to it, None before it has come
    deaths, crashes

queues  == <<req, rep>>
clients == <<pc, myAddress, ticket, answer>>
vars    == <<nextClient, queues, broker, clients, deaths, crashes>>

Register  == 1
Assign    == 2
Addresses == LowAddress .. MaxAddress
Types     == {Assign} \cup Addresses

Idle == [at |-> "idle"]

(* msgsnd waits while the queue is full. *)
Replies    == SumFunction([t \in Types |-> Len(rep[t])])
ReqHasRoom == Len(req) < QueueCap
RepHasRoom == Replies < QueueCap

-----------------------------------------------------------------------------
(* MsgClient::xmit, first call: ask for an address.  If that fails the     *)
(* call returns, since recv needs an address, and nothing has changed.     *)
AskAddress(c) ==
    /\ pc[c] = "new"
    /\ ReqHasRoom
    /\ req' = Append(req, [type |-> Register, data |-> c])
    /\ pc' = [pc EXCEPT ![c] = "registering"]
    /\ UNCHANGED <<nextClient, rep, broker, myAddress, ticket, answer, deaths, crashes>>

(* Variant: the reply stays in the queue. *)
TakeAddressLeavingIt(c) ==
    /\ pc[c] = "registering"
    /\ rep[Assign] # <<>>
    /\ myAddress' = [myAddress EXCEPT ![c] = Head(rep[Assign])]
    /\ pc' = [pc EXCEPT ![c] = "ready"]
    /\ UNCHANGED <<nextClient, queues, broker, ticket, answer, deaths, crashes>>

(* The first address that comes is taken, even if another client asked.    *)
TakeAddress(c) ==
    /\ pc[c] = "registering"
    /\ rep[Assign] # <<>>
    /\ myAddress' = [myAddress EXCEPT ![c] = Head(rep[Assign])]
    /\ rep' = [rep EXCEPT ![Assign] = Tail(@)]
    /\ pc' = [pc EXCEPT ![c] = "ready"]
    /\ UNCHANGED <<nextClient, req, broker, ticket, answer, deaths, crashes>>

(* MQProxy::sendrecv of a registered client: the request is sent under the *)
(* client's address, and the reply of that type is waited for.             *)
Send(c) ==
    /\ pc[c] = "ready"
    /\ ticket[c].n < MaxRequests
    /\ ReqHasRoom
    /\ ticket' = [ticket EXCEPT ![c].n = @ + 1]
    /\ answer' = [answer EXCEPT ![c] = None]
    /\ req' = Append(req, [type |-> myAddress[c], data |-> ticket'[c]])
    /\ pc' = [pc EXCEPT ![c] = "waiting"]
    /\ UNCHANGED <<nextClient, rep, broker, myAddress, deaths, crashes>>

(* A request that is larger than IPC_MAX_MSG_SZ, or that msgsnd refuses,   *)
(* is not sent; sendrecv waits for the reply all the same.                 *)
SendFails(c) ==
    /\ pc[c] = "ready"
    /\ ticket[c].n < MaxRequests
    /\ ticket' = [ticket EXCEPT ![c].n = @ + 1]
    /\ answer' = [answer EXCEPT ![c] = None]
    /\ pc' = [pc EXCEPT ![c] = "unsent"]
    /\ UNCHANGED <<nextClient, queues, broker, myAddress, deaths, crashes>>

Receive(c) ==
    /\ pc[c] = "waiting"
    /\ rep[myAddress[c]] # <<>>
    /\ answer' = [answer EXCEPT ![c] = Head(rep[myAddress[c]])]
    /\ rep' = [rep EXCEPT ![myAddress[c]] = Tail(@)]
    /\ pc' = [pc EXCEPT ![c] = "ready"]
    /\ UNCHANGED <<nextClient, req, broker, myAddress, ticket, deaths, crashes>>

(* A reply for another client of the same address ends that wait: sendrecv *)
(* returns false.                                                          *)
ReceiveUnsent(c) ==
    /\ pc[c] = "unsent"
    /\ rep[myAddress[c]] # <<>>
    /\ rep' = [rep EXCEPT ![myAddress[c]] = Tail(@)]
    /\ pc' = [pc EXCEPT ![c] = "ready"]
    /\ UNCHANGED <<nextClient, req, broker, myAddress, ticket, answer, deaths, crashes>>

-----------------------------------------------------------------------------
(* MsgServer::recv takes the oldest request; a registration is answered    *)
(* inside the loop, any other request goes on to the MPI server.           *)
Recv ==
    /\ broker.at = "idle"
    /\ req # <<>>
    /\ req' = Tail(req)
    /\ broker' = IF Head(req).type = Register
                 THEN [at |-> "register"]
                 ELSE [at |-> "forward", type |-> Head(req).type, data |-> Head(req).data]
    /\ UNCHANGED <<nextClient, rep, clients, deaths, crashes>>

(* Variant: the bound is compared with the old address. *)
SuccessorLate(a) == IF a > MaxAddress THEN LowAddress ELSE a + 1

(* nextClient wraps around, whatever addresses are still in use. *)
Successor(a) == IF a + 1 > MaxAddress THEN LowAddress ELSE a + 1

RegisterReply ==
    /\ broker.at = "register"
    /\ RepHasRoom
    /\ rep' = [rep EXCEPT ![Assign] = Append(@, nextClient)]
    /\ nextClient' = Successor(nextClient)
    /\ broker' = Idle
    /\ UNCHANGED <<req, clients, deaths, crashes>>

(* Variant: the broker replies before and after the exchange. *)
ExchangeAgain ==
    /\ broker.at = "forward"
    /\ RepHasRoom
    /\ rep' = [rep EXCEPT ![broker.type] = Append(@, broker.data)]
    /\ broker' = [broker EXCEPT !.at = "reply"]
    /\ UNCHANGED <<nextClient, req, clients, deaths, crashes>>

(* MPIProxy::sendrecv and the MPI server's loop: one exchange at a time.   *)
Exchange ==
    /\ broker.at = "forward"
    /\ broker' = [broker EXCEPT !.at = "reply"]
    /\ UNCHANGED <<nextClient, queues, clients, deaths, crashes>>

(* Variant: the reply goes to the client that registered last. *)
XmitToNewest ==
    /\ broker.at = "reply"
    /\ RepHasRoom
    /\ nextClient > LowAddress
    /\ rep' = [rep EXCEPT ![nextClient - 1] = Append(@, broker.data)]
    /\ broker' = Idle
    /\ UNCHANGED <<nextClient, req, clients, deaths, crashes>>

(* MsgServer::xmit: the reply has the type of the request at hand. *)
Xmit ==
    /\ broker.at = "reply"
    /\ RepHasRoom
    /\ rep' = [rep EXCEPT ![broker.type] = Append(@, broker.data)]
    /\ broker' = Idle
    /\ UNCHANGED <<nextClient, req, clients, deaths, crashes>>

-----------------------------------------------------------------------------
(* The queues outlive the processes.  A client that is killed starts again *)
(* without an address; what it had in the queues stays there.              *)
Die(c) ==
    /\ pc[c] # "new"
    /\ deaths < MaxDeaths
    /\ deaths' = deaths + 1
    /\ pc' = [pc EXCEPT ![c] = "new"]
    /\ myAddress' = [myAddress EXCEPT ![c] = 0]
    /\ ticket' = [ticket EXCEPT ![c] = [client |-> c, life |-> @.life + 1, n |-> 0]]
    /\ answer' = [answer EXCEPT ![c] = None]
    /\ UNCHANGED <<nextClient, queues, broker, crashes>>

(* A broker that is killed, or exits since a call of its own failed, loses *)
(* the request at hand, and starts again with the first address.           *)
Crash ==
    /\ crashes < MaxCrashes
    /\ crashes' = crashes + 1
    /\ nextClient' = FirstAddress
    /\ broker' = Idle
    /\ UNCHANGED <<queues, clients, deaths>>

Init ==
    /\ nextClient = FirstAddress
    /\ req = <<>>
    /\ rep = [t \in Types |-> <<>>]
    /\ broker = Idle
    /\ pc = [c \in Clients |-> "new"]
    /\ myAddress = [c \in Clients |-> 0]
    /\ ticket = [c \in Clients |-> [client |-> c, life |-> 0, n |-> 0]]
    /\ answer = [c \in Clients |-> None]
    /\ deaths = 0 /\ crashes = 0

ClientStep(c) ==
    \/ AskAddress(c) \/ TakeAddress(c)
    \/ Send(c) \/ SendFails(c)
    \/ Receive(c) \/ ReceiveUnsent(c)

BrokerStep == Recv \/ RegisterReply \/ Exchange \/ Xmit

Next ==
    \/ \E c \in Clients : ClientStep(c) \/ Die(c)
    \/ BrokerStep
    \/ Crash

(* The broker and the clients are processes of their own. *)
Spec ==
    /\ Init /\ [][Next]_vars
    /\ WF_vars(BrokerStep)
    /\ \A c \in Clients : WF_vars(TakeAddress(c)) /\ WF_vars(Receive(c) \/ ReceiveUnsent(c))

-----------------------------------------------------------------------------
(* Properties. *)

(* Type invariant of the queues, the broker and the clients. *)
TypeOK ==
    /\ nextClient \in Addresses
    /\ \A i \in DOMAIN req : req[i].type \in {Register} \cup Addresses
    /\ \A i \in DOMAIN rep[Assign] : rep[Assign][i] \in Addresses
    /\ broker.at \in {"idle", "register", "forward", "reply"}
    /\ \A c \in Clients :
         /\ pc[c] \in {"new", "registering", "ready", "waiting", "unsent"}
         /\ myAddress[c] \in Addresses \cup {0}
         /\ pc[c] \in {"ready", "waiting", "unsent"} <=> myAddress[c] # 0

(* ipc_plus.h:345 says "Clients register with the server to obtain a       *)
(* unique identification (address)": no two clients hold the same address, *)
(* and none holds an address that is still to be taken.                    *)
UniqueAddresses ==
    \A c \in Clients : myAddress[c] # 0 =>
        /\ \A d \in Clients \ {c} : myAddress[d] # myAddress[c]
        /\ \A i \in DOMAIN rep[Assign] : rep[Assign][i] # myAddress[c]

(* The answer that a client takes is the answer to its own last request,   *)
(* although registrations may be swapped, processes die while they wait,   *)
(* and their requests and answers stay in the queues.                      *)
OwnAnswers == \A c \in Clients : answer[c] \in {None, ticket[c]}

(* No request is answered twice, even by a broker that was started again:  *)
(* it is in one place only of the two queues, the broker and its client.   *)
OneAnswer ==
    \A c \in Clients :
        LET t == ticket[c]
        IN  Cardinality({i \in DOMAIN req : req[i].type # Register /\ req[i].data = t})
            + Cardinality({p \in Addresses \X (1 .. QueueCap) :
                               p[2] \in DOMAIN rep[p[1]] /\ rep[p[1]][p[2]] = t})
            + (IF broker.at \in {"forward", "reply"} /\ broker.data = t THEN 1 ELSE 0)
            + (IF answer[c] = t THEN 1 ELSE 0) <= 1

(* MsgServer::recv gives no address to two clients, and a client takes from *)
(* the reply queue the answer to its own request, once.                     *)
AnswersOwn == TypeOK /\ UniqueAddresses /\ OwnAnswers /\ OneAnswer

Waits(c) == pc[c] \in {"registering", "waiting"}

(* Every client whose request was sent goes on: with its address and with  *)
(* its answer.  ipc_plus.h:189: "Two message queues are used to avoid      *)
(* deadlocks."  A client whose request was not sent is left out.           *)
NobodyHangs == \A c \in Clients : Waits(c) ~> ~Waits(c)

(* ... since MQProxy::sendrecv does not look at what xmit returns.  It     *)
(* would have to for every call to return.                                 *)
UnsentCallsReturn == \A c \in Clients : pc[c] = "unsent" ~> pc[c] # "unsent"
=============================================================================
