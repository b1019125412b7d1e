------------------------------ MODULE Membership ------------------------------
(* The configuration of ZHT: every client and server reads its own copy of  *)
(* zht.conf and neighbor.conf (ConfHandler) and works out from them which   *)
(* server keeps a key and how to talk to it.  Nothing but the files makes   *)
(* them agree.                                                              *)
(*                                                                          *)
(* A line of a file is 0 for a comment or an empty line.  Otherwise it is a *)
(* number: the place of the entry "name,value" among all entries in the     *)
(* order of their texts, which is the order of the std::map it is kept in.  *)
EXTENDS Lists

CONSTANTS
    Clients, Servers,
    NumNeighbors,       \* different lines of neighbor.conf
    Params,             \* lines of zht.conf by the order of their texts: [name, value]
    MaxParamLines,      \* bound: lines of zht.conf
    MaxNeighborLines,   \* bound: lines of neighbor.conf
    MaxInits,           \* bound: initialisations of a client's process
    Hashes              \* hash codes of keys

Procs == Clients \cup Servers

Protocol(value) == [name |-> "PROTOCOL", value |-> value]

(* What the constants have to be. *)
MembershipAssumption ==
    /\ Clients \cap Servers = {}
    /\ {NumNeighbors, MaxParamLines, MaxNeighborLines, MaxInits} \subseteq Nat
    /\ Hashes \subseteq Nat
    /\ Params \in Seq([name : STRING, value : STRING])
    /\ \A i, j \in DOMAIN Params :      \* "PROTOCOL,TCP" is before "PROTOCOL,UDP"
         Params[i] = Protocol("TCP") /\ Params[j] = Protocol("UDP") => i < j

VARIABLES
    inits,              \* [Procs -> number of initialisations]; BEEN_INIT is inits > 0
    ZHTParameters,      \* [Procs -> SUBSET DOMAIN Params]
    NeighborSeeds,      \* [Procs -> SUBSET 1 .. NumNeighbors]
    NeighborVector,     \* [Procs -> Seq(1 .. NumNeighbors)]
    proxy,              \* [Clients -> what createProxy returned last]
    server,             \* [Servers -> "off", "exited" or the protocol it serves]
    stub                \* [Servers -> what createStub returned]

vars == <<inits, ZHTParameters, NeighborSeeds, NeighborVector, proxy, server, stub>>

-----------------------------------------------------------------------------
Files(n, max) == UNION {[1 .. k -> 0 .. n] : k \in 0 .. max}

(* setParametersInternal: comments and empty lines are left out, and a map  *)
(* keeps an entry once.                                                     *)
SetParametersInternal(seeds, file) == seeds \cup (ToSet(file) \ {0})

(* A plausible bug: the servers in the order of the file. *)
SetNeighborVectorAsRead(vec, seeds, file) == vec \o SelectSeq(file, LAMBDA l : l # 0)

(* setNeighborVector: the entries of the map are added to the vector. *)
SetNeighborVector(vec, seeds, file) == vec \o SetToSortSeq(seeds, <)

(* initConf: only the first call of a process reads the files. *)
InitConf(p, zhtConf, neighborConf) ==
    /\ inits' = [inits EXCEPT ![p] = @ + 1]
    /\ IF inits[p] > 0 THEN UNCHANGED <<ZHTParameters, NeighborSeeds, NeighborVector>>
       ELSE /\ ZHTParameters' = [ZHTParameters EXCEPT ![p] = SetParametersInternal(@, zhtConf)]
            /\ NeighborSeeds' = [NeighborSeeds EXCEPT ![p] = SetParametersInternal(@, neighborConf)]
            /\ NeighborVector' = [NeighborVector EXCEPT ![p] =
                                     SetNeighborVector(@, NeighborSeeds'[p], neighborConf)]

(* get_zhtconf_parameter: the first entry of that name in the map, or none. *)
Named(params, name) == {i \in params : Params[i].name = name}

GetZhtconfParameter(params, name) ==
    IF Named(params, name) = {} THEN "" ELSE Params[Min(Named(params, name))].value

Has(params, value) == \E i \in params : Params[i] = Protocol(value)

(* createProxy and createStub look for the entries themselves. *)
CreateProxy(params) ==
    IF Has(params, "TCP") THEN "TCP"
    ELSE IF Has(params, "UDP") THEN "UDP"
    ELSE IF Has(params, "MPI") THEN "MPI" ELSE "none"

(* A plausible bug: UDP is looked for first. *)
CreateStubUdpFirst(params) ==
    IF Has(params, "UDP") THEN "UDP" ELSE IF Has(params, "TCP") THEN "TCP" ELSE "none"

CreateStub(params) ==
    IF Has(params, "TCP") THEN "TCP" ELSE IF Has(params, "UDP") THEN "UDP" ELSE "none"

(* getHostEntityByKey: the server of a key, by the hash code of the key. *)
GetHostEntityByKey(p, hash) == NeighborVector[p][(hash % Len(NeighborVector[p])) + 1]

-----------------------------------------------------------------------------
(* ZHTClient::init. *)
ClientInit(c) ==
    /\ inits[c] < MaxInits
    /\ \E z \in Files(Len(Params), MaxParamLines) : \E n \in Files(NumNeighbors, MaxNeighborLines) :
          InitConf(c, z, n)
    /\ proxy' = [proxy EXCEPT ![c] = CreateProxy(ZHTParameters'[c])]
    /\ UNCHANGED <<server, stub>>

(* main of the server, with or without -p, and the constructor of           *)
(* EpollServer: it exits without a port, without a protocol, and with one   *)
(* that is neither TCP nor UDP.                                             *)
ServerMain(s) ==
    /\ inits[s] = 0
    /\ \E z \in Files(Len(Params), MaxParamLines) : \E n \in Files(NumNeighbors, MaxNeighborLines) :
          InitConf(s, z, n)
    /\ \E portGiven \in BOOLEAN :
          LET protocol == GetZhtconfParameter(ZHTParameters'[s], "PROTOCOL")
              port     == portGiven \/ GetZhtconfParameter(ZHTParameters'[s], "PORT") # ""
          IN IF port /\ protocol \in {"TCP", "UDP"}
               THEN /\ server' = [server EXCEPT ![s] = protocol]
                    /\ stub' = [stub EXCEPT ![s] = CreateStub(ZHTParameters'[s])]
               ELSE /\ server' = [server EXCEPT ![s] = "exited"]
                    /\ UNCHANGED stub
    /\ UNCHANGED proxy

Init ==
    /\ inits = [p \in Procs |-> 0]
    /\ ZHTParameters = [p \in Procs |-> {}]
    /\ NeighborSeeds = [p \in Procs |-> {}]
    /\ NeighborVector = [p \in Procs |-> <<>>]
    /\ proxy = [c \in Clients |-> "none"]
    /\ server = [s \in Servers |-> "off"]
    /\ stub = [s \in Servers |-> "none"]

Next == (\E c \in Clients : ClientInit(c)) \/ (\E s \in Servers : ServerMain(s))

Spec == Init /\ [][Next]_vars

-----------------------------------------------------------------------------
(* Processes whose first neighbor.conf listed the same servers send every   *)
(* key to the same server, in whatever order, how often and between which   *)
(* comments the lines stood in their files, and however often the process   *)
(* was initialised: a key that one of them inserts is found by the others.  *)
RoutingAgrees ==
    \A p, q \in Procs :
        inits[p] > 0 /\ inits[q] > 0 /\ NeighborSeeds[p] = NeighborSeeds[q] /\ NeighborSeeds[p] # {} =>
            \A h \in Hashes : GetHostEntityByKey(p, h) = GetHostEntityByKey(q, h)

(* A client and a running server whose zht.conf have the same entries talk  *)
(* the same protocol, even when a file names several: the server takes it   *)
(* from the first PROTOCOL entry, its stub and the client from a search for *)
(* TCP and then UDP.                                                        *)
TransportsAgree ==
    \A c \in Clients, s \in Servers :
        inits[c] > 0 /\ server[s] \in {"TCP", "UDP"} /\ ZHTParameters[c] = ZHTParameters[s] =>
            proxy[c] = server[s] /\ stub[s] = server[s]

(* What the processes work out from their files agrees. *)
ConfigurationsAgree == RoutingAgrees /\ TransportsAgree
=============================================================================
