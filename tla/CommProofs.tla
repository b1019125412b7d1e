----------------------------- MODULE CommProofs -----------------------------
(***************************************************************************)
(* Proofs about the message queues of the broker (MsgQueue) and about the  *)
(* configuration readers (Membership).                                     *)
(***************************************************************************)
EXTENDS MsgQueue, FiniteSetTheorems, WellFoundedInduction, TLAPS

(* What a queue carries, what the broker is busy with, and that it is. *)
Messages == [type : {Register} \cup Addresses, data : Clients \cup Tickets]
Handling == [at : {"forward", "reply"}, type : Addresses, data : Tickets]
Busy     == broker.at \in {"forward", "reply"}

(* Where a client may be, and where it is once it has an address. *)
Registered == {"ready", "waiting", "unsent"}
Stages     == {"new", "registering"} \cup Registered

(* A message of the request queue that is no registration. *)
Asks(i) == i \in DOMAIN req /\ req[i].type # Register

(* The queues, the broker and the clients hold what they are meant to. *)
Shape ==
    /\ nextClient \in Addresses
    /\ req \in Seq(Messages)
    /\ \A i \in DOMAIN req : Asks(i) => req[i].data \in Tickets
    /\ DOMAIN rep = Types
    /\ rep[Assign] \in Seq(Addresses)
    /\ \A a \in Addresses : rep[a] \in Seq(Tickets)
    /\ broker \in Handling \cup {Idle, [at |-> "register"]}
    /\ pc \in [Clients -> Stages]
    /\ myAddress \in [Clients -> Addresses \cup {0}]
    /\ \A c \in Clients : pc[c] \in Registered <=> myAddress[c] # 0
    /\ ticket \in [Clients -> Tickets]
    /\ \A c \in Clients : ticket[c].client = c
    /\ answer \in [Clients -> Tickets \cup {None}]

(* The request t was made, if the clients have made those of last. *)
Past(t, last) ==
    \/ t.life < last[t.client].life
    \/ t.life = last[t.client].life /\ t.n <= last[t.client].n

(* Every request in a queue or at the broker was made, and is there once.  *)
Once ==
    /\ \A i \in DOMAIN req : Asks(i) => Past(req[i].data, ticket)
    /\ \A a \in Addresses : \A i \in DOMAIN rep[a] : Past(rep[a][i], ticket)
    /\ Busy => Past(broker.data, ticket)
    /\ \A i, j \in DOMAIN req : Asks(i) /\ Asks(j) /\ req[i].data = req[j].data => i = j
    /\ \A a, b \in Addresses : \A i \in DOMAIN rep[a], j \in DOMAIN rep[b] :
         rep[a][i] = rep[b][j] => a = b /\ i = j
    /\ \A i \in DOMAIN req : Asks(i) =>
         \A a \in Addresses : \A j \in DOMAIN rep[a] : req[i].data # rep[a][j]
    /\ Busy => /\ \A i \in DOMAIN req : Asks(i) => req[i].data # broker.data
               /\ \A a \in Addresses : \A i \in DOMAIN rep[a] : rep[a][i] # broker.data

(* An answered request is nowhere any more. *)
Gone ==
    \A c \in Clients : answer[c] = ticket[c] =>
        /\ \A i \in DOMAIN req : Asks(i) => req[i].data # ticket[c]
        /\ \A a \in Addresses : \A i \in DOMAIN rep[a] : rep[a][i] # ticket[c]
        /\ Busy => broker.data # ticket[c]

(* Addresses are counted by the processes that ask for them. *)
AtBroker      == IF broker.at = "register" THEN 1 ELSE 0
Registrations == {i \in DOMAIN req : req[i].type = Register}
Unregistered  == {c \in Clients : pc[c] = "new"}

Counted ==
    /\ crashes = 0 /\ deaths \in Nat /\ deaths <= MaxDeaths
    /\ FirstAddress <= nextClient
    /\ nextClient - FirstAddress + Cardinality(Registrations)
         + AtBroker + Cardinality(Unregistered)
       <= Cardinality(Clients) + deaths

(* An address that was given is held by one client, or still to be taken. *)
Given ==
    /\ \A c \in Clients : myAddress[c] < nextClient
    /\ \A i \in DOMAIN rep[Assign] : rep[Assign][i] < nextClient
    /\ \A i, j \in DOMAIN rep[Assign] : rep[Assign][i] = rep[Assign][j] => i = j
    /\ \A c \in Clients : \A i \in DOMAIN rep[Assign] : myAddress[c] # rep[Assign][i]
    /\ \A c, d \in Clients : myAddress[c] = myAddress[d] /\ myAddress[c] # 0 => c = d

(* A message t of type a: the address was given and taken, and whoever     *)
(* holds it waits for t.                                                   *)
Owned(a, t) ==
    /\ a < nextClient
    /\ \A i \in DOMAIN rep[Assign] : rep[Assign][i] # a
    /\ \A c \in Clients : myAddress[c] = a => pc[c] = "waiting" /\ t = ticket[c]

(* The request t, or its answer, is under way with the type a. *)
UnderWay(a, t) ==
    \/ \E i \in DOMAIN req : req[i].type = a /\ req[i].data = t
    \/ \E i \in DOMAIN rep[a] : rep[a][i] = t
    \/ Busy /\ broker.type = a /\ broker.data = t

Addressed == \A a \in Addresses, t \in Tickets : UnderWay(a, t) => Owned(a, t)

QueueInv == Shape /\ Once /\ Gone
OwnInv   == QueueInv /\ Counted /\ Given /\ Addressed /\ OwnAnswers

-----------------------------------------------------------------------------
(* Queues: what msgsnd and msgrcv do to a sequence. *)

(* msgsnd: the message is put behind the others, which stay in place.      *)
LEMMA Sent ==
    ASSUME NEW S, NEW s \in Seq(S), NEW x \in S
    PROVE  /\ Append(s, x) \in Seq(S)
           /\ \A i \in DOMAIN s : i \in DOMAIN Append(s, x) /\ Append(s, x)[i] = s[i]
           /\ \A i \in DOMAIN Append(s, x) :
                \/ i \in DOMAIN s /\ Append(s, x)[i] = s[i]
                \/ i = Len(s) + 1 /\ i \notin DOMAIN s /\ Append(s, x)[i] = x
<1>1. Append(s, x) \in Seq(S) /\ Len(Append(s, x)) = Len(s) + 1
  OBVIOUS
<1>2. DOMAIN s = 1 .. Len(s) /\ DOMAIN Append(s, x) = 1 .. (Len(s) + 1) /\ Len(s) \in Nat
  BY <1>1
<1>3. \A i \in DOMAIN s : Append(s, x)[i] = s[i]
  BY <1>2
<1>4. Append(s, x)[Len(s) + 1] = x
  OBVIOUS
<1> QED
  BY <1>1, <1>2, <1>3, <1>4

(* msgrcv: the first message is taken, the others move up by one.          *)
LEMMA Taken ==
    ASSUME NEW S, NEW s \in Seq(S), s # <<>>
    PROVE  /\ Tail(s) \in Seq(S)
           /\ 1 \in DOMAIN s /\ Head(s) = s[1] /\ Head(s) \in S
           /\ DOMAIN Tail(s) \subseteq Nat
           /\ \A i \in DOMAIN Tail(s) :
                /\ i \in DOMAIN s /\ i + 1 \in DOMAIN s /\ i + 1 # 1
                /\ Tail(s)[i] = s[i + 1]
<1>1. Tail(s) \in Seq(S) /\ Len(Tail(s)) = Len(s) - 1 /\ Len(s) \in Nat \ {0}
  OBVIOUS
<1>2. DOMAIN s = 1 .. Len(s) /\ DOMAIN Tail(s) = 1 .. (Len(s) - 1)
  BY <1>1
<1>3. \A i \in DOMAIN Tail(s) : Tail(s)[i] = s[i + 1]
  BY <1>1, <1>2
<1>4. Head(s) = s[1] /\ s[1] \in S
  BY <1>1, <1>2
<1> QED
  BY <1>1, <1>2, <1>3, <1>4

-----------------------------------------------------------------------------
(* Requests are made once, and are in one place. *)

(* The kinds of messages, of things the broker does, of addresses.         *)
LEMMA Kinds ==
    ASSUME MsgQueueAssumption
    PROVE  /\ Addresses \subseteq Nat
           /\ \A a \in Addresses : a # 0 /\ a # Register /\ a # Assign
           /\ Assign \in Types /\ Addresses \subseteq Types
           /\ FirstAddress \in Addresses
BY DEF MsgQueueAssumption, Addresses, Register, Assign, Types

(* What the broker may be doing, and whether a request is at hand.         *)
LEMMA BrokerKinds ==
    ASSUME NEW b, b \in Handling \cup {Idle, [at |-> "register"]}
    PROVE  /\ b.at \in {"idle", "register", "forward", "reply"}
           /\ b.at \in {"forward", "reply"} => b \in Handling /\ b.type \in Addresses /\ b.data \in Tickets
BY DEF Handling, Idle

(* A request is a client's, of one of its lives, with a number. *)
LEMMA TicketParts ==
    ASSUME NEW t \in Tickets
    PROVE  t.client \in Clients /\ t.life \in Nat /\ t.n \in Nat
BY Zenon DEF Tickets

(* A message has a type and its data. *)
LEMMA MessageParts ==
    ASSUME NEW m \in Messages
    PROVE  m.type \in {Register} \cup Addresses
BY Zenon DEF Messages

(* MsgClient::xmit asks for an address: one message more, no request.      *)
LEMMA AskAddressOnce ==
    ASSUME MsgQueueAssumption, QueueInv, NEW c \in Clients, AskAddress(c)
    PROVE  QueueInv'
<1> USE DEF QueueInv
<1>1. PICK m : m = [type |-> Register, data |-> c]
  BY Zenon
<1>a. m \in Messages /\ m.type = Register
  BY <1>1, Zenon DEF Messages
<1>2. req' = Append(req, m) /\ req \in Seq(Messages)
  BY <1>1, Zenon DEF AskAddress, Shape
<1>3. /\ req' \in Seq(Messages)
      /\ \A i \in DOMAIN req' : Asks(i)' => i \in DOMAIN req /\ Asks(i) /\ req'[i] = req[i]
  BY <1>a, <1>2, Sent DEF Asks
<1>4. UNCHANGED <<nextClient, rep, broker, myAddress, ticket, answer>>
  BY Zenon DEF AskAddress
<1>5. pc' = [pc EXCEPT ![c] = "registering"] /\ pc[c] = "new"
  BY Zenon DEF AskAddress
<1>6. Shape'
  <2>1. /\ pc' \in [Clients -> Stages]
        /\ \A d \in Clients : pc'[d] \in Registered <=> myAddress'[d] # 0
    BY <1>4, <1>5, Zenon DEF Shape, Stages, Registered
  <2>2. \A i \in DOMAIN req' : Asks(i)' => req'[i].data \in Tickets
    BY <1>3, Zenon DEF Shape
  <2> QED
    BY <2>1, <2>2, <1>3, <1>4, Zenon DEF Shape
<1>7. Once'
  BY <1>3, <1>4 DEF Once, Busy
<1>8. Gone'
  BY <1>3, <1>4, Zenon DEF Gone, Busy
<1> QED
  BY <1>6, <1>7, <1>8, Zenon

(* A client that takes an address takes no request from the queues.        *)
LEMMA TakeAddressOnce ==
    ASSUME MsgQueueAssumption, QueueInv, NEW c \in Clients, TakeAddress(c)
    PROVE  QueueInv'
<1> USE DEF QueueInv
<1>1. rep[Assign] \in Seq(Addresses) /\ rep[Assign] # <<>> /\ DOMAIN rep = Types
  BY Zenon DEF TakeAddress, Shape
<1>2. PICK h \in Addresses : h = Head(rep[Assign])
  BY <1>1, Taken, Zenon
<1>3. UNCHANGED <<nextClient, req, broker, ticket, answer>>
  BY Zenon DEF TakeAddress
<1>4. PICK q \in Seq(Addresses) : q = Tail(rep[Assign])
  BY <1>1, Taken, Zenon
<1>5. rep' = [rep EXCEPT ![Assign] = q]
  BY <1>4, Zenon DEF TakeAddress
<1>6. DOMAIN rep' = Types /\ rep'[Assign] = q /\ \A a \in Addresses : rep'[a] = rep[a]
  BY <1>1, <1>5, Kinds, Zenon
<1>7. /\ myAddress' = [myAddress EXCEPT ![c] = h]
      /\ pc' = [pc EXCEPT ![c] = "ready"]
  BY <1>2, Zenon DEF TakeAddress
<1>8. Shape'
  <2>1. /\ pc' \in [Clients -> Stages]
        /\ myAddress' \in [Clients -> Addresses \cup {0}]
        /\ \A d \in Clients : pc'[d] \in Registered <=> myAddress'[d] # 0
    BY <1>7, Kinds, Zenon DEF Shape, Stages, Registered
  <2>2. \A i \in DOMAIN req' : Asks(i)' => req'[i].data \in Tickets
    BY <1>3, Zenon DEF Shape, Asks
  <2> QED
    BY <2>1, <2>2, <1>3, <1>6, Zenon DEF Shape
<1>9. Once'
  BY <1>3, <1>6 DEF Once, Busy, Asks
<1>10. Gone'
  BY <1>3, <1>6 DEF Gone, Busy, Asks
<1> QED
  BY <1>8, <1>9, <1>10, Zenon

(* MQProxy::sendrecv: the request is new, so it is nowhere else.           *)
LEMMA SendOnce ==
    ASSUME MsgQueueAssumption, QueueInv, NEW c \in Clients, Send(c)
    PROVE  QueueInv'
<1> USE DEF QueueInv
<1>1. PICK t : t = [ticket[c] EXCEPT !.n = @ + 1]
  BY Zenon
<1>2. ticket[c] \in Tickets /\ ticket[c].client = c
  BY Zenon DEF Shape
<1>3. /\ t \in Tickets /\ t.client = c /\ t.life = ticket[c].life
      /\ t.n = ticket[c].n + 1 /\ ticket[c].n \in Nat /\ ticket[c].life \in Nat
  BY <1>1, <1>2 DEF Tickets
<1>4. ticket' = [ticket EXCEPT ![c] = t]
  BY <1>1, Zenon DEF Send
<1>5. /\ ticket' \in [Clients -> Tickets] /\ ticket'[c] = t
      /\ \A d \in Clients \ {c} : ticket'[d] = ticket[d]
  BY <1>3, <1>4, Zenon DEF Shape
<1>6. /\ myAddress[c] \in Addresses /\ pc[c] = "ready"
      /\ myAddress[c] # Register
  BY Kinds, Zenon DEF Shape, Send, Registered
<1>7. PICK m : m = [type |-> myAddress[c], data |-> t]
  BY Zenon
<1>8. m \in Messages /\ m.type = myAddress[c] /\ m.data = t
  BY <1>3, <1>6, <1>7, Zenon DEF Messages
<1>9. req' = Append(req, m) /\ req \in Seq(Messages)
  BY <1>5, <1>7, Zenon DEF Send, Shape
<1>10. /\ req' \in Seq(Messages)
       /\ \A i \in DOMAIN req' :
            \/ i \in DOMAIN req /\ req'[i] = req[i]
            \/ i = Len(req) + 1 /\ i \notin DOMAIN req /\ req'[i] = m
  BY <1>8, <1>9, Sent
<1>11. \A i \in DOMAIN req' : Asks(i)' =>
            \/ i \in DOMAIN req /\ Asks(i) /\ req'[i] = req[i]
            \/ i = Len(req) + 1 /\ i \notin DOMAIN req /\ req'[i].data = t /\ req'[i].type = myAddress[c]
  BY <1>8, <1>10, Zenon DEF Asks
<1>12. UNCHANGED <<nextClient, rep, broker, myAddress>>
  BY Zenon DEF Send
<1>13. /\ pc' = [pc EXCEPT ![c] = "waiting"]
       /\ answer' = [answer EXCEPT ![c] = None]
  BY Zenon DEF Send
<1>14. /\ answer' \in [Clients -> Tickets \cup {None}] /\ answer'[c] = None
       /\ \A d \in Clients \ {c} : answer'[d] = answer[d]
  BY <1>13, Zenon DEF Shape
<1>15. None \notin Tickets
  BY Zenon DEF MsgQueueAssumption
<1>16. Shape'
  <2>1. /\ pc' \in [Clients -> Stages]
        /\ \A d \in Clients : pc'[d] \in Registered <=> myAddress'[d] # 0
    BY <1>6, <1>12, <1>13, Kinds, Zenon DEF Shape, Stages, Registered
  <2>2. \A i \in DOMAIN req' : Asks(i)' => req'[i].data \in Tickets
    BY <1>3, <1>11, Zenon DEF Shape
  <2>3. \A d \in Clients : ticket'[d].client = d
    BY <1>3, <1>5 DEF Shape
  <2> QED
    BY <2>1, <2>2, <2>3, <1>5, <1>10, <1>12, <1>14, Zenon DEF Shape
<1>17. /\ \A i \in DOMAIN req : Asks(i) => req[i].data \in Tickets
       /\ \A a \in Addresses : \A i \in DOMAIN rep[a] : rep[a][i] \in Tickets
       /\ Busy => broker.data \in Tickets
  BY BrokerKinds DEF Shape, Busy
<1>18. \A u \in Tickets : Past(u, ticket) => Past(u, ticket') /\ u # t
  BY <1>3, <1>5, TicketParts DEF Past
<1>19. Past(t, ticket')
  BY <1>3, <1>5 DEF Past
<1>20. Once'
  <2>1. \A i \in DOMAIN req' : Asks(i)' => Past(req'[i].data, ticket')
    BY <1>11, <1>17, <1>18, <1>19, Zenon DEF Once
  <2>2. \A a \in Addresses : \A i \in DOMAIN rep'[a] : Past(rep'[a][i], ticket')
    BY <1>12, <1>17, <1>18, Zenon DEF Once
  <2>3. Busy' => Past(broker'.data, ticket')
    BY <1>12, <1>17, <1>18, Zenon DEF Once, Busy
  <2>4. \A i, j \in DOMAIN req' : Asks(i)' /\ Asks(j)' /\ req'[i].data = req'[j].data => i = j
    BY <1>11, <1>17, <1>18, Zenon DEF Once
  <2>5. \A i \in DOMAIN req' : Asks(i)' =>
          \A a \in Addresses : \A j \in DOMAIN rep'[a] : req'[i].data # rep'[a][j]
    BY <1>11, <1>12, <1>17, <1>18 DEF Once
  <2>6. Busy' => \A i \in DOMAIN req' : Asks(i)' => req'[i].data # broker'.data
    BY <1>11, <1>12, <1>17, <1>18, Zenon DEF Once, Busy
  <2> QED
    BY <2>1, <2>2, <2>3, <2>4, <2>5, <2>6, <1>12 DEF Once, Busy
<1>21. Gone'
  <2> SUFFICES ASSUME NEW d \in Clients, answer'[d] = ticket'[d]
               PROVE  /\ \A i \in DOMAIN req' : Asks(i)' => req'[i].data # ticket'[d]
                      /\ \A a \in Addresses : \A i \in DOMAIN rep'[a] : rep'[a][i] # ticket'[d]
                      /\ Busy' => broker'.data # ticket'[d]
    BY Zenon DEF Gone
  <2>1. d # c
    BY <1>3, <1>5, <1>14, <1>15, Zenon
  <2>2. answer[d] = ticket[d] /\ ticket'[d] = ticket[d] /\ ticket[d] # t
    BY <2>1, <1>3, <1>5, <1>14, Zenon DEF Shape
  <2> QED
    BY <2>2, <1>11, <1>12, Zenon DEF Gone, Busy
<1> QED
  BY <1>16, <1>20, <1>21, Zenon

(* A request that is not sent is in no queue.                              *)
LEMMA SendFailsOnce ==
    ASSUME MsgQueueAssumption, QueueInv, NEW c \in Clients, SendFails(c)
    PROVE  QueueInv'
<1> USE DEF QueueInv
<1>1. PICK t : t = [ticket[c] EXCEPT !.n = @ + 1]
  BY Zenon
<1>2. ticket[c] \in Tickets /\ ticket[c].client = c
  BY Zenon DEF Shape
<1>3. /\ t \in Tickets /\ t.client = c /\ t.life = ticket[c].life
      /\ t.n = ticket[c].n + 1 /\ ticket[c].n \in Nat /\ ticket[c].life \in Nat
  BY <1>1, <1>2 DEF Tickets
<1>4. ticket' = [ticket EXCEPT ![c] = t]
  BY <1>1, Zenon DEF SendFails
<1>5. /\ ticket' \in [Clients -> Tickets] /\ ticket'[c] = t
      /\ \A d \in Clients \ {c} : ticket'[d] = ticket[d]
  BY <1>3, <1>4, Zenon DEF Shape
<1>6. UNCHANGED <<nextClient, req, rep, broker, myAddress>>
  BY Zenon DEF SendFails, queues
<1>7. /\ pc' = [pc EXCEPT ![c] = "unsent"] /\ pc[c] = "ready"
      /\ answer' = [answer EXCEPT ![c] = None]
  BY Zenon DEF SendFails
<1>8. Shape'
  <2>1. /\ pc' \in [Clients -> Stages]
        /\ answer' \in [Clients -> Tickets \cup {None}]
        /\ \A d \in Clients : pc'[d] \in Registered <=> myAddress'[d] # 0
    BY <1>6, <1>7, Zenon DEF Shape, Stages, Registered
  <2>2. \A d \in Clients : ticket'[d].client = d
    BY <1>3, <1>5 DEF Shape
  <2> QED
    BY <2>1, <2>2, <1>5, <1>6, Zenon DEF Shape, Asks
<1>9. /\ \A i \in DOMAIN req : Asks(i) => req[i].data \in Tickets
      /\ \A a \in Addresses : \A i \in DOMAIN rep[a] : rep[a][i] \in Tickets
      /\ Busy => broker.data \in Tickets
  BY BrokerKinds DEF Shape, Busy
<1>10. \A u \in Tickets : Past(u, ticket) => Past(u, ticket')
  BY <1>3, <1>5, TicketParts DEF Past
<1>11. Once'
  <2>1. /\ \A i \in DOMAIN req' : Asks(i)' => Past(req'[i].data, ticket')
        /\ \A a \in Addresses : \A i \in DOMAIN rep'[a] : Past(rep'[a][i], ticket')
        /\ Busy' => Past(broker'.data, ticket')
    BY <1>6, <1>9, <1>10, Zenon DEF Once, Asks, Busy
  <2> QED
    BY <2>1, <1>6 DEF Once, Asks, Busy
<1>12. Gone'
  <2>1. None \notin Tickets
    BY Zenon DEF MsgQueueAssumption
  <2>2. \A d \in Clients : answer'[d] = ticket'[d] => answer[d] = ticket[d] /\ ticket'[d] = ticket[d]
    BY <2>1, <1>3, <1>5, <1>7 DEF Shape
  <2> QED
    BY <2>2, <1>6 DEF Gone, Asks, Busy
<1> QED
  BY <1>8, <1>11, <1>12, Zenon

(* The client c takes the first reply of its type, and keeps it or not. *)
TakesReply(c) ==
    /\ pc[c] \in Registered /\ rep[myAddress[c]] # <<>>
    /\ rep' = [rep EXCEPT ![myAddress[c]] = Tail(@)]
    /\ pc' = [pc EXCEPT ![c] = "ready"]
    /\ \/ answer' = [answer EXCEPT ![c] = Head(rep[myAddress[c]])]
       \/ answer' = answer
    /\ UNCHANGED <<nextClient, req, broker, myAddress, ticket>>

(* A reply that a client takes leaves the queue, whether or not the client *)
(* keeps it.                                                               *)
LEMMA TakeReplyOnce ==
    ASSUME MsgQueueAssumption, QueueInv, NEW c \in Clients, TakesReply(c)
    PROVE  QueueInv'
<1> USE DEF QueueInv
<1>1. PICK a \in Addresses : a = myAddress[c]
  BY Zenon DEF TakesReply, Shape
<1>2. rep[a] \in Seq(Tickets) /\ rep[a] # <<>> /\ DOMAIN rep = Types /\ a # Assign
  BY <1>1, Kinds, Zenon DEF TakesReply, Shape
<1>3. PICK q \in Seq(Tickets) : q = Tail(rep[a])
  BY <1>2, Taken, Zenon
<1>4. PICK h \in Tickets : h = Head(rep[a])
  BY <1>2, Taken, Zenon
<1>5. /\ 1 \in DOMAIN rep[a] /\ h = rep[a][1] /\ DOMAIN q \subseteq Nat
      /\ \A i \in DOMAIN q :
            i \in DOMAIN rep[a] /\ i + 1 \in DOMAIN rep[a] /\ i + 1 # 1 /\ q[i] = rep[a][i + 1]
  BY <1>2, <1>3, <1>4, Taken, Zenon
<1>6. rep' = [rep EXCEPT ![a] = q]
  BY <1>1, <1>3, Zenon DEF TakesReply
<1>7. /\ DOMAIN rep' = Types /\ rep'[Assign] = rep[Assign] /\ rep'[a] = q
      /\ \A b \in Addresses \ {a} : rep'[b] = rep[b]
  BY <1>2, <1>6, Kinds, Zenon
<1>8. UNCHANGED <<nextClient, req, broker, myAddress, ticket>>
  BY Zenon DEF TakesReply
<1>9. /\ pc' = [pc EXCEPT ![c] = "ready"] /\ pc[c] \in Registered
      /\ answer' = [answer EXCEPT ![c] = h] \/ answer' = answer
  BY <1>1, <1>4, Zenon DEF TakesReply
<1>10. Shape'
  <2>1. /\ pc' \in [Clients -> Stages]
        /\ answer' \in [Clients -> Tickets \cup {None}]
        /\ \A d \in Clients : pc'[d] \in Registered <=> myAddress'[d] # 0
    BY <1>8, <1>9, Zenon DEF Shape, Stages, Registered
  <2>2. \A i \in DOMAIN req' : Asks(i)' => req'[i].data \in Tickets
    BY <1>8, Zenon DEF Shape, Asks
  <2>3. \A b \in Addresses : rep'[b] \in Seq(Tickets)
    BY <1>7, Zenon DEF Shape
  <2> QED
    BY <2>1, <2>2, <2>3, <1>7, <1>8, Zenon DEF Shape
(* Every reply that is left was there before, and is not the one taken.    *)
<1>11. \A b \in Addresses : \A i \in DOMAIN rep'[b] :
          \E k \in DOMAIN rep[b] : /\ rep'[b][i] = rep[b][k]
                                   /\ k = (IF b = a THEN i + 1 ELSE i)
                                   /\ rep[b][k] # h
  BY <1>5, <1>7 DEF Once
<1>12. Once'
  <2>1. \A b \in Addresses : \A i \in DOMAIN rep'[b] : Past(rep'[b][i], ticket')
    BY <1>8, <1>11 DEF Once
  <2>2. \A b, d \in Addresses : \A i \in DOMAIN rep'[b], j \in DOMAIN rep'[d] :
            rep'[b][i] = rep'[d][j] => b = d /\ i = j
    <3> SUFFICES ASSUME NEW b \in Addresses, NEW d \in Addresses, NEW i \in DOMAIN rep'[b],
                        NEW j \in DOMAIN rep'[d], rep'[b][i] = rep'[d][j]
                 PROVE  b = d /\ i = j
      BY Zenon
    <3>1. PICK k \in DOMAIN rep[b] : rep'[b][i] = rep[b][k] /\ k = (IF b = a THEN i + 1 ELSE i)
      BY <1>11, Zenon
    <3>2. PICK l \in DOMAIN rep[d] : rep'[d][j] = rep[d][l] /\ l = (IF d = a THEN j + 1 ELSE j)
      BY <1>11, Zenon
    <3>a. rep[b][k] = rep[d][l]
      BY <3>1, <3>2, Zenon
    <3>b. \A e, f \in Addresses : \A x \in DOMAIN rep[e], y \in DOMAIN rep[f] :
            rep[e][x] = rep[f][y] => e = f /\ x = y
      BY Zenon DEF Once
    <3>3. b = d /\ k = l
      BY <3>a, <3>b, Zenon
    <3>4. CASE b = a
      BY <3>1, <3>2, <3>3, <3>4, <1>5, <1>7
    <3>5. CASE b # a
      BY <3>1, <3>2, <3>3, <3>5, Zenon
    <3> QED
      BY <3>4, <3>5, Zenon
  <2>3. \A i \in DOMAIN req' : Asks(i)' =>
          \A b \in Addresses : \A j \in DOMAIN rep'[b] : req'[i].data # rep'[b][j]
    BY <1>8, <1>11 DEF Once, Asks
  <2>4. Busy' => \A b \in Addresses : \A i \in DOMAIN rep'[b] : rep'[b][i] # broker'.data
    BY <1>8, <1>11 DEF Once, Busy
  <2> QED
    BY <2>1, <2>2, <2>3, <2>4, <1>8, Zenon DEF Once, Busy, Asks
<1>13. /\ \A i \in DOMAIN req : Asks(i) => req[i].data # h
       /\ Busy => broker.data # h
  BY <1>5 DEF Once
<1>14. Gone'
  <2> SUFFICES ASSUME NEW d \in Clients, answer'[d] = ticket'[d]
               PROVE  /\ \A i \in DOMAIN req' : Asks(i)' => req'[i].data # ticket'[d]
                      /\ \A b \in Addresses : \A i \in DOMAIN rep'[b] : rep'[b][i] # ticket'[d]
                      /\ Busy' => broker'.data # ticket'[d]
    BY Zenon DEF Gone
  <2>1. ticket'[d] = h \/ answer[d] = ticket[d]
    BY <1>8, <1>9, Zenon DEF Shape
  <2>2. CASE ticket'[d] = h
    BY <2>2, <1>8, <1>11, <1>13, Zenon DEF Busy, Asks
  <2>3. CASE answer[d] = ticket[d]
    BY <2>3, <1>8, <1>11 DEF Gone, Busy, Asks
  <2> QED
    BY <2>1, <2>2, <2>3, Zenon
<1> QED
  BY <1>10, <1>12, <1>14, Zenon

(* MQProxy::sendrecv: the answer that has come is taken.                   *)
LEMMA ReceiveOnce ==
    ASSUME MsgQueueAssumption, QueueInv, NEW c \in Clients, Receive(c)
    PROVE  QueueInv'
BY TakeReplyOnce, Zenon DEF Receive, TakesReply, Registered

(* MQProxy::sendrecv: what comes for a request that was not sent is taken  *)
(* and dropped.                                                            *)
LEMMA ReceiveUnsentOnce ==
    ASSUME MsgQueueAssumption, QueueInv, NEW c \in Clients, ReceiveUnsent(c)
    PROVE  QueueInv'
BY TakeReplyOnce, Zenon DEF ReceiveUnsent, TakesReply, Registered

(* MsgServer::recv moves the oldest message to the broker.                 *)
LEMMA RecvOnce ==
    ASSUME MsgQueueAssumption, QueueInv, Recv
    PROVE  QueueInv'
<1> USE DEF QueueInv
<1>1. req \in Seq(Messages) /\ req # <<>>
  BY Zenon DEF Recv, Shape
<1>2. PICK m \in Messages : m = Head(req)
  BY <1>1, Taken, Zenon
<1>3. /\ 1 \in DOMAIN req /\ m = req[1] /\ req' \in Seq(Messages) /\ DOMAIN req' \subseteq Nat
      /\ \A i \in DOMAIN req' : i + 1 \in DOMAIN req /\ i + 1 # 1 /\ req'[i] = req[i + 1]
  BY <1>1, <1>2, Taken, Zenon DEF Recv
<1>4. \A i \in DOMAIN req' : Asks(i)' => Asks(i + 1) /\ req'[i] = req[i + 1] /\ i + 1 # 1
  BY <1>3, Zenon DEF Asks
<1>5. broker' = IF m.type = Register THEN [at |-> "register"]
                ELSE [at |-> "forward", type |-> m.type, data |-> m.data]
  BY <1>2, Zenon DEF Recv
<1>6. UNCHANGED <<nextClient, rep, pc, myAddress, ticket, answer>>
  BY Zenon DEF Recv, clients
<1>7. \/ broker' = [at |-> "register"] /\ ~Busy'
      \/ /\ Asks(1) /\ m.type \in Addresses /\ m.data \in Tickets
         /\ broker' = [at |-> "forward", type |-> m.type, data |-> m.data]
  <2>1. CASE m.type = Register
    BY <2>1, <1>5, Zenon DEF Busy
  <2>2. CASE m.type # Register
    <3>1. Asks(1)
      BY <2>2, <1>3, Zenon DEF Asks
    <3> QED
      BY <3>1, <2>2, <1>3, <1>5, MessageParts, Zenon DEF Shape
  <2> QED
    BY <2>1, <2>2, Zenon
<1>8. broker' \in Handling \cup {Idle, [at |-> "register"]}
  BY <1>7 DEF Handling
<1>9. Busy' => Asks(1) /\ broker'.data = req[1].data
  BY <1>7, <1>3
<1>10. Shape'
  <2>1. \A i \in DOMAIN req' : Asks(i)' => req'[i].data \in Tickets
    BY <1>3, <1>4, Zenon DEF Shape
  <2> QED
    BY <2>1, <1>3, <1>6, <1>8, Zenon DEF Shape
<1>11. Once'
  <2>1. \A i \in DOMAIN req' : Asks(i)' => Past(req'[i].data, ticket')
    BY <1>3, <1>4, <1>6, Zenon DEF Once
  <2>2. Busy' => Past(broker'.data, ticket')
    BY <1>3, <1>6, <1>9, Zenon DEF Once
  <2>3. \A i, j \in DOMAIN req' : Asks(i)' /\ Asks(j)' /\ req'[i].data = req'[j].data => i = j
    <3> SUFFICES ASSUME NEW i \in DOMAIN req', NEW j \in DOMAIN req', Asks(i)', Asks(j)',
                        req'[i].data = req'[j].data
                 PROVE  i + 1 = j + 1
      BY <1>3
    <3> QED
      BY <1>3, <1>4, Zenon DEF Once
  <2>4. \A i \in DOMAIN req' : Asks(i)' =>
          \A a \in Addresses : \A j \in DOMAIN rep'[a] : req'[i].data # rep'[a][j]
    BY <1>3, <1>4, <1>6 DEF Once
  <2>5. Busy' => \A i \in DOMAIN req' : Asks(i)' => req'[i].data # broker'.data
    BY <1>3, <1>4, <1>9, Zenon DEF Once
  <2>6. Busy' => \A a \in Addresses : \A i \in DOMAIN rep'[a] : rep'[a][i] # broker'.data
    BY <1>3, <1>6, <1>9 DEF Once
  <2>7. /\ \A a \in Addresses : \A i \in DOMAIN rep'[a] : Past(rep'[a][i], ticket')
        /\ \A a, b \in Addresses : \A i \in DOMAIN rep'[a], j \in DOMAIN rep'[b] :
             rep'[a][i] = rep'[b][j] => a = b /\ i = j
    BY <1>6 DEF Once
  <2> QED
    BY <2>1, <2>2, <2>3, <2>4, <2>5, <2>6, <2>7, Zenon DEF Once
<1>12. Gone'
  BY <1>3, <1>4, <1>6, <1>9, Zenon DEF Gone
<1> QED
  BY <1>10, <1>11, <1>12, Zenon

(* A registration is answered with an address, not with a request.         *)
LEMMA RegisterReplyOnce ==
    ASSUME MsgQueueAssumption, QueueInv, RegisterReply
    PROVE  QueueInv'
<1> USE DEF QueueInv
<1>1. rep[Assign] \in Seq(Addresses) /\ nextClient \in Addresses /\ DOMAIN rep = Types
  BY Zenon DEF Shape
<1>2. PICK q \in Seq(Addresses) : q = Append(rep[Assign], nextClient)
  BY <1>1, Sent, Zenon
<1>3. rep' = [rep EXCEPT ![Assign] = q]
  BY <1>2, Zenon DEF RegisterReply
<1>4. DOMAIN rep' = Types /\ rep'[Assign] = q /\ \A a \in Addresses : rep'[a] = rep[a]
  BY <1>1, <1>3, Kinds, Zenon
<1>5. UNCHANGED <<req, pc, myAddress, ticket, answer>> /\ broker' = Idle
  BY Zenon DEF RegisterReply, clients
<1>6. nextClient' \in Addresses
  BY <1>1 DEF RegisterReply, Successor, Addresses, MsgQueueAssumption
<1>7. ~Busy'
  BY <1>5, Zenon DEF Busy, Idle
<1>8. Shape'
  BY <1>2, <1>4, <1>5, <1>6, Zenon DEF Shape, Asks
<1>9. Once'
  BY <1>4, <1>5, <1>7 DEF Once, Asks
<1>10. Gone'
  BY <1>4, <1>5, <1>7 DEF Gone, Asks
<1> QED
  BY <1>8, <1>9, <1>10, Zenon

(* The exchange with the MPI server leaves the request at the broker.      *)
LEMMA ExchangeOnce ==
    ASSUME MsgQueueAssumption, QueueInv, Exchange
    PROVE  QueueInv'
<1> USE DEF QueueInv
<1>1. broker \in Handling /\ Busy
  BY DEF Exchange, Shape, Handling, Idle, Busy
<1>2. PICK b : b = [broker EXCEPT !.at = "reply"]
  BY Zenon
<1>3. b \in Handling /\ b.at = "reply" /\ b.type = broker.type /\ b.data = broker.data
  BY <1>1, <1>2, Zenon DEF Handling
<1>4. UNCHANGED <<nextClient, req, rep, pc, myAddress, ticket, answer>> /\ broker' = b
  BY <1>2, Zenon DEF Exchange, queues, clients
<1>5. Busy' /\ broker'.data = broker.data
  BY <1>3, <1>4, Zenon DEF Busy
<1>6. Shape'
  BY <1>3, <1>4, Zenon DEF Shape, Asks
<1>7. Once'
  BY <1>1, <1>4, <1>5 DEF Once, Asks
<1>8. Gone'
  BY <1>1, <1>4, <1>5, Zenon DEF Gone, Asks
<1> QED
  BY <1>6, <1>7, <1>8, Zenon

(* MsgServer::xmit moves the request at hand to the reply queue.           *)
LEMMA XmitOnce ==
    ASSUME MsgQueueAssumption, QueueInv, Xmit
    PROVE  QueueInv'
<1> USE DEF QueueInv
<1>1. broker \in Handling /\ Busy
  BY DEF Xmit, Shape, Handling, Idle, Busy
<1>2. PICK a \in Addresses, t \in Tickets : a = broker.type /\ t = broker.data
  BY <1>1, Zenon DEF Handling
<1>3. rep[a] \in Seq(Tickets) /\ DOMAIN rep = Types
  BY Zenon DEF Shape
<1>4. PICK q \in Seq(Tickets) : q = Append(rep[a], t)
  BY <1>3, Sent, Zenon
<1>5. \A i \in DOMAIN q : \/ i \in DOMAIN rep[a] /\ q[i] = rep[a][i]
                          \/ i = Len(rep[a]) + 1 /\ q[i] = t
  BY <1>3, <1>4, Sent
<1>6. rep' = [rep EXCEPT ![a] = q]
  BY <1>2, <1>4, Zenon DEF Xmit
<1>7. /\ DOMAIN rep' = Types /\ rep'[Assign] = rep[Assign] /\ rep'[a] = q
      /\ \A b \in Addresses \ {a} : rep'[b] = rep[b]
  BY <1>3, <1>6, Kinds, Zenon
<1>8. \A b \in Addresses : \A i \in DOMAIN rep'[b] :
         \/ i \in DOMAIN rep[b] /\ rep'[b][i] = rep[b][i]
         \/ b = a /\ i = Len(rep[a]) + 1 /\ rep'[b][i] = t
  BY <1>5, <1>7, Zenon
<1>9. UNCHANGED <<nextClient, req, pc, myAddress, ticket, answer>> /\ broker' = Idle
  BY Zenon DEF Xmit, clients
<1>10. ~Busy'
  BY <1>9, Zenon DEF Busy, Idle
<1>11. Shape'
  <2>1. \A b \in Addresses : rep'[b] \in Seq(Tickets)
    BY <1>7, Zenon DEF Shape
  <2> QED
    BY <2>1, <1>7, <1>9, Zenon DEF Shape, Asks
<1>12. /\ Past(t, ticket)
       /\ \A i \in DOMAIN req : Asks(i) => req[i].data # t
       /\ \A b \in Addresses : \A i \in DOMAIN rep[b] : rep[b][i] # t
  BY <1>1, <1>2, Zenon DEF Once
<1>13. Once'
  <2>1. \A b \in Addresses : \A i \in DOMAIN rep'[b] : Past(rep'[b][i], ticket')
    BY <1>8, <1>9, <1>12, Zenon DEF Once
  <2>2. \A b, d \in Addresses : \A i \in DOMAIN rep'[b], j \in DOMAIN rep'[d] :
            rep'[b][i] = rep'[d][j] => b = d /\ i = j
    BY <1>8, <1>12 DEF Once
  <2>3. \A i \in DOMAIN req' : Asks(i)' =>
          \A b \in Addresses : \A j \in DOMAIN rep'[b] : req'[i].data # rep'[b][j]
    BY <1>8, <1>9, <1>12 DEF Once, Asks
  <2>4. /\ \A i \in DOMAIN req' : Asks(i)' => Past(req'[i].data, ticket')
        /\ \A i, j \in DOMAIN req' : Asks(i)' /\ Asks(j)' /\ req'[i].data = req'[j].data => i = j
    BY <1>9, Zenon DEF Once, Asks
  <2> QED
    BY <2>1, <2>2, <2>3, <2>4, <1>10, Zenon DEF Once
<1>14. Gone'
  BY <1>1, <1>2, <1>8, <1>9, <1>10 DEF Gone, Asks
<1> QED
  BY <1>11, <1>13, <1>14, Zenon

(* A client that starts again has made no request of its new life, and its *)
(* old requests stay where they are.                                       *)
LEMMA DieOnce ==
    ASSUME MsgQueueAssumption, QueueInv, NEW c \in Clients, Die(c)
    PROVE  QueueInv'
<1> USE DEF QueueInv
<1>1. PICK t : t = [client |-> c, life |-> ticket[c].life + 1, n |-> 0]
  BY Zenon
<1>2. ticket[c] \in Tickets /\ ticket[c].client = c
  BY Zenon DEF Shape
<1>3. /\ t \in Tickets /\ t.client = c /\ t.life = ticket[c].life + 1
      /\ ticket[c].n \in Nat /\ ticket[c].life \in Nat
  BY <1>1, <1>2 DEF Tickets
<1>4. ticket' = [ticket EXCEPT ![c] = t]
  BY <1>1, Zenon DEF Die
<1>5. /\ ticket' \in [Clients -> Tickets] /\ ticket'[c] = t
      /\ \A d \in Clients \ {c} : ticket'[d] = ticket[d]
  BY <1>3, <1>4, Zenon DEF Shape
<1>6. UNCHANGED <<nextClient, req, rep, broker>>
  BY Zenon DEF Die, queues
<1>7. /\ pc' = [pc EXCEPT ![c] = "new"]
      /\ myAddress' = [myAddress EXCEPT ![c] = 0]
      /\ answer' = [answer EXCEPT ![c] = None]
  BY Zenon DEF Die
<1>8. Shape'
  <2>1. /\ pc' \in [Clients -> Stages]
        /\ myAddress' \in [Clients -> Addresses \cup {0}]
        /\ answer' \in [Clients -> Tickets \cup {None}]
        /\ \A d \in Clients : pc'[d] \in Registered <=> myAddress'[d] # 0
    BY <1>7, Zenon DEF Shape, Stages, Registered
  <2>2. \A d \in Clients : ticket'[d].client = d
    BY <1>3, <1>5 DEF Shape
  <2> QED
    BY <2>1, <2>2, <1>5, <1>6, Zenon DEF Shape, Asks
<1>9. /\ \A i \in DOMAIN req : Asks(i) => req[i].data \in Tickets
      /\ \A a \in Addresses : \A i \in DOMAIN rep[a] : rep[a][i] \in Tickets
      /\ Busy => broker.data \in Tickets
  BY BrokerKinds DEF Shape, Busy
<1>10. \A u \in Tickets : Past(u, ticket) => Past(u, ticket')
  BY <1>3, <1>5, TicketParts DEF Past
<1>11. Once'
  <2>1. /\ \A i \in DOMAIN req' : Asks(i)' => Past(req'[i].data, ticket')
        /\ \A a \in Addresses : \A i \in DOMAIN rep'[a] : Past(rep'[a][i], ticket')
        /\ Busy' => Past(broker'.data, ticket')
    BY <1>6, <1>9, <1>10, Zenon DEF Once, Asks, Busy
  <2> QED
    BY <2>1, <1>6 DEF Once, Asks, Busy
<1>12. Gone'
  <2>1. None \notin Tickets
    BY Zenon DEF MsgQueueAssumption
  <2>2. \A d \in Clients : answer'[d] = ticket'[d] => answer[d] = ticket[d] /\ ticket'[d] = ticket[d]
    BY <2>1, <1>3, <1>5, <1>7 DEF Shape
  <2> QED
    BY <2>2, <1>6 DEF Gone, Asks, Busy
<1> QED
  BY <1>8, <1>11, <1>12, Zenon

(* A broker that starts again has lost the request at hand.                *)
LEMMA CrashOnce ==
    ASSUME MsgQueueAssumption, QueueInv, Crash
    PROVE  QueueInv'
<1> USE DEF QueueInv
<1>1. /\ UNCHANGED <<req, rep, pc, myAddress, ticket, answer>>
      /\ broker' = Idle /\ nextClient' = FirstAddress
  BY Zenon DEF Crash, queues, clients
<1>2. ~Busy'
  BY <1>1, Zenon DEF Busy, Idle
<1>3. Shape'
  BY <1>1, Kinds, Zenon DEF Shape, Asks
<1>4. Once'
  BY <1>1, <1>2 DEF Once, Asks
<1>5. Gone'
  BY <1>1, <1>2, Zenon DEF Gone, Asks
<1> QED
  BY <1>3, <1>4, <1>5, Zenon

(* No queue holds anything and no client asked for anything.               *)
LEMMA QueueInit ==
    ASSUME MsgQueueAssumption, Init
    PROVE  QueueInv
<1>1. req = <<>> /\ DOMAIN req = {} /\ broker = Idle /\ ~Busy
  BY DEF Init, Busy, Idle
<1>2. DOMAIN rep = Types /\ \A t \in Types : rep[t] = <<>>
  BY Zenon DEF Init
<1>3. rep[Assign] = <<>> /\ \A a \in Addresses : rep[a] = <<>> /\ DOMAIN rep[a] = {}
  BY <1>2, Kinds
<1>4. ticket \in [Clients -> Tickets] /\ \A c \in Clients : ticket[c].client = c
  BY Zenon DEF Init, Tickets
<1>5. answer \in [Clients -> Tickets \cup {None}]
  BY Zenon DEF Init
<1>6. /\ pc \in [Clients -> Stages]
      /\ myAddress \in [Clients -> Addresses \cup {0}]
      /\ \A c \in Clients : pc[c] \in Registered <=> myAddress[c] # 0
  BY Zenon DEF Init, Stages, Registered
<1>7. nextClient \in Addresses
  BY Kinds, Zenon DEF Init
<1>8. Shape
  <2>1. req \in Seq(Messages) /\ rep[Assign] \in Seq(Addresses) /\ \A a \in Addresses : rep[a] \in Seq(Tickets)
    <3>1. \A S : <<>> \in Seq(S)
      OBVIOUS
    <3> QED
      BY <3>1, <1>1, <1>3, Zenon
  <2>2. \A i \in DOMAIN req : Asks(i) => req[i].data \in Tickets
    BY <1>1, Zenon
  <2>3. broker \in Handling \cup {Idle, [at |-> "register"]}
    BY <1>1, Zenon
  <2> QED
    BY <2>1, <2>2, <2>3, <1>2, <1>4, <1>5, <1>6, <1>7, Zenon DEF Shape
<1>9. Once
  BY <1>1, <1>3, Zenon DEF Once
<1>10. Gone
  BY <1>1, <1>3, Zenon DEF Gone
<1> QED
  BY <1>8, <1>9, <1>10, Zenon DEF QueueInv

(* Every step of a client, of the broker and of the system around them     *)
(* keeps a request in one place.                                           *)
LEMMA QueueNext ==
    ASSUME MsgQueueAssumption, QueueInv, [Next]_vars
    PROVE  QueueInv'
<1>1. ASSUME NEW c \in Clients, AskAddress(c) PROVE QueueInv'
  BY <1>1, AskAddressOnce, Zenon
<1>2. ASSUME NEW c \in Clients, TakeAddress(c) PROVE QueueInv'
  BY <1>2, TakeAddressOnce, Zenon
<1>3. ASSUME NEW c \in Clients, Send(c) PROVE QueueInv'
  BY <1>3, SendOnce, Zenon
<1>a. ASSUME NEW c \in Clients, SendFails(c) PROVE QueueInv'
  BY <1>a, SendFailsOnce, Zenon
<1>4. ASSUME NEW c \in Clients, Receive(c) PROVE QueueInv'
  BY <1>4, ReceiveOnce, Zenon
<1>b. ASSUME NEW c \in Clients, ReceiveUnsent(c) PROVE QueueInv'
  BY <1>b, ReceiveUnsentOnce, Zenon
<1>5. ASSUME NEW c \in Clients, Die(c) PROVE QueueInv'
  BY <1>5, DieOnce, Zenon
<1>6. CASE Recv
  BY <1>6, RecvOnce, Zenon
<1>7. CASE RegisterReply
  BY <1>7, RegisterReplyOnce, Zenon
<1>8. CASE Exchange
  BY <1>8, ExchangeOnce, Zenon
<1>9. CASE Xmit
  BY <1>9, XmitOnce, Zenon
<1>10. CASE Crash
  BY <1>10, CrashOnce, Zenon
<1>11. CASE UNCHANGED vars
  BY <1>11 DEF vars, queues, clients, QueueInv, Shape, Once, Gone, Asks, Busy
<1> QED
  BY <1>1, <1>2, <1>3, <1>a, <1>4, <1>b, <1>5, <1>6, <1>7, <1>8, <1>9, <1>10, <1>11, Zenon
     DEF Next, ClientStep, BrokerStep

(* A set of which all elements are equal has one element or none.          *)
LEMMA AtMostOne ==
    ASSUME NEW S, \A x, y \in S : x = y
    PROVE  Cardinality(S) = 0 \/ (Cardinality(S) = 1 /\ S # {})
<1>1. CASE S = {}
  BY <1>1, FS_EmptySet, Zenon
<1>2. CASE S # {}
  <2>1. PICK x : S = {x}
    BY <1>2
  <2> QED
    BY <2>1, <1>2, FS_Singleton, Zenon
<1> QED
  BY <1>1, <1>2, Zenon

(* A request that is in one place is counted once.                         *)
LEMMA CountedOnce ==
    ASSUME MsgQueueAssumption, QueueInv
    PROVE  OneAnswer
<1> USE DEF QueueInv
<1> SUFFICES ASSUME NEW c \in Clients, NEW t, t = ticket[c]
             PROVE  Cardinality({i \in DOMAIN req : req[i].type # Register /\ req[i].data = t})
                    + Cardinality({p \in Addresses \X (1 .. QueueCap) :
                                       p[2] \in DOMAIN rep[p[1]] /\ rep[p[1]][p[2]] = t})
                    + (IF broker.at \in {"forward", "reply"} /\ broker.data = t THEN 1 ELSE 0)
                    + (IF answer[c] = t THEN 1 ELSE 0) <= 1
  BY Zenon DEF OneAnswer
<1> DEFINE A == {i \in DOMAIN req : req[i].type # Register /\ req[i].data = t}
           B == {p \in Addresses \X (1 .. QueueCap) :
                     p[2] \in DOMAIN rep[p[1]] /\ rep[p[1]][p[2]] = t}
           H == broker.at \in {"forward", "reply"} /\ broker.data = t
<1>1. \A i \in A : i \in DOMAIN req /\ Asks(i) /\ req[i].data = t
  BY Zenon DEF Asks
<1>2. \A i, j \in A : i = j
  BY <1>1, Zenon DEF Once
<1>3. \A p \in B : p[1] \in Addresses /\ p[2] \in DOMAIN rep[p[1]] /\ rep[p[1]][p[2]] = t /\ p = <<p[1], p[2]>>
  OBVIOUS
<1>4. \A p, q \in B : p = q
  <2> SUFFICES ASSUME NEW p \in B, NEW q \in B PROVE p = q
    BY Zenon
  <2>1. p[1] = q[1] /\ p[2] = q[2]
    BY <1>3 DEF Once
  <2> QED
    BY <1>3, <2>1, Zenon
<1>5. A # {} => B = {} /\ ~H /\ answer[c] # t
  BY <1>1, <1>3 DEF Once, Gone, Busy
<1>6. B # {} => ~H /\ answer[c] # t
  BY <1>3 DEF Once, Gone, Busy
<1>7. H => answer[c] # t
  BY Zenon DEF Gone, Busy
<1>8. Cardinality(A) = 0 \/ (Cardinality(A) = 1 /\ A # {})
  BY <1>2, AtMostOne, Zenon
<1>9. Cardinality(B) = 0 \/ (Cardinality(B) = 1 /\ B # {})
  BY <1>4, AtMostOne, Zenon
<1>10. B = {} => Cardinality(B) = 0
  BY FS_EmptySet, Zenon
<1> HIDE DEF A, B, H
<1>11. Cardinality(A) + Cardinality(B) + (IF H THEN 1 ELSE 0) + (IF answer[c] = t THEN 1 ELSE 0) <= 1
  BY <1>5, <1>6, <1>7, <1>8, <1>9, <1>10
<1> QED
  BY <1>11, Zenon DEF A, B, H

(* What the queues, the broker and the clients hold has its type.          *)
LEMMA ShapeTypes ==
    ASSUME MsgQueueAssumption, QueueInv
    PROVE  TypeOK
<1>1. \A i \in DOMAIN req : req[i].type \in {Register} \cup Addresses
  BY MessageParts DEF QueueInv, Shape
<1>2. broker.at \in {"idle", "register", "forward", "reply"}
  BY BrokerKinds, Zenon DEF QueueInv, Shape
<1> QED
  BY <1>1, <1>2 DEF QueueInv, Shape, TypeOK, Stages, Registered

(* MsgServer::recv and xmit, MQProxy::sendrecv: whatever clients and       *)
(* brokers are killed and started again, and even when addresses are given *)
(* a second time, no request is in two places, so none is answered twice.  *)
THEOREM RequestsOnce ==
    ASSUME MsgQueueAssumption
    PROVE  Spec => [](TypeOK /\ OneAnswer)
<1>1. Init => QueueInv
  BY QueueInit, Zenon
<1>2. QueueInv /\ [Next]_vars => QueueInv'
  BY QueueNext, Zenon
<1>3. QueueInv => TypeOK /\ OneAnswer
  BY CountedOnce, ShapeTypes, Zenon
<1> QED
  BY <1>1, <1>2, <1>3, PTL DEF Spec

-----------------------------------------------------------------------------
(* With addresses enough, an answer finds the client that asked. *)

(* One element less is one less to count. *)
LEMMA CountLess ==
    ASSUME NEW S, IsFiniteSet(S), NEW x \in S
    PROVE  Cardinality(S \ {x}) = Cardinality(S) - 1 /\ Cardinality(S) \in Nat
BY FS_RemoveElement, FS_CardinalityType, Zenon

(* One element more is one more to count. *)
LEMMA CountMore ==
    ASSUME NEW S, IsFiniteSet(S), NEW x, x \notin S
    PROVE  Cardinality(S \cup {x}) = Cardinality(S) + 1 /\ Cardinality(S) \in Nat
BY FS_AddElement, FS_CardinalityType, Zenon

(* The counts are numbers.                                                 *)
LEMMA Counts ==
    ASSUME MsgQueueAssumption, QueueInv
    PROVE  /\ IsFiniteSet(Unregistered) /\ IsFiniteSet(Registrations) /\ IsFiniteSet(Clients)
           /\ Cardinality(Unregistered) \in Nat /\ Cardinality(Registrations) \in Nat
           /\ Cardinality(Clients) \in Nat
           /\ nextClient \in Nat /\ FirstAddress \in Nat /\ MaxAddress \in Nat
           /\ MaxDeaths \in Nat
<1>1. IsFiniteSet(Clients)
  BY Zenon DEF MsgQueueAssumption
<1>2. IsFiniteSet(Unregistered)
  BY <1>1, FS_Subset, Zenon DEF Unregistered
<1>3. req \in Seq(Messages)
  BY Zenon DEF QueueInv, Shape
<1>4. DOMAIN req = 1 .. Len(req) /\ Len(req) \in Nat
  BY <1>3
<1>5. IsFiniteSet(DOMAIN req)
  BY <1>4, FS_Interval
<1>6. IsFiniteSet(Registrations)
  BY <1>5, FS_Subset, Zenon DEF Registrations
<1> QED
  BY <1>1, <1>2, <1>6, FS_CardinalityType, Kinds, Zenon DEF QueueInv, Shape, MsgQueueAssumption

(* The registrations of a queue to which one was added.                    *)
LEMMA MoreRegistrations ==
    ASSUME NEW m \in Messages, req \in Seq(Messages), req' = Append(req, m)
    PROVE  Registrations' = IF m.type = Register THEN Registrations \cup {Len(req) + 1} ELSE Registrations
<1>1. /\ \A i \in DOMAIN req : i \in DOMAIN req' /\ req'[i] = req[i]
      /\ \A i \in DOMAIN req' : \/ i \in DOMAIN req /\ req'[i] = req[i]
                                \/ i = Len(req) + 1 /\ i \notin DOMAIN req /\ req'[i] = m
  BY Sent
<1>2. Len(req) + 1 \in DOMAIN req' /\ req'[Len(req) + 1] = m
  OBVIOUS
<1> QED
  BY <1>1, <1>2, Zenon DEF Registrations

(* The registrations of a queue from which the first message was taken     *)
(* are the others, one place further on.                                   *)
LEMMA LessRegistrations ==
    ASSUME req \in Seq(Messages), req # <<>>, req' = Tail(req), IsFiniteSet(Registrations)
    PROVE  Cardinality(Registrations')
             = IF Head(req).type = Register THEN Cardinality(Registrations) - 1 ELSE Cardinality(Registrations)
<1> DEFINE Others == Registrations \ {1}
           up == [i \in Registrations' |-> i + 1]
<1>1. /\ 1 \in DOMAIN req /\ Head(req) = req[1] /\ DOMAIN req' \subseteq Nat
      /\ \A i \in DOMAIN req' : i + 1 \in DOMAIN req /\ i + 1 # 1 /\ req'[i] = req[i + 1]
  BY Taken, Zenon
<1>2. \A j \in DOMAIN req : j # 1 => j - 1 \in DOMAIN req' /\ j - 1 + 1 = j /\ req'[j - 1] = req[j]
  <2>1. DOMAIN req = 1 .. Len(req) /\ DOMAIN req' = 1 .. (Len(req) - 1) /\ Len(req) \in Nat
    OBVIOUS
  <2> QED
    BY <2>1, <1>1
<1>3. up \in [Registrations' -> Others]
  BY <1>1, Zenon DEF Registrations
<1>4. \A i, j \in Registrations' : up[i] = up[j] => i = j
  BY <1>1 DEF Registrations
<1>5. \A k \in Others : \E i \in Registrations' : up[i] = k
  <2> SUFFICES ASSUME NEW k \in Others PROVE k - 1 \in Registrations' /\ up[k - 1] = k
    BY Zenon
  <2>1. k \in DOMAIN req /\ k # 1 /\ req[k].type = Register
    BY Zenon DEF Registrations
  <2>2. k - 1 \in Registrations'
    BY <2>1, <1>2, Zenon DEF Registrations
  <2> QED
    BY <2>1, <2>2, <1>2, Zenon
<1>6. up \in Injection(Registrations', Others) /\ up \in Surjection(Registrations', Others)
  BY <1>3, <1>4, <1>5, Zenon DEF Injection, Surjection, IsInjective
<1>7. IsFiniteSet(Others)
  BY FS_Subset, Zenon
<1>8. Cardinality(Registrations') = Cardinality(Others)
  BY <1>6, <1>7, FS_Injection, Zenon
<1>9. CASE Head(req).type = Register
  <2>1. 1 \in Registrations
    BY <1>1, <1>9, Zenon DEF Registrations
  <2> QED
    BY <2>1, <1>8, <1>9, CountLess, Zenon
<1>10. CASE Head(req).type # Register
  <2>1. Others = Registrations
    BY <1>1, <1>10, Zenon DEF Registrations
  <2> QED
    BY <2>1, <1>8, <1>10, Zenon
<1> QED
  BY <1>9, <1>10, Zenon

(* AskAddress: the process that asks is a registration in the queue now.   *)
LEMMA AskAddressOwn ==
    ASSUME MsgQueueAssumption, OwnInv, NEW c \in Clients, AskAddress(c)
    PROVE  Counted' /\ Given' /\ Addressed' /\ OwnAnswers'
<1> USE DEF OwnInv, QueueInv
<1>1. PICK m : m = [type |-> Register, data |-> c]
  BY Zenon
<1>2. m \in Messages /\ m.type = Register
  BY <1>1, Zenon DEF Messages
<1>3. req' = Append(req, m) /\ req \in Seq(Messages)
  BY <1>1, Zenon DEF AskAddress, Shape
<1>4. \A i \in DOMAIN req' : (i \in DOMAIN req /\ req'[i] = req[i]) \/ req'[i].type = Register
  BY <1>2, <1>3, Sent
<1>5. UNCHANGED <<nextClient, rep, broker, myAddress, ticket, answer, deaths, crashes>>
  BY Zenon DEF AskAddress
<1>6. pc' = [pc EXCEPT ![c] = "registering"] /\ pc[c] = "new" /\ myAddress[c] = 0
  BY Zenon DEF AskAddress, Shape, Registered
<1>7. Counted'
  <2>1. Cardinality(Registrations') = Cardinality(Registrations) + 1
    <3>1. Registrations' = Registrations \cup {Len(req) + 1}
      BY <1>2, <1>3, MoreRegistrations, Zenon
    <3>2. Len(req) + 1 \notin DOMAIN req
      BY <1>3
    <3>3. Len(req) + 1 \notin Registrations
      BY <3>2, Zenon DEF Registrations
    <3> QED
      BY <3>1, <3>3, Counts, CountMore, Zenon
  <2>2. Cardinality(Unregistered') = Cardinality(Unregistered) - 1
    <3>1. Unregistered' = Unregistered \ {c} /\ c \in Unregistered
      BY <1>6, Zenon DEF Unregistered, Shape
    <3> QED
      BY <3>1, Counts, CountLess, Zenon
  <2>3. AtBroker' = AtBroker /\ AtBroker \in Nat
    BY <1>5, Zenon DEF AtBroker
  <2> QED
    BY <2>1, <2>2, <2>3, <1>5, Counts DEF Counted
<1>8. Given'
  BY <1>5, Zenon DEF Given
<1>9. \A a \in Addresses, t \in Tickets : UnderWay(a, t)' => UnderWay(a, t)
  BY <1>4, <1>5, Kinds, Zenon DEF UnderWay, Busy
<1>10. \A a \in Addresses, t \in Tickets : Owned(a, t) => Owned(a, t)'
  BY <1>5, <1>6, Kinds, Zenon DEF Owned, Shape
<1>11. Addressed'
  BY <1>9, <1>10, Zenon DEF Addressed
<1>12. OwnAnswers'
  BY <1>5, Zenon DEF OwnAnswers
<1> QED
  BY <1>7, <1>8, <1>11, <1>12, Zenon

(* TakeAddress: the address taken was given to nobody, and no message has  *)
(* its type.                                                               *)
LEMMA TakeAddressOwn ==
    ASSUME MsgQueueAssumption, OwnInv, NEW c \in Clients, TakeAddress(c)
    PROVE  Counted' /\ Given' /\ Addressed' /\ OwnAnswers'
<1> USE DEF OwnInv, QueueInv
<1>1. rep[Assign] \in Seq(Addresses) /\ rep[Assign] # <<>> /\ DOMAIN rep = Types
  BY Zenon DEF TakeAddress, Shape
<1>2. PICK q \in Seq(Addresses) : q = Tail(rep[Assign])
  BY <1>1, Taken, Zenon
<1>3. PICK h \in Addresses : h = Head(rep[Assign])
  BY <1>1, Taken, Zenon
<1>4. /\ 1 \in DOMAIN rep[Assign] /\ h = rep[Assign][1] /\ DOMAIN q \subseteq Nat
      /\ \A i \in DOMAIN q :
            i + 1 \in DOMAIN rep[Assign] /\ i + 1 # 1 /\ q[i] = rep[Assign][i + 1]
  BY <1>1, <1>2, <1>3, Taken, Zenon
<1>5. rep' = [rep EXCEPT ![Assign] = q]
  BY <1>2, Zenon DEF TakeAddress
<1>6. rep'[Assign] = q /\ \A a \in Addresses : rep'[a] = rep[a]
  BY <1>1, <1>5, Kinds, Zenon
<1>7. UNCHANGED <<nextClient, req, broker, ticket, answer, deaths, crashes>>
  BY Zenon DEF TakeAddress
<1>8. /\ myAddress' = [myAddress EXCEPT ![c] = h]
      /\ pc' = [pc EXCEPT ![c] = "ready"] /\ pc[c] = "registering"
  BY <1>3, Zenon DEF TakeAddress
<1>9. /\ myAddress'[c] = h /\ \A d \in Clients \ {c} : myAddress'[d] = myAddress[d]
      /\ pc'[c] = "ready" /\ \A d \in Clients \ {c} : pc'[d] = pc[d]
  BY <1>8, Zenon DEF Shape
<1>10. /\ h < nextClient /\ \A d \in Clients : myAddress[d] # h
       /\ \A i \in DOMAIN q : q[i] < nextClient /\ q[i] # h /\ \A d \in Clients : myAddress[d] # q[i]
  BY <1>4 DEF Given
<1>11. Counted'
  <2>1. Unregistered' = Unregistered /\ Registrations' = Registrations /\ AtBroker' = AtBroker
    BY <1>7, <1>8, Zenon DEF Unregistered, Registrations, AtBroker, Shape
  <2> QED
    BY <2>1, <1>7, Zenon DEF Counted
<1>12. Given'
  <2>1. \A d \in Clients : myAddress'[d] < nextClient'
    BY <1>7, <1>9, <1>10, Zenon DEF Given
  <2>2. \A i, j \in DOMAIN q : q[i] = q[j] => i = j
    <3> SUFFICES ASSUME NEW i \in DOMAIN q, NEW j \in DOMAIN q, q[i] = q[j] PROVE i + 1 = j + 1
      BY <1>4
    <3> QED
      BY <1>4 DEF Given
  <2>3. \A d \in Clients : \A i \in DOMAIN q : myAddress'[d] # q[i]
    BY <1>9, <1>10, Zenon
  <2>4. \A d, e \in Clients : myAddress'[d] = myAddress'[e] /\ myAddress'[d] # 0 => d = e
    BY <1>9, <1>10 DEF Given
  <2> QED
    BY <2>1, <2>2, <2>3, <2>4, <1>6, <1>7, <1>10, Zenon DEF Given
<1>13. \A a \in Addresses, t \in Tickets : UnderWay(a, t)' => UnderWay(a, t)
  BY <1>6, <1>7, Zenon DEF UnderWay, Busy
<1>14. \A a \in Addresses, t \in Tickets : Owned(a, t) => Owned(a, t)'
  <2> SUFFICES ASSUME NEW a \in Addresses, NEW t \in Tickets, Owned(a, t) PROVE Owned(a, t)'
    BY Zenon
  <2>1. a # h
    BY <1>4, Zenon DEF Owned
  <2>2. \A i \in DOMAIN q : q[i] # a
    BY <1>4, Zenon DEF Owned
  <2> QED
    BY <2>1, <2>2, <1>6, <1>7, <1>9, Zenon DEF Owned
<1>15. Addressed'
  BY <1>13, <1>14, Zenon DEF Addressed
<1>16. OwnAnswers'
  BY <1>7, Zenon DEF OwnAnswers
<1> QED
  BY <1>11, <1>12, <1>15, <1>16, Zenon

(* Send: no message had the type of a client that is ready.                *)
LEMMA SendOwn ==
    ASSUME MsgQueueAssumption, OwnInv, NEW c \in Clients, Send(c)
    PROVE  Counted' /\ Given' /\ Addressed' /\ OwnAnswers'
<1> USE DEF OwnInv, QueueInv
<1>1. PICK t : t = [ticket[c] EXCEPT !.n = @ + 1]
  BY Zenon
<1>a. ticket[c] \in Tickets
  BY Zenon DEF Shape
<1>2. t \in Tickets
  BY <1>1, <1>a DEF Tickets
<1>3. ticket' = [ticket EXCEPT ![c] = t]
  BY <1>1, Zenon DEF Send
<1>4. ticket'[c] = t /\ \A d \in Clients \ {c} : ticket'[d] = ticket[d]
  BY <1>3, Zenon DEF Shape
<1>5. PICK a \in Addresses : a = myAddress[c] /\ a # Register
  BY Kinds, Zenon DEF Shape, Send, Registered
<1>6. PICK m : m = [type |-> a, data |-> t]
  BY Zenon
<1>7. m \in Messages /\ m.type = a /\ m.data = t
  BY <1>2, <1>6, Zenon DEF Messages
<1>8. req' = Append(req, m) /\ req \in Seq(Messages)
  BY <1>4, <1>5, <1>6, Zenon DEF Send, Shape
<1>9. \A i \in DOMAIN req' : (i \in DOMAIN req /\ req'[i] = req[i]) \/ req'[i] = m
  BY <1>7, <1>8, Sent
<1>10. UNCHANGED <<nextClient, rep, broker, myAddress, deaths, crashes>>
  BY Zenon DEF Send
<1>11. /\ pc[c] = "ready" /\ pc' = [pc EXCEPT ![c] = "waiting"]
       /\ answer' = [answer EXCEPT ![c] = None]
  BY Zenon DEF Send
<1>12. /\ pc'[c] = "waiting" /\ \A d \in Clients \ {c} : pc'[d] = pc[d]
       /\ answer'[c] = None /\ \A d \in Clients \ {c} : answer'[d] = answer[d]
  BY <1>11, Zenon DEF Shape
<1>13. Counted'
  <2>1. Registrations' = Registrations
    BY <1>5, <1>7, <1>8, MoreRegistrations, Zenon
  <2>2. Unregistered' = Unregistered
    BY <1>11, <1>12, Zenon DEF Unregistered
  <2>3. AtBroker' = AtBroker
    BY <1>10, Zenon DEF AtBroker
  <2> QED
    BY <2>1, <2>2, <2>3, <1>10, Zenon DEF Counted
<1>14. Given'
  BY <1>10, Zenon DEF Given
<1>15. \A b \in Addresses, u \in Tickets : UnderWay(b, u)' => UnderWay(b, u) \/ (b = a /\ u = t)
  BY <1>7, <1>9, <1>10, Zenon DEF UnderWay, Busy
<1>16. \A b \in Addresses, u \in Tickets : Owned(b, u) => Owned(b, u)'
  <2> SUFFICES ASSUME NEW b \in Addresses, NEW u \in Tickets, Owned(b, u) PROVE Owned(b, u)'
    BY Zenon
  <2>1. b # a
    BY <1>5, <1>11, Zenon DEF Owned
  <2> QED
    BY <2>1, <1>4, <1>5, <1>10, <1>12, Zenon DEF Owned
<1>17. Owned(a, t)'
  <2>1. a < nextClient /\ \A i \in DOMAIN rep[Assign] : rep[Assign][i] # a
    BY <1>5, Zenon DEF Given
  <2>2. \A d \in Clients : myAddress[d] = a => d = c
    BY <1>5, Kinds, Zenon DEF Given
  <2> QED
    BY <2>1, <2>2, <1>4, <1>10, <1>12, Zenon DEF Owned
<1>18. Addressed'
  BY <1>15, <1>16, <1>17, Zenon DEF Addressed
<1>19. OwnAnswers'
  BY <1>4, <1>12, Zenon DEF OwnAnswers
<1> QED
  BY <1>13, <1>14, <1>18, <1>19, Zenon

(* SendFails: no message had the type of a client that is ready, and none  *)
(* gets it.                                                                *)
LEMMA SendFailsOwn ==
    ASSUME MsgQueueAssumption, OwnInv, NEW c \in Clients, SendFails(c)
    PROVE  Counted' /\ Given' /\ Addressed' /\ OwnAnswers'
<1> USE DEF OwnInv, QueueInv
<1>1. UNCHANGED <<nextClient, req, rep, broker, myAddress, deaths, crashes>>
  BY Zenon DEF SendFails, queues
<1>2. /\ pc[c] = "ready" /\ pc' = [pc EXCEPT ![c] = "unsent"]
      /\ answer' = [answer EXCEPT ![c] = None]
  BY Zenon DEF SendFails
<1>3. /\ pc'[c] = "unsent" /\ \A d \in Clients \ {c} : pc'[d] = pc[d]
      /\ answer'[c] = None /\ \A d \in Clients \ {c} : answer'[d] = answer[d]
  BY <1>2, Zenon DEF Shape
<1>4. \A d \in Clients \ {c} : ticket'[d] = ticket[d]
  BY Zenon DEF SendFails, Shape
<1>5. Counted'
  <2>1. Unregistered' = Unregistered /\ Registrations' = Registrations /\ AtBroker' = AtBroker
    BY <1>1, <1>2, <1>3, Zenon DEF Unregistered, Registrations, AtBroker
  <2> QED
    BY <2>1, <1>1, Zenon DEF Counted
<1>6. Given'
  BY <1>1, Zenon DEF Given
<1>7. \A a \in Addresses, t \in Tickets : UnderWay(a, t)' => UnderWay(a, t)
  BY <1>1, Zenon DEF UnderWay, Busy
<1>8. \A a \in Addresses, t \in Tickets : Owned(a, t) => Owned(a, t)'
  <2> SUFFICES ASSUME NEW a \in Addresses, NEW t \in Tickets, Owned(a, t) PROVE Owned(a, t)'
    BY Zenon
  <2>1. myAddress[c] # a
    BY <1>2, Zenon DEF Owned
  <2> QED
    BY <2>1, <1>1, <1>3, <1>4, Zenon DEF Owned
<1>9. Addressed'
  BY <1>7, <1>8, Zenon DEF Addressed
<1>10. OwnAnswers'
  BY <1>3, <1>4, Zenon DEF OwnAnswers
<1> QED
  BY <1>5, <1>6, <1>9, <1>10, Zenon

(* ReceiveUnsent: while the addresses are unique, nothing ever comes for a *)
(* client whose request was not sent.                                      *)
LEMMA NothingUnsent ==
    ASSUME MsgQueueAssumption, OwnInv, NEW c \in Clients
    PROVE  ~ReceiveUnsent(c)
<1> USE DEF OwnInv, QueueInv
<1> SUFFICES ASSUME ReceiveUnsent(c) PROVE FALSE
  BY Zenon
<1>1. PICK a \in Addresses : a = myAddress[c]
  BY Zenon DEF Shape, ReceiveUnsent, Registered
<1>2. rep[a] \in Seq(Tickets) /\ rep[a] # <<>> /\ pc[c] = "unsent"
  BY <1>1, Zenon DEF ReceiveUnsent, Shape
<1>3. PICK t \in Tickets : t = Head(rep[a])
  BY <1>2, Taken, Zenon
<1>4. 1 \in DOMAIN rep[a] /\ t = rep[a][1]
  BY <1>2, <1>3, Taken, Zenon
<1>5. UnderWay(a, t)
  BY <1>4, Zenon DEF UnderWay
<1> QED
  BY <1>1, <1>2, <1>5, Zenon DEF Addressed, Owned

(* Receive: the answer taken is the one the client waits for, and no other *)
(* message has its type.                                                   *)
LEMMA ReceiveOwn ==
    ASSUME MsgQueueAssumption, OwnInv, NEW c \in Clients, Receive(c)
    PROVE  Counted' /\ Given' /\ Addressed' /\ OwnAnswers'
<1> USE DEF OwnInv, QueueInv
<1>1. PICK a \in Addresses : a = myAddress[c]
  BY Zenon DEF Shape, Receive, Registered
<1>2. rep[a] \in Seq(Tickets) /\ rep[a] # <<>> /\ DOMAIN rep = Types /\ a # Assign
  BY <1>1, Kinds, Zenon DEF Receive, Shape
<1>3. PICK q \in Seq(Tickets) : q = Tail(rep[a])
  BY <1>2, Taken, Zenon
<1>4. PICK h \in Tickets : h = Head(rep[a])
  BY <1>2, Taken, Zenon
<1>5. /\ 1 \in DOMAIN rep[a] /\ h = rep[a][1]
      /\ \A i \in DOMAIN q : i + 1 \in DOMAIN rep[a] /\ i + 1 # 1 /\ q[i] = rep[a][i + 1]
  BY <1>2, <1>3, <1>4, Taken, Zenon
<1>6. rep' = [rep EXCEPT ![a] = q]
  BY <1>1, <1>3, Zenon DEF Receive
<1>7. rep'[Assign] = rep[Assign] /\ rep'[a] = q /\ \A b \in Addresses \ {a} : rep'[b] = rep[b]
  BY <1>2, <1>6, Kinds, Zenon
<1>8. UNCHANGED <<nextClient, req, broker, myAddress, ticket, deaths, crashes>>
  BY Zenon DEF Receive
<1>9. /\ pc' = [pc EXCEPT ![c] = "ready"] /\ pc[c] = "waiting"
      /\ answer' = [answer EXCEPT ![c] = h]
  BY <1>1, <1>4, Zenon DEF Receive
<1>10. /\ \A d \in Clients \ {c} : pc'[d] = pc[d] /\ answer'[d] = answer[d]
       /\ answer'[c] = h
  BY <1>9, Zenon DEF Shape
<1>11. Counted'
  <2>1. Unregistered' = Unregistered /\ Registrations' = Registrations /\ AtBroker' = AtBroker
    BY <1>8, <1>9, Zenon DEF Unregistered, Registrations, AtBroker, Shape
  <2> QED
    BY <2>1, <1>8, Zenon DEF Counted
<1>12. Given'
  BY <1>7, <1>8, Zenon DEF Given
<1>13. h = ticket[c]
  <2>1. UnderWay(a, h)
    BY <1>5, Zenon DEF UnderWay
  <2> QED
    BY <2>1, <1>1, Zenon DEF Addressed, Owned
(* What is under way afterwards was under way before, and is not h.        *)
<1>14. \A b \in Addresses, t \in Tickets : UnderWay(b, t)' => UnderWay(b, t) /\ t # h
  <2> SUFFICES ASSUME NEW b \in Addresses, NEW t \in Tickets, UnderWay(b, t)'
               PROVE  UnderWay(b, t) /\ t # h
    BY Zenon
  <2>1. CASE \E i \in DOMAIN req : req[i].type = b /\ req[i].data = t
    BY <2>1, <1>5, Kinds DEF UnderWay, Once, Asks
  <2>2. CASE \E i \in DOMAIN rep'[b] : rep'[b][i] = t
    <3>1. CASE b = a
      <4>1. PICK i \in DOMAIN q : q[i] = t
        BY <2>2, <3>1, <1>7, Zenon
      <4>2. PICK k \in DOMAIN rep[a] : rep[a][k] = t /\ k # 1
        BY <4>1, <1>5, Zenon
      <4>3. t # h
        BY <4>2, <1>5 DEF Once
      <4> QED
        BY <4>2, <4>3, <3>1, Zenon DEF UnderWay
    <3>2. CASE b # a
      <4>1. PICK i \in DOMAIN rep[b] : rep[b][i] = t
        BY <2>2, <3>2, <1>7, Zenon
      <4>2. t # h
        BY <4>1, <3>2, <1>5, Zenon DEF Once
      <4> QED
        BY <4>1, <4>2, Zenon DEF UnderWay
    <3> QED
      BY <3>1, <3>2, Zenon
  <2>3. CASE Busy /\ broker.type = b /\ broker.data = t
    BY <2>3, <1>5, Zenon DEF UnderWay, Once
  <2> QED
    BY <2>1, <2>2, <2>3, <1>8, Zenon DEF UnderWay, Busy
<1>15. Addressed'
  <2> SUFFICES ASSUME NEW b \in Addresses, NEW t \in Tickets, UnderWay(b, t)'
               PROVE  Owned(b, t)'
    BY Zenon DEF Addressed
  <2>1. Owned(b, t) /\ t # h
    BY <1>14, Zenon DEF Addressed
  <2>2. myAddress[c] # b
    BY <2>1, <1>13, Zenon DEF Owned
  <2> QED
    BY <2>1, <2>2, <1>7, <1>8, <1>10, Zenon DEF Owned
<1>16. OwnAnswers'
  BY <1>8, <1>10, <1>13, Zenon DEF OwnAnswers
<1> QED
  BY <1>11, <1>12, <1>15, <1>16, Zenon

(* Die: the address is given up, and what has its type finds nobody.       *)
LEMMA DieOwn ==
    ASSUME MsgQueueAssumption, OwnInv, NEW c \in Clients, Die(c)
    PROVE  Counted' /\ Given' /\ Addressed' /\ OwnAnswers'
<1> USE DEF OwnInv, QueueInv
<1>1. UNCHANGED <<nextClient, req, rep, broker, crashes>>
  BY Zenon DEF Die, queues
<1>2. /\ pc' = [pc EXCEPT ![c] = "new"] /\ pc[c] # "new"
      /\ myAddress' = [myAddress EXCEPT ![c] = 0]
      /\ answer' = [answer EXCEPT ![c] = None]
      /\ deaths < MaxDeaths /\ deaths' = deaths + 1
  BY Zenon DEF Die
<1>3. /\ \A d \in Clients \ {c} : pc'[d] = pc[d] /\ myAddress'[d] = myAddress[d] /\ answer'[d] = answer[d]
      /\ pc'[c] = "new" /\ myAddress'[c] = 0 /\ answer'[c] = None
  BY <1>2, Zenon DEF Shape
<1>4. \A d \in Clients \ {c} : ticket'[d] = ticket[d]
  BY Zenon DEF Die, Shape
<1>5. Counted'
  <2>1. Unregistered' = Unregistered \cup {c} /\ c \notin Unregistered
    BY <1>2, <1>3, Zenon DEF Unregistered
  <2>2. Cardinality(Unregistered') = Cardinality(Unregistered) + 1
    BY <2>1, Counts, CountMore, Zenon
  <2>3. Registrations' = Registrations /\ AtBroker' = AtBroker /\ AtBroker \in Nat
    BY <1>1, Zenon DEF Registrations, AtBroker
  <2> QED
    BY <2>2, <2>3, <1>1, <1>2, Counts DEF Counted
<1>6. Given'
  <2>1. \A d \in Clients : myAddress'[d] < nextClient'
    BY <1>1, <1>3, Kinds DEF Given, Shape
  <2>2. \A d \in Clients : \A i \in DOMAIN rep'[Assign] : myAddress'[d] # rep'[Assign][i]
    <3>1. \A i \in DOMAIN rep[Assign] : rep[Assign][i] # 0
      BY Kinds DEF Shape
    <3> QED
      BY <3>1, <1>1, <1>3 DEF Given
  <2>3. \A d, e \in Clients : myAddress'[d] = myAddress'[e] /\ myAddress'[d] # 0 => d = e
    BY <1>3 DEF Given
  <2> QED
    BY <2>1, <2>2, <2>3, <1>1, Zenon DEF Given
<1>7. \A a \in Addresses, t \in Tickets : UnderWay(a, t)' => UnderWay(a, t)
  BY <1>1, Zenon DEF UnderWay, Busy
<1>8. \A a \in Addresses, t \in Tickets : Owned(a, t) => Owned(a, t)'
  BY <1>1, <1>3, <1>4, Kinds, Zenon DEF Owned
<1>9. Addressed'
  BY <1>7, <1>8, Zenon DEF Addressed
<1>10. OwnAnswers'
  BY <1>3, <1>4, Zenon DEF OwnAnswers
<1> QED
  BY <1>5, <1>6, <1>9, <1>10, Zenon

(* MsgServer::recv: a registration moves to the broker, or a request does. *)
LEMMA RecvOwn ==
    ASSUME MsgQueueAssumption, OwnInv, Recv
    PROVE  Counted' /\ Given' /\ Addressed' /\ OwnAnswers'
<1> USE DEF OwnInv, QueueInv
<1>1. req \in Seq(Messages) /\ req # <<>> /\ req' = Tail(req) /\ broker.at = "idle"
  BY Zenon DEF Recv, Shape
<1>2. PICK m \in Messages : m = Head(req)
  BY <1>1, Taken, Zenon
<1>3. /\ 1 \in DOMAIN req /\ m = req[1]
      /\ \A i \in DOMAIN req' : i + 1 \in DOMAIN req /\ req'[i] = req[i + 1]
  BY <1>1, <1>2, Taken, Zenon
<1>4. broker' = IF m.type = Register THEN [at |-> "register"]
                ELSE [at |-> "forward", type |-> m.type, data |-> m.data]
  BY <1>2, Zenon DEF Recv
<1>5. UNCHANGED <<nextClient, rep, pc, myAddress, ticket, answer, deaths, crashes>>
  BY Zenon DEF Recv, clients
<1>6. Counted'
  <2>1. Cardinality(Registrations') = IF m.type = Register THEN Cardinality(Registrations) - 1
                                      ELSE Cardinality(Registrations)
    BY <1>1, <1>2, Counts, LessRegistrations, Zenon
  <2>2. AtBroker = 0 /\ AtBroker' = IF m.type = Register THEN 1 ELSE 0
    BY <1>1, <1>4, Zenon DEF AtBroker
  <2>3. Unregistered' = Unregistered
    BY <1>5, Zenon DEF Unregistered
  <2>4. CASE m.type = Register
    BY <2>1, <2>2, <2>3, <2>4, <1>5, Counts DEF Counted
  <2>5. CASE m.type # Register
    BY <2>1, <2>2, <2>3, <2>5, <1>5, Counts, Zenon DEF Counted
  <2> QED
    BY <2>4, <2>5, Zenon
<1>7. Given'
  BY <1>5, Zenon DEF Given
<1>8. Busy' => broker'.type = m.type /\ broker'.data = m.data
  BY <1>4, Zenon DEF Busy
<1>9. \A a \in Addresses, t \in Tickets : UnderWay(a, t)' => UnderWay(a, t)
  BY <1>3, <1>5, <1>8, Zenon DEF UnderWay
<1>10. \A a \in Addresses, t \in Tickets : Owned(a, t) => Owned(a, t)'
  BY <1>5, Zenon DEF Owned
<1>11. Addressed'
  BY <1>9, <1>10, Zenon DEF Addressed
<1>12. OwnAnswers'
  BY <1>5, Zenon DEF OwnAnswers
<1> QED
  BY <1>6, <1>7, <1>11, <1>12, Zenon

(* RegisterReply: the next address is below the last one, so its successor *)
(* is above all addresses given before.                                    *)
LEMMA RegisterReplyOwn ==
    ASSUME MsgQueueAssumption, AddressesSuffice, OwnInv, RegisterReply
    PROVE  Counted' /\ Given' /\ Addressed' /\ OwnAnswers'
<1> USE DEF OwnInv, QueueInv
<1>1. rep[Assign] \in Seq(Addresses) /\ nextClient \in Addresses /\ DOMAIN rep = Types
  BY Zenon DEF Shape
<1>2. PICK q \in Seq(Addresses) : q = Append(rep[Assign], nextClient)
  BY <1>1, Sent, Zenon
<1>3. \A i \in DOMAIN q : \/ i \in DOMAIN rep[Assign] /\ q[i] = rep[Assign][i]
                          \/ i = Len(rep[Assign]) + 1 /\ q[i] = nextClient
  BY <1>1, <1>2, Sent
<1>4. rep' = [rep EXCEPT ![Assign] = q]
  BY <1>2, Zenon DEF RegisterReply
<1>5. rep'[Assign] = q /\ \A a \in Addresses : rep'[a] = rep[a]
  BY <1>1, <1>4, Kinds, Zenon
<1>6. UNCHANGED <<req, pc, myAddress, ticket, answer, deaths, crashes>> /\ broker' = Idle
  BY Zenon DEF RegisterReply, clients
<1>7. AtBroker = 1 /\ AtBroker' = 0
  BY <1>6 DEF AtBroker, RegisterReply, Idle
<1>8. nextClient < MaxAddress
  BY <1>7, Counts DEF Counted, AddressesSuffice
<1>9. nextClient' = nextClient + 1
  BY <1>8, Counts DEF RegisterReply, Successor
<1>10. Counted'
  <2>1. Unregistered' = Unregistered /\ Registrations' = Registrations
    BY <1>6, Zenon DEF Unregistered, Registrations
  <2> QED
    BY <2>1, <1>6, <1>7, <1>9, Counts DEF Counted
<1>11. Given'
  <2>1. \A c \in Clients : myAddress[c] \in Nat /\ myAddress[c] < nextClient
    BY Kinds DEF Given, Shape
  <2>2. \A i \in DOMAIN rep[Assign] : rep[Assign][i] \in Nat /\ rep[Assign][i] < nextClient
    BY Kinds DEF Given, Shape
  <2>3. \A c \in Clients : myAddress'[c] < nextClient'
    BY <2>1, <1>6, <1>9, Counts
  <2>4. \A i \in DOMAIN q : q[i] < nextClient'
    BY <2>2, <1>3, <1>9, Counts
  <2>5. \A i, j \in DOMAIN q : q[i] = q[j] => i = j
    BY <2>2, <1>3, Counts DEF Given
  <2>6. \A c \in Clients : \A i \in DOMAIN q : myAddress'[c] # q[i]
    BY <2>1, <1>3, <1>6, Counts DEF Given
  <2> QED
    BY <2>3, <2>4, <2>5, <2>6, <1>5, <1>6, Zenon DEF Given
<1>12. \A a \in Addresses, t \in Tickets : UnderWay(a, t)' => UnderWay(a, t)
  BY <1>5, <1>6, Zenon DEF UnderWay, Busy, Idle
<1>13. \A a \in Addresses, t \in Tickets : Owned(a, t) => Owned(a, t)'
  <2> SUFFICES ASSUME NEW a \in Addresses, NEW t \in Tickets, Owned(a, t) PROVE Owned(a, t)'
    BY Zenon
  <2>1. a \in Nat /\ a < nextClient
    BY Kinds, Zenon DEF Owned
  <2>2. a < nextClient' /\ a # nextClient
    BY <2>1, <1>9, Counts
  <2>3. \A i \in DOMAIN q : q[i] # a
    BY <2>2, <1>3, Zenon DEF Owned
  <2> QED
    BY <2>2, <2>3, <1>5, <1>6, Zenon DEF Owned
<1>14. Addressed'
  BY <1>12, <1>13, Zenon DEF Addressed
<1>15. OwnAnswers'
  BY <1>6, Zenon DEF OwnAnswers
<1> QED
  BY <1>10, <1>11, <1>14, <1>15, Zenon

(* The exchange keeps the type and the request at hand.                    *)
LEMMA ExchangeOwn ==
    ASSUME MsgQueueAssumption, OwnInv, Exchange
    PROVE  Counted' /\ Given' /\ Addressed' /\ OwnAnswers'
<1> USE DEF OwnInv, QueueInv
<1>1. broker \in Handling /\ Busy /\ broker.at = "forward"
  BY DEF Exchange, Shape, Handling, Idle, Busy
<1>2. PICK b : b = [broker EXCEPT !.at = "reply"]
  BY Zenon
<1>3. b.at = "reply" /\ b.type = broker.type /\ b.data = broker.data
  BY <1>1, <1>2, Zenon DEF Handling
<1>4. /\ UNCHANGED <<nextClient, req, rep, pc, myAddress, ticket, answer, deaths, crashes>>
      /\ broker' = b
  BY <1>2, Zenon DEF Exchange, queues, clients
<1>5. Counted'
  <2>1. Unregistered' = Unregistered /\ Registrations' = Registrations
    BY <1>4, Zenon DEF Unregistered, Registrations
  <2>2. AtBroker' = AtBroker
    BY <1>1, <1>3, <1>4, Zenon DEF AtBroker
  <2> QED
    BY <2>1, <2>2, <1>4, Zenon DEF Counted
<1>6. Given'
  BY <1>4, Zenon DEF Given
<1>7. \A a \in Addresses, t \in Tickets : UnderWay(a, t)' => UnderWay(a, t)
  BY <1>1, <1>3, <1>4, Zenon DEF UnderWay
<1>8. \A a \in Addresses, t \in Tickets : Owned(a, t) => Owned(a, t)'
  BY <1>4, Zenon DEF Owned
<1>9. Addressed'
  BY <1>7, <1>8, Zenon DEF Addressed
<1>10. OwnAnswers'
  BY <1>4, Zenon DEF OwnAnswers
<1> QED
  BY <1>5, <1>6, <1>9, <1>10, Zenon

(* MsgServer::xmit: the answer has the type of the request.                *)
LEMMA XmitOwn ==
    ASSUME MsgQueueAssumption, OwnInv, Xmit
    PROVE  Counted' /\ Given' /\ Addressed' /\ OwnAnswers'
<1> USE DEF OwnInv, QueueInv
<1>1. broker \in Handling /\ Busy /\ broker.at = "reply"
  BY DEF Xmit, Shape, Handling, Idle, Busy
<1>2. PICK a \in Addresses, t \in Tickets : a = broker.type /\ t = broker.data
  BY <1>1, Zenon DEF Handling
<1>3. rep[a] \in Seq(Tickets) /\ DOMAIN rep = Types
  BY Zenon DEF Shape
<1>4. PICK q : q = Append(rep[a], t)
  BY Zenon
<1>5. \A i \in DOMAIN q : (i \in DOMAIN rep[a] /\ q[i] = rep[a][i]) \/ q[i] = t
  BY <1>3, <1>4, Sent
<1>6. rep' = [rep EXCEPT ![a] = q]
  BY <1>2, <1>4, Zenon DEF Xmit
<1>7. rep'[Assign] = rep[Assign] /\ rep'[a] = q /\ \A b \in Addresses \ {a} : rep'[b] = rep[b]
  BY <1>3, <1>6, Kinds, Zenon
<1>8. /\ UNCHANGED <<nextClient, req, pc, myAddress, ticket, answer, deaths, crashes>>
      /\ broker' = Idle
  BY Zenon DEF Xmit, clients
<1>9. Counted'
  <2>1. Unregistered' = Unregistered /\ Registrations' = Registrations
    BY <1>8, Zenon DEF Unregistered, Registrations
  <2>2. AtBroker' = AtBroker
    BY <1>1, <1>8, Zenon DEF AtBroker, Idle
  <2> QED
    BY <2>1, <2>2, <1>8, Zenon DEF Counted
<1>10. Given'
  BY <1>7, <1>8, Zenon DEF Given
<1>11. UnderWay(a, t)
  BY <1>1, <1>2, Zenon DEF UnderWay
<1>12. ~Busy'
  BY <1>8, Zenon DEF Busy, Idle
<1>13. \A b \in Addresses, u \in Tickets : UnderWay(b, u)' => UnderWay(b, u)
  <2> SUFFICES ASSUME NEW b \in Addresses, NEW u \in Tickets, UnderWay(b, u)' PROVE UnderWay(b, u)
    BY Zenon
  <2>1. CASE b = a
    BY <2>1, <1>5, <1>7, <1>8, <1>11, <1>12, Zenon DEF UnderWay
  <2>2. CASE b # a
    BY <2>2, <1>7, <1>8, <1>12, Zenon DEF UnderWay
  <2> QED
    BY <2>1, <2>2, Zenon
<1>14. \A b \in Addresses, u \in Tickets : Owned(b, u) => Owned(b, u)'
  BY <1>7, <1>8, Zenon DEF Owned
<1>15. Addressed'
  BY <1>13, <1>14, Zenon DEF Addressed
<1>16. OwnAnswers'
  BY <1>8, Zenon DEF OwnAnswers
<1> QED
  BY <1>9, <1>10, <1>15, <1>16, Zenon

(* Every client has to ask, and no address is given.                       *)
LEMMA OwnInit ==
    ASSUME MsgQueueAssumption, AddressesSuffice, Init
    PROVE  OwnInv
<1>1. QueueInv
  BY QueueInit, Zenon
<1>2. DOMAIN req = {} /\ ~Busy /\ AtBroker = 0
  BY DEF Init, Busy, Idle, AtBroker
<1>3. \A t \in Types : rep[t] = <<>> /\ DOMAIN rep[t] = {}
  BY DEF Init
<1>4. DOMAIN rep[Assign] = {} /\ \A a \in Addresses : DOMAIN rep[a] = {}
  BY <1>3, Kinds, Zenon
<1>5. Counted
  <2>1. Registrations = {} /\ Unregistered = Clients
    BY <1>2, Zenon DEF Registrations, Unregistered, Init
  <2>2. Cardinality(Registrations) = 0
    BY <2>1, FS_EmptySet, Zenon
  <2>3. nextClient = FirstAddress /\ deaths = 0 /\ crashes = 0
    BY Zenon DEF Init
  <2> QED
    BY <2>1, <2>2, <2>3, <1>1, <1>2, Counts DEF Counted
<1>6. Given
  <2>1. \A c \in Clients : myAddress[c] = 0
    BY Zenon DEF Init
  <2>2. 0 < nextClient
    BY DEF Init, MsgQueueAssumption
  <2> QED
    BY <2>1, <2>2, <1>4, Zenon DEF Given
<1>7. Addressed
  BY <1>2, <1>4, Zenon DEF Addressed, UnderWay
<1>8. OwnAnswers
  BY Zenon DEF OwnAnswers, Init
<1> QED
  BY <1>1, <1>5, <1>6, <1>7, <1>8, Zenon DEF OwnInv

(* Every step keeps answers and askers together; a broker that is killed   *)
(* is out of the assumption.                                               *)
LEMMA OwnNext ==
    ASSUME MsgQueueAssumption, AddressesSuffice, OwnInv, [Next]_vars
    PROVE  OwnInv'
<1> DEFINE Own == Counted /\ Given /\ Addressed /\ OwnAnswers
<1>1. QueueInv'
  BY QueueNext, Zenon DEF OwnInv
<1>2. Own'
  <2>1. ASSUME NEW c \in Clients, AskAddress(c) PROVE Own'
    BY <2>1, AskAddressOwn, Zenon
  <2>2. ASSUME NEW c \in Clients, TakeAddress(c) PROVE Own'
    BY <2>2, TakeAddressOwn, Zenon
  <2>3. ASSUME NEW c \in Clients, Send(c) PROVE Own'
    BY <2>3, SendOwn, Zenon
  <2>a. ASSUME NEW c \in Clients, SendFails(c) PROVE Own'
    BY <2>a, SendFailsOwn, Zenon
  <2>4. ASSUME NEW c \in Clients, Receive(c) PROVE Own'
    BY <2>4, ReceiveOwn, Zenon
  <2>b. ASSUME NEW c \in Clients, ReceiveUnsent(c) PROVE Own'
    BY <2>b, NothingUnsent, Zenon
  <2>5. ASSUME NEW c \in Clients, Die(c) PROVE Own'
    BY <2>5, DieOwn, Zenon
  <2>6. CASE Recv
    BY <2>6, RecvOwn, Zenon
  <2>7. CASE RegisterReply
    BY <2>7, RegisterReplyOwn, Zenon
  <2>8. CASE Exchange
    BY <2>8, ExchangeOwn, Zenon
  <2>9. CASE Xmit
    BY <2>9, XmitOwn, Zenon
  <2>10. CASE Crash
    BY <2>10 DEF Crash, OwnInv, Counted, AddressesSuffice
  <2>11. CASE UNCHANGED vars
    BY <2>11 DEF vars, queues, clients, OwnInv, Counted, Given, Addressed, OwnAnswers,
                 UnderWay, Owned, Busy, AtBroker, Registrations, Unregistered
  <2> QED
    BY <2>1, <2>2, <2>3, <2>a, <2>4, <2>b, <2>5, <2>6, <2>7, <2>8, <2>9, <2>10, <2>11, Zenon
       DEF Next, ClientStep, BrokerStep
<1> QED
  BY <1>1, <1>2, Zenon DEF OwnInv

(* MsgServer::recv gives unique addresses and MQProxy::sendrecv returns    *)
(* the answer to the client's own request, for any number of clients,      *)
(* requests and deaths of clients, as long as the broker lives and the     *)
(* addresses do not wrap around.                                           *)
THEOREM AnswersFindAskers ==
    ASSUME MsgQueueAssumption, AddressesSuffice
    PROVE  Spec => []AnswersOwn
<1>1. Init => OwnInv
  BY OwnInit, Zenon
<1>2. OwnInv /\ [Next]_vars => OwnInv'
  BY OwnNext, Zenon
<1>3. OwnInv => AnswersOwn
  <2> SUFFICES ASSUME OwnInv PROVE AnswersOwn
    BY Zenon
  <2>1. QueueInv /\ OwnAnswers
    BY Zenon DEF OwnInv
  <2>2. TypeOK /\ OneAnswer
    BY <2>1, ShapeTypes, CountedOnce, Zenon
  <2>3. UniqueAddresses
    BY Zenon DEF OwnInv, Given, UniqueAddresses
  <2> QED
    BY <2>1, <2>2, <2>3, Zenon DEF AnswersOwn
<1> QED
  BY <1>1, <1>2, <1>3, PTL DEF Spec

-----------------------------------------------------------------------------
(* The configurations that the processes read. *)
CONSTANTS ConfClients, ConfServers, NumNeighbors, Params, MaxParamLines, MaxNeighborLines,
          MaxInits, Hashes
VARIABLES inits, ZHTParameters, NeighborSeeds, NeighborVector, proxy, server, stub

Conf == INSTANCE Membership WITH Clients <- ConfClients, Servers <- ConfServers

(* The servers in the order of the map, which setNeighborVector copies.    *)
InMapOrder(seeds) == Conf!SetNeighborVector(<<>>, seeds, <<>>)

(* What a process has is a function of what the first files it read said.  *)
ConfInv ==
    /\ inits \in [Conf!Procs -> Nat]
    /\ ZHTParameters \in [Conf!Procs -> SUBSET DOMAIN Params]
    /\ DOMAIN NeighborSeeds = Conf!Procs /\ DOMAIN NeighborVector = Conf!Procs
    /\ DOMAIN proxy = ConfClients /\ DOMAIN server = ConfServers /\ DOMAIN stub = ConfServers
    /\ \A p \in Conf!Procs :
         NeighborVector[p] = IF inits[p] > 0 THEN InMapOrder(NeighborSeeds[p]) ELSE <<>>
    /\ \A c \in ConfClients : inits[c] > 0 => proxy[c] = Conf!CreateProxy(ZHTParameters[c])
    /\ \A s \in ConfServers : server[s] \in {"TCP", "UDP"} =>
         /\ inits[s] > 0
         /\ server[s] = Conf!GetZhtconfParameter(ZHTParameters[s], "PROTOCOL")
         /\ stub[s] = Conf!CreateStub(ZHTParameters[s])

(* Line i is the first of that name among params, and its value is v. *)
FirstLine(i, params, name, v) ==
    /\ Params[i].name = name /\ Params[i].value = v
    /\ \A j \in params : Params[j].name = name => i <= j

(* A set of natural numbers has a least element. *)
LEMMA LeastNumber ==
    ASSUME NEW T \in SUBSET Nat, T # {}
    PROVE  \E m \in T : \A n \in T : m <= n
<1> DEFINE R == OpToRel(<, Nat)
<1>1. IsWellFoundedOn(R, Nat)
  BY NatLessThanWellFounded, Zenon
<1>2. \A m, n \in Nat : <<m, n>> \in R <=> m < n
  BY Zenon DEF OpToRel
<1> HIDE DEF R
<1>3. PICK m \in T : \A n \in T : ~(<<n, m>> \in R)
  BY <1>1, WFMin, Zenon
<1>4. ASSUME NEW n \in T PROVE m <= n
  <2>1. m \in Nat /\ n \in Nat
    BY Zenon
  <2>2. ~(n < m)
    BY <1>2, <1>3, <2>1, Zenon
  <2> QED
    BY <2>1, <2>2
<1> QED
  BY <1>4, Zenon

(* setNeighborVector adds the entries of the map, whatever the file was.   *)
LEMMA MapOrder ==
    ASSUME NEW seeds, NEW file
    PROVE  Conf!SetNeighborVector(<<>>, seeds, file) = InMapOrder(seeds)
BY Zenon DEF InMapOrder, Conf!SetNeighborVector

(* The lines of zht.conf are numbered.                                     *)
LEMMA ParamLines ==
    ASSUME Conf!MembershipAssumption
    PROVE  DOMAIN Params \subseteq Nat /\ \A i \in DOMAIN Params : Params[i] \in [name : STRING, value : STRING]
<1>1. ASSUME NEW S, Params \in Seq(S)
      PROVE  DOMAIN Params \subseteq Nat /\ \A i \in DOMAIN Params : Params[i] \in S
  BY <1>1
<1> QED
  BY <1>1, Zenon DEF Conf!MembershipAssumption

(* get_zhtconf_parameter finds the first entry of a name, if there is one. *)
LEMMA FirstNamed ==
    ASSUME Conf!MembershipAssumption, NEW params \in SUBSET DOMAIN Params, NEW name,
           NEW v, v = Conf!GetZhtconfParameter(params, name), v # ""
    PROVE  \E i \in params : FirstLine(i, params, name, v)
<1> DEFINE N == Conf!Named(params, name)
<1>1. N = {i \in params : Params[i].name = name}
  BY Zenon DEF Conf!Named
<1>2. N # {}
  BY Zenon DEF Conf!GetZhtconfParameter
<1>3. v = Params[Conf!Min(N)].value
  BY <1>2, Zenon DEF Conf!GetZhtconfParameter
<1>4. N \subseteq Nat
  BY <1>1, ParamLines, Zenon
<1>5. \E i \in N : \A j \in N : i <= j
  BY <1>2, <1>4, LeastNumber, Zenon
<1>6. Conf!Min(N) \in N /\ \A j \in N : Conf!Min(N) <= j
  BY <1>5, Zenon DEF Conf!Min
<1> QED
  BY <1>1, <1>3, <1>6, Zenon DEF FirstLine

(* The server's protocol is the one that the search of createProxy and of  *)
(* createStub ends with: TCP is before UDP in the map as well.             *)
LEMMA SameProtocol ==
    ASSUME Conf!MembershipAssumption, NEW params \in SUBSET DOMAIN Params,
           NEW v \in {"TCP", "UDP"}, v = Conf!GetZhtconfParameter(params, "PROTOCOL")
    PROVE  Conf!CreateProxy(params) = v /\ Conf!CreateStub(params) = v
<1>1. v # ""
  BY Zenon
<1>a. PICK i \in params : FirstLine(i, params, "PROTOCOL", v)
  BY <1>1, FirstNamed, Zenon
<1>2. /\ Params[i].name = "PROTOCOL" /\ Params[i].value = v
      /\ \A j \in params : Params[j].name = "PROTOCOL" => i <= j
  BY <1>a, Zenon DEF FirstLine
<1>3. Params[i] \in [name : STRING, value : STRING] /\ DOMAIN Params \subseteq Nat
  BY ParamLines, Zenon
<1>4. Params[i] = Conf!Protocol(v)
  BY <1>2, <1>3, Zenon DEF Conf!Protocol
<1>5. Conf!Has(params, v)
  BY <1>4, Zenon DEF Conf!Has
<1>6. CASE v = "TCP"
  BY <1>5, <1>6 DEF Conf!CreateProxy, Conf!CreateStub
<1>7. CASE v = "UDP"
  <2>1. ~Conf!Has(params, "TCP")
    <3> SUFFICES ASSUME NEW j \in params, Params[j] = Conf!Protocol("TCP") PROVE FALSE
      BY Zenon DEF Conf!Has
    <3>1. j < i
      BY <1>4, <1>7, Zenon DEF Conf!MembershipAssumption
    <3>2. i <= j
      BY <1>2 DEF Conf!Protocol
    <3> QED
      BY <3>1, <3>2, <1>3
  <2> QED
    BY <2>1, <1>5, <1>7 DEF Conf!CreateProxy, Conf!CreateStub
<1> QED
  BY <1>6, <1>7, Zenon

(* initConf: the process keeps what it has, or has what the files say.     *)
LEMMA ConfRead ==
    ASSUME Conf!MembershipAssumption, ConfInv, NEW p \in Conf!Procs, NEW z, NEW n,
           z \in Conf!Files(Len(Params), MaxParamLines), Conf!InitConf(p, z, n)
    PROVE  /\ inits' \in [Conf!Procs -> Nat] /\ inits'[p] > 0
           /\ ZHTParameters' \in [Conf!Procs -> SUBSET DOMAIN Params]
           /\ DOMAIN NeighborSeeds' = Conf!Procs /\ DOMAIN NeighborVector' = Conf!Procs
           /\ \A q \in Conf!Procs : q # p => inits'[q] = inits[q] /\ ZHTParameters'[q] = ZHTParameters[q]
           /\ inits[p] > 0 => ZHTParameters' = ZHTParameters
           /\ \A q \in Conf!Procs :
                NeighborVector'[q] = IF inits'[q] > 0 THEN InMapOrder(NeighborSeeds'[q]) ELSE <<>>
<1>1. inits' = [inits EXCEPT ![p] = @ + 1]
  BY Zenon DEF Conf!InitConf
<1>2. /\ inits' \in [Conf!Procs -> Nat] /\ inits'[p] > 0
      /\ \A q \in Conf!Procs : q # p => inits'[q] = inits[q]
  BY <1>1 DEF ConfInv
<1>3. CASE inits[p] > 0
  <2>1. UNCHANGED <<ZHTParameters, NeighborSeeds, NeighborVector>>
    BY <1>3, Zenon DEF Conf!InitConf
  <2> QED
    BY <2>1, <1>2, <1>3, Zenon DEF ConfInv
<1>4. CASE ~(inits[p] > 0)
  <2>1. PICK P, S : /\ P = Conf!SetParametersInternal(ZHTParameters[p], z)
                    /\ S = Conf!SetParametersInternal(NeighborSeeds[p], n)
    BY Zenon
  <2>2. /\ ZHTParameters' = [ZHTParameters EXCEPT ![p] = P]
        /\ NeighborSeeds' = [NeighborSeeds EXCEPT ![p] = S]
    BY <2>1, <1>4 DEF Conf!InitConf
  <2>3. NeighborSeeds'[p] = S /\ \A q \in Conf!Procs : q # p => NeighborSeeds'[q] = NeighborSeeds[q]
    BY <2>2, Zenon DEF ConfInv
  <2>4. NeighborVector[p] = <<>>
    BY <1>4, Zenon DEF ConfInv
  <2>5. NeighborVector' = [NeighborVector EXCEPT ![p] = Conf!SetNeighborVector(<<>>, S, n)]
    BY <2>3, <2>4, <1>4 DEF Conf!InitConf
  <2>6. NeighborVector' = [NeighborVector EXCEPT ![p] = InMapOrder(S)]
    BY <2>5, MapOrder
  <2>7. P \subseteq DOMAIN Params
    <3>1. PICK k \in Nat : z \in [1 .. k -> 0 .. Len(Params)]
      BY DEF Conf!Files, Conf!MembershipAssumption
    <3>2. Conf!ToSet(z) \subseteq 0 .. Len(Params)
      BY <3>1, Zenon DEF Conf!ToSet
    <3>3. DOMAIN Params = 1 .. Len(Params) /\ Len(Params) \in Nat
      BY DEF Conf!MembershipAssumption
    <3>4. Conf!ToSet(z) \ {0} \subseteq DOMAIN Params
      BY <3>2, <3>3
    <3>5. ZHTParameters[p] \subseteq DOMAIN Params
      BY Zenon DEF ConfInv
    <3> QED
      BY <3>4, <3>5, <2>1 DEF Conf!SetParametersInternal
  <2>8. /\ ZHTParameters' \in [Conf!Procs -> SUBSET DOMAIN Params]
        /\ \A q \in Conf!Procs : q # p => ZHTParameters'[q] = ZHTParameters[q]
    BY <2>2, <2>7, Zenon DEF ConfInv
  <2>9. DOMAIN NeighborSeeds' = Conf!Procs /\ DOMAIN NeighborVector' = Conf!Procs
    BY <2>2, <2>6, Zenon DEF ConfInv
  <2>10. ASSUME NEW q \in Conf!Procs
         PROVE  NeighborVector'[q] = IF inits'[q] > 0 THEN InMapOrder(NeighborSeeds'[q]) ELSE <<>>
    <3>1. CASE q = p
      BY <3>1, <2>3, <2>6, <1>2 DEF ConfInv
    <3>2. CASE q # p
      <4>1. NeighborVector'[q] = NeighborVector[q]
        BY <3>2, <2>6 DEF ConfInv
      <4> QED
        BY <4>1, <3>2, <2>3, <1>2, Zenon DEF ConfInv
    <3> QED
      BY <3>1, <3>2, Zenon
  <2> QED
    BY <2>8, <2>9, <2>10, <1>2, <1>4
<1> QED
  BY <1>3, <1>4, Zenon

(* ZHTClient::init and main of the server.                                 *)
LEMMA ConfNext ==
    ASSUME Conf!MembershipAssumption, ConfInv, [Conf!Next]_(Conf!vars)
    PROVE  ConfInv'
<1>0. ConfClients \cap ConfServers = {} /\ Conf!Procs = ConfClients \cup ConfServers
  BY Zenon DEF Conf!MembershipAssumption, Conf!Procs
<1>1. ASSUME NEW c \in ConfClients, Conf!ClientInit(c) PROVE ConfInv'
  <2>1. PICK z, n : z \in Conf!Files(Len(Params), MaxParamLines) /\ Conf!InitConf(c, z, n)
    BY <1>1, Zenon DEF Conf!ClientInit
  <2>2. c \in Conf!Procs
    BY <1>0, Zenon
  <2>3. /\ proxy' = [proxy EXCEPT ![c] = Conf!CreateProxy(ZHTParameters'[c])]
        /\ server' = server /\ stub' = stub
    BY <1>1, Zenon DEF Conf!ClientInit
  <2>4. DOMAIN proxy' = ConfClients /\ DOMAIN server' = ConfServers /\ DOMAIN stub' = ConfServers
    BY <2>3, Zenon DEF ConfInv
  <2>5. \A d \in ConfClients : inits'[d] > 0 => proxy'[d] = Conf!CreateProxy(ZHTParameters'[d])
    <3> SUFFICES ASSUME NEW d \in ConfClients, inits'[d] > 0
                 PROVE  proxy'[d] = Conf!CreateProxy(ZHTParameters'[d])
      BY Zenon
    <3>1. CASE d = c
      BY <3>1, <2>3, Zenon DEF ConfInv
    <3>2. CASE d # c
      <4>1. inits'[d] = inits[d] /\ ZHTParameters'[d] = ZHTParameters[d]
        BY <3>2, <2>1, <2>2, <1>0, ConfRead
      <4>2. proxy'[d] = proxy[d]
        BY <3>2, <2>3, Zenon DEF ConfInv
      <4> QED
        BY <4>1, <4>2 DEF ConfInv
    <3> QED
      BY <3>1, <3>2
  <2>6. \A s \in ConfServers : inits'[s] = inits[s] /\ ZHTParameters'[s] = ZHTParameters[s]
    <3>1. \A s \in ConfServers : s # c /\ s \in Conf!Procs
      BY <1>0, Zenon
    <3> QED
      BY <3>1, <2>1, <2>2, ConfRead
  <2>7. \A s \in ConfServers : server'[s] \in {"TCP", "UDP"} =>
         /\ inits'[s] > 0
         /\ server'[s] = Conf!GetZhtconfParameter(ZHTParameters'[s], "PROTOCOL")
         /\ stub'[s] = Conf!CreateStub(ZHTParameters'[s])
    BY <2>3, <2>6, Zenon DEF ConfInv
  <2>8. /\ inits' \in [Conf!Procs -> Nat]
        /\ ZHTParameters' \in [Conf!Procs -> SUBSET DOMAIN Params]
        /\ DOMAIN NeighborSeeds' = Conf!Procs /\ DOMAIN NeighborVector' = Conf!Procs
        /\ \A q \in Conf!Procs :
             NeighborVector'[q] = IF inits'[q] > 0 THEN InMapOrder(NeighborSeeds'[q]) ELSE <<>>
    BY <2>1, <2>2, ConfRead, Zenon
  <2> QED
    BY <2>4, <2>5, <2>7, <2>8, Zenon DEF ConfInv
<1>2. ASSUME NEW s \in ConfServers, Conf!ServerMain(s) PROVE ConfInv'
  <2>1. PICK z, n : z \in Conf!Files(Len(Params), MaxParamLines) /\ Conf!InitConf(s, z, n)
    BY <1>2, Zenon DEF Conf!ServerMain
  <2>2. s \in Conf!Procs
    BY <1>0, Zenon
  <2>3. PICK v : v = Conf!GetZhtconfParameter(ZHTParameters'[s], "PROTOCOL")
    BY Zenon
  <2>4. /\ proxy' = proxy
        /\ \/ /\ server' = [server EXCEPT ![s] = v]
              /\ stub' = [stub EXCEPT ![s] = Conf!CreateStub(ZHTParameters'[s])]
           \/ server' = [server EXCEPT ![s] = "exited"] /\ stub' = stub
    BY <1>2, <2>3, Zenon DEF Conf!ServerMain
  <2>5. DOMAIN proxy' = ConfClients /\ DOMAIN server' = ConfServers /\ DOMAIN stub' = ConfServers
    BY <2>4, Zenon DEF ConfInv
  <2>6. \A c \in ConfClients : inits'[c] > 0 => proxy'[c] = Conf!CreateProxy(ZHTParameters'[c])
    <3>1. \A c \in ConfClients : c # s /\ c \in Conf!Procs
      BY <1>0, Zenon
    <3>2. \A c \in ConfClients : inits'[c] = inits[c] /\ ZHTParameters'[c] = ZHTParameters[c]
      BY <3>1, <2>1, <2>2, ConfRead, Zenon
    <3> QED
      BY <3>2, <2>4 DEF ConfInv
  <2>7. \A r \in ConfServers : server'[r] \in {"TCP", "UDP"} =>
         /\ inits'[r] > 0
         /\ server'[r] = Conf!GetZhtconfParameter(ZHTParameters'[r], "PROTOCOL")
         /\ stub'[r] = Conf!CreateStub(ZHTParameters'[r])
    <3> SUFFICES ASSUME NEW r \in ConfServers, server'[r] \in {"TCP", "UDP"}
                 PROVE  /\ inits'[r] > 0
                        /\ server'[r] = Conf!GetZhtconfParameter(ZHTParameters'[r], "PROTOCOL")
                        /\ stub'[r] = Conf!CreateStub(ZHTParameters'[r])
      BY Zenon
    <3>1. CASE r = s
      <4>1. inits'[s] > 0
        BY <2>1, <2>2, ConfRead, Zenon
      <4>2. server'[s] = v /\ stub'[s] = Conf!CreateStub(ZHTParameters'[s])
        BY <3>1, <2>4, Zenon DEF ConfInv
      <4> QED
        BY <4>1, <4>2, <3>1, <2>3, Zenon
    <3>2. CASE r # s
      <4>1. inits'[r] = inits[r] /\ ZHTParameters'[r] = ZHTParameters[r]
        BY <3>2, <2>1, <2>2, <1>0, ConfRead, Zenon
      <4>2. server'[r] = server[r] /\ stub'[r] = stub[r]
        BY <3>2, <2>4, Zenon DEF ConfInv
      <4> QED
        BY <4>1, <4>2, Zenon DEF ConfInv
    <3> QED
      BY <3>1, <3>2, Zenon
  <2>8. /\ inits' \in [Conf!Procs -> Nat]
        /\ ZHTParameters' \in [Conf!Procs -> SUBSET DOMAIN Params]
        /\ DOMAIN NeighborSeeds' = Conf!Procs /\ DOMAIN NeighborVector' = Conf!Procs
        /\ \A q \in Conf!Procs :
             NeighborVector'[q] = IF inits'[q] > 0 THEN InMapOrder(NeighborSeeds'[q]) ELSE <<>>
    BY <2>1, <2>2, ConfRead, Zenon
  <2> QED
    BY <2>5, <2>6, <2>7, <2>8, Zenon DEF ConfInv
<1>3. CASE UNCHANGED Conf!vars
  BY <1>3, Zenon DEF Conf!vars, ConfInv
<1> QED
  BY <1>1, <1>2, <1>3, Zenon DEF Conf!Next

(* Nothing is read.                                                        *)
LEMMA ConfInit ==
    ASSUME Conf!Init
    PROVE  ConfInv
<1>1. \A p \in Conf!Procs : inits[p] = 0 /\ NeighborVector[p] = <<>>
  BY Zenon DEF Conf!Init
<1>2. \A p \in Conf!Procs : ~(inits[p] > 0)
  BY <1>1
<1>3. \A p \in Conf!Procs :
        NeighborVector[p] = IF inits[p] > 0 THEN InMapOrder(NeighborSeeds[p]) ELSE <<>>
  BY <1>1, <1>2, Zenon
<1>4. \A c \in ConfClients : ~(inits[c] > 0)
  BY <1>2, Zenon DEF Conf!Procs
<1>5. \A s \in ConfServers : server[s] \notin {"TCP", "UDP"}
  BY Zenon DEF Conf!Init
<1>6. /\ inits \in [Conf!Procs -> Nat]
      /\ ZHTParameters \in [Conf!Procs -> SUBSET DOMAIN Params]
      /\ DOMAIN NeighborSeeds = Conf!Procs /\ DOMAIN NeighborVector = Conf!Procs
      /\ DOMAIN proxy = ConfClients /\ DOMAIN server = ConfServers /\ DOMAIN stub = ConfServers
  BY Zenon DEF Conf!Init
<1> QED
  BY <1>3, <1>4, <1>5, <1>6, Zenon DEF ConfInv

(* ConfHandler, ProxyStubFactory and main of the server: processes whose   *)
(* files have the same entries send a key to the same server, over the     *)
(* protocol it serves, for any files, numbers of processes and of lines.   *)
THEOREM ConfigurationsMatch ==
    ASSUME Conf!MembershipAssumption
    PROVE  Conf!Spec => []Conf!ConfigurationsAgree
<1>1. Conf!Init => ConfInv
  BY ConfInit, Zenon
<1>2. ConfInv /\ [Conf!Next]_(Conf!vars) => ConfInv'
  BY ConfNext, Zenon
<1>3. ConfInv => Conf!ConfigurationsAgree
  <2> SUFFICES ASSUME ConfInv PROVE Conf!RoutingAgrees /\ Conf!TransportsAgree
    BY Zenon DEF Conf!ConfigurationsAgree
  <2>1. Conf!RoutingAgrees
    <3>1. \A p, q \in Conf!Procs :
            inits[p] > 0 /\ inits[q] > 0 /\ NeighborSeeds[p] = NeighborSeeds[q] =>
               NeighborVector[p] = NeighborVector[q]
      BY Zenon DEF ConfInv
    <3> QED
      BY <3>1, Zenon DEF Conf!RoutingAgrees, Conf!GetHostEntityByKey
  <2>2. Conf!TransportsAgree
    <3> SUFFICES ASSUME NEW c \in ConfClients, NEW s \in ConfServers, inits[c] > 0,
                        server[s] \in {"TCP", "UDP"}, ZHTParameters[c] = ZHTParameters[s]
                 PROVE  proxy[c] = server[s] /\ stub[s] = server[s]
      BY Zenon DEF Conf!TransportsAgree
    <3>1. /\ server[s] = Conf!GetZhtconfParameter(ZHTParameters[s], "PROTOCOL")
          /\ stub[s] = Conf!CreateStub(ZHTParameters[s])
          /\ proxy[c] = Conf!CreateProxy(ZHTParameters[s])
      BY Zenon DEF ConfInv
    <3>2. ZHTParameters[s] \in SUBSET DOMAIN Params
      BY Zenon DEF ConfInv, Conf!Procs
    <3> QED
      BY <3>1, <3>2, SameProtocol
  <2> QED
    BY <2>1, <2>2, Zenon
<1> QED
  BY <1>1, <1>2, <1>3, PTL DEF Conf!Spec
=============================================================================
