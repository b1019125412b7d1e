------------------------------ MODULE Transport ------------------------------
(* The conversations between the processes of MATRIX that carry tasks and   *)
(* data, down to the text on the socket: what send_mul, send_big and        *)
(* send_first put on a TCP stream, how the receiver cuts the stream into    *)
(* reads, and what it makes of them.  There are four kinds:                 *)
(*    "submit"  a client sends a batch (submit_task_wc), and the server of  *)
(*              a scheduler takes it (serve, proc_req, recv_task_from_client)*)
(*    "steal"   a scheduler sends a batch (send_task) to the thief          *)
(*              (recv_task_from_scheduler)                                  *)
(*    "push"    a scheduler sends one task (task_ready_process), and the    *)
(*              other one queues it (recv_pushing_task)                     *)
(*    "data"    a scheduler sends a task's output (send_big), and the       *)
(*              executor of a child takes it (recv_big)                     *)
EXTENDS TextCodec, FiniteSets

CONSTANTS
    Kinds,
    Batches,        \* sequences of tasks to send
    Outputs,        \* outputs of tasks to send
    MaxTaskPerPkg,  \* config->maxTaskPerPkg
    Buf,            \* _BUF_SIZE
    MayRefuse       \* may the connection be refused?

(* What the constants have to be. *)
TransportAssumption ==
    /\ Kinds \subseteq {"submit", "steal", "push", "data"}
    /\ MaxTaskPerPkg \in Nat \ {0} /\ Buf \in Nat \ {0}
    /\ MayRefuse \in BOOLEAN

VARIABLES
    kind, tasks, output,    \* the conversation
    sends,                  \* what its sender still has to send
    stream,                 \* what is in the socket
    open,                   \* has the sender not yet closed it?
    rpc, buf,               \* the receiver and what it has read
    result,                 \* what it made of it
    clean                   \* has no read been cut where the code goes wrong?

vars == <<kind, tasks, output, sends, stream, open, rpc, buf, result, clean>>

-----------------------------------------------------------------------------
(* The sender. *)
Mm(msgtype, extrainfo, count, ts) ==
    [msgtype |-> msgtype, extrainfo |-> extrainfo, count |-> count, tasks |-> ts]

(* send_mul: a message of several, each followed by ##, the last one by $. *)
SendMul(text, end) == text \o <<"#", "#">> \o IF end THEN <<"$">> ELSE <<>>

(* A plausible bug: only full packages are sent. *)
SendBatchTasksFull(ts, peer) ==
    LET type    == <<peer, "sendtasks">>
        n       == Len(ts)
        num     == n \div MaxTaskPerPkg
        head    == Mm(type, Unset, <<n>>, <<>>)
        pkg(i)  == LET s == SubSeq(ts, (i - 1) * MaxTaskPerPkg + 1, i * MaxTaskPerPkg)
                   IN Mm(type, Unset, <<Len(s)>>, [j \in DOMAIN s |-> TaskmsgToStr(s[j])])
    IN <<SendMul(MmToStr(head), num = 0)>>
         \o [i \in 1 .. num |-> SendMul(MmToStr(pkg(i)), i = num)]

(* send_batch_tasks: the number of tasks, then packages of tasks. *)
SendBatchTasks(ts, peer) ==
    LET type    == <<peer, "sendtasks">>
        n       == Len(ts)
        num     == (n + MaxTaskPerPkg - 1) \div MaxTaskPerPkg
        head    == Mm(type, Unset, <<n>>, <<>>)
        last(i) == IF i = num THEN n ELSE i * MaxTaskPerPkg
        pkg(i)  == LET s == SubSeq(ts, (i - 1) * MaxTaskPerPkg + 1, last(i))
                   IN Mm(type, Unset, <<Len(s)>>, [j \in DOMAIN s |-> TaskmsgToStr(s[j])])
    IN <<SendMul(MmToStr(head), n = 0)>>
         \o [i \in 1 .. num |-> SendMul(MmToStr(pkg(i)), i = num)]

(* send_big: pieces of _BUF_SIZE, then the rest and $. *)
SendBig(text) ==
    LET num == Len(text) \div Buf
    IN [i \in 1 .. num |-> SubSeq(text, (i - 1) * Buf + 1, i * Buf)]
         \o <<Append(SubSeq(text, num * Buf + 1, Len(text)), "$")>>

Sends(k, ts, out) ==
    CASE k = "submit" -> SendBatchTasks(ts, "client")
      [] k = "steal"  -> SendBatchTasks(ts, "scheduler")
      [] k = "push"   -> <<MmToStr(Mm(<<"schedulerpush">>, Unset, <<1>>, <<TaskmsgToStr(ts[1])>>))>>
      [] k = "data"   -> SendBig(MmToStr(Mm(<<"schedulersend">>, out, Unset0, <<>>)))

Send ==
    /\ sends # <<>>
    /\ stream' = stream \o Head(sends)
    /\ sends' = Tail(sends)
    /\ UNCHANGED <<kind, tasks, output, open, rpc, buf, result, clean>>

Close ==
    /\ sends = <<>> /\ open
    /\ open' = FALSE
    /\ UNCHANGED <<kind, tasks, output, sends, stream, rpc, buf, result, clean>>

-----------------------------------------------------------------------------
(* The receiver.  A read returns what is there, up to _BUF_SIZE; the text   *)
(* is taken up to the first NUL, so a read that fills the buffer may go on  *)
(* behind its end.                                                          *)
Read(k) == {SubSeq(stream, 1, k)}
             \cup IF k = Buf THEN {SubSeq(stream, 1, k) \o <<"garbage">>} ELSE {}

Sizes == {k \in 1 .. Buf : k <= Len(stream)}

(* recv_task_from_client, recv_task_from_scheduler: the text without its    *)
(* last character, which should be $, is cut at ##.  A single piece is the  *)
(* number of an empty batch; no piece at all throws.                        *)
BatchOf(pieces, mms) ==
    LET counted(mm) == IF mm.count = Unset0 THEN 0 ELSE mm.count[1]
        taken(mm) == [j \in 1 .. counted(mm) |-> StrToTaskmsg(mm.tasks[j])]
        throws(mm) == Aborted(mm) \/ counted(mm) > Len(mm.tasks)
                                  \/ \E j \in 1 .. counted(mm) : Aborted(StrToTaskmsg(mm.tasks[j]))
    IN IF Len(pieces) = 1 THEN [tasks |-> <<>>]
       ELSE IF pieces = <<>> \/ Aborted(mms[1]) \/ \E i \in 2 .. Len(pieces) : throws(mms[i])
         THEN Abort
       ELSE [tasks |-> FlattenSeq([i \in 1 .. Len(pieces) - 1 |-> taken(mms[i + 1])])]

DecodeBatch(text) ==
    Strict(LAMBDA pieces :
             Strict(LAMBDA mms : BatchOf(pieces, mms), [i \in DOMAIN pieces |-> StrToMm(pieces[i])]),
           Tokenize(SubSeq(text, 1, Len(text) - 1), "#"))

(* recv_big and the use of its text. *)
DecodeData(text) ==
    Strict(LAMBDA mm : IF Aborted(mm) THEN Abort ELSE [output |-> mm.extrainfo],
           StrToMm(SubSeq(text, 1, Len(text) - 1)))

(* proc_req, for a message that is not a client's batch. *)
PushOf(mm) ==
    IF Aborted(mm) THEN Abort
    ELSE IF mm.msgtype # <<"schedulerpush">> THEN [ignored |-> TRUE]
    ELSE IF mm.tasks = <<>> \/ Aborted(StrToTaskmsg(mm.tasks[1])) THEN Abort
    ELSE [tasks |-> <<StrToTaskmsg(mm.tasks[1])>>]

DecodePush(text) == Strict(PushOf, StrToMm(text))

IsBatch(text) == Len(text) >= 2 /\ SubSeq(text, 1, 2) = <<"client", "sendtasks">>

(* serve reads once from a new connection and hands it to proc_req, which   *)
(* needs the whole of a message, or the beginning of a batch.               *)
Serve ==
    /\ rpc = "serve"
    /\ \E k \in Sizes : \E c \in Read(k) :
          /\ stream' = SubSeq(stream, k + 1, Len(stream))
          /\ clean' = (k < Buf /\ IF kind = "submit" THEN IsBatch(c) ELSE stream' = <<>>)
          /\ IF IsBatch(c)
               THEN buf' = c /\ rpc' = "mul" /\ UNCHANGED result
               ELSE result' = DecodePush(c) /\ rpc' = "end" /\ UNCHANGED buf
    /\ UNCHANGED <<kind, tasks, output, sends, open>>

(* recv_mul: reads until one ends with $, or the connection does. *)
Finished(text) == IF kind = "data" THEN DecodeData(text) ELSE DecodeBatch(text)

RecvMul ==
    /\ rpc = "mul"
    /\ \E k \in Sizes : \E c \in Read(k) :
          /\ stream' = SubSeq(stream, k + 1, Len(stream))
          /\ buf' = buf \o c
          /\ clean' = (clean /\ k < Buf /\ (c[Len(c)] = "$" => stream' = <<>> /\ sends = <<>>))
          /\ IF c[Len(c)] = "$"
               THEN result' = Finished(buf') /\ rpc' = "end"
               ELSE UNCHANGED <<result, rpc>>
    /\ UNCHANGED <<kind, tasks, output, sends, open>>

(* A plausible bug: the end of the connection is not noticed. *)
RecvClosedNever ==
    /\ rpc = "mul" /\ stream = <<>> /\ ~open /\ buf = <<>>
    /\ result' = Finished(buf) /\ rpc' = "end"
    /\ UNCHANGED <<kind, tasks, output, sends, stream, open, buf, clean>>

RecvClosed ==
    /\ rpc = "mul" /\ stream = <<>> /\ ~open
    /\ result' = Finished(buf) /\ rpc' = "end"
    /\ UNCHANGED <<kind, tasks, output, sends, stream, open, buf, clean>>

(* The connection was refused: a pusher reads an empty answer and goes on,  *)
(* a client returns, a thief or an executor reads nothing.                  *)
Refused ==
    /\ rpc = "refused"
    /\ result' = IF kind \in {"push", "submit"} THEN [ignored |-> TRUE] ELSE Finished(<<>>)
    /\ rpc' = "end"
    /\ UNCHANGED <<kind, tasks, output, sends, stream, open, buf, clean>>

-----------------------------------------------------------------------------
Init ==
    /\ kind \in Kinds
    /\ tasks \in CASE kind = "push" -> {ts \in Batches : Len(ts) = 1}
                 [] kind = "data" -> {<<>>}
                 [] OTHER -> Batches
    /\ output \in IF kind = "data" THEN Outputs ELSE {<<>>}
    /\ \E refused \in {FALSE, MayRefuse} :
          /\ sends = IF refused THEN <<>> ELSE Sends(kind, tasks, output)
          /\ open = ~refused
          /\ rpc = IF refused THEN "refused"
                   ELSE IF kind \in {"submit", "push"} THEN "serve" ELSE "mul"
    /\ stream = <<>> /\ buf = <<>> /\ result = [none |-> TRUE] /\ clean = ~(rpc = "refused")

Sender   == Send \/ Close
Receiver == Serve \/ RecvMul \/ RecvClosed \/ Refused

Next == Sender \/ Receiver

(* The sender sends, and the receiver reads what has come. *)
Spec == Init /\ [][Next]_vars /\ WF_vars(Sender) /\ WF_vars(Receiver)

-----------------------------------------------------------------------------
Sent == IF kind = "data" THEN [output |-> output] ELSE [tasks |-> tasks]

(* What the receiver makes of a conversation is what the sender sent, in    *)
(* the same order: "receive tasks submitted by client", "receive several    *)
(* tasks from another scheduler", recv_pushing_task and the data of a       *)
(* parent.  It is so wherever the stream was cut into reads, but for three  *)
(* kinds of cut: a read that fills the buffer, a first read that proc_req   *)
(* cannot act on, and one that ends with a $ of the text.                   *)
ReceivedAsSent == rpc = "end" /\ clean => result = Sent

Ended == rpc = "end"

(* Every conversation comes to an end: no read waits for a $ that does not  *)
(* come or was taken by an earlier read.                                    *)
ConversationEnds == <>Ended
=============================================================================
