----------------------------- MODULE StoredValue -----------------------------
(* The metadata of a task, or the statistics of a scheduler, as MATRIX keeps *)
(* it in ZHT: a Value is filled in, written as text, sent inside the text   *)
(* of a ZPack, stored, looked up, sent back inside another ZPack, and read; *)
(* the reader goes on from what it read (notify_children, submit_task).     *)
EXTENDS TextCodec

CONSTANTS
    Id,             \* the id of the Value
    Texts,          \* texts that are added to its lists
    MaxSets         \* bound: fields that are set or added to

(* What the constants have to be. *)
StoredValueAssumption == MaxSets \in Nat

VARIABLES
    value,          \* the Value in the caller's hands
    wire,           \* what is on the way to the server or back
    stored,         \* the text under its key in the server
    pc, sets

vars == <<value, wire, stored, pc, sets>>

(* Numbers of a field: an int has no wide ones.  Nothing sets an outputsize. *)
Numbers(f) == IF f.read \in {"long", "longs"} /\ f.name # "outputsize" THEN {0, 3, Wide} ELSE {0, 3}

(* The generated setters: set_indegree, set_submittime, add_children, ... *)
SetField ==
    /\ pc = "fill" /\ sets < MaxSets
    /\ \E i \in 2 .. Len(ValueToStrFields) : LET f == ValueToStrFields[i] IN
          \/ /\ ~IsList(f)
             /\ \E n \in Numbers(f) : value' = [value EXCEPT ![f.name] = <<n>>]
          \/ /\ f.read = "texts"
             /\ \E t \in Texts : value' = [value EXCEPT ![f.name] = Append(@, t)]
          \/ /\ f.read = "longs"
             /\ \E n \in Numbers(f) : value' = [value EXCEPT ![f.name] = Append(@, n)]
    /\ sets' = sets + 1
    /\ UNCHANGED <<wire, stored, pc>>

(* A request to insert a text under the id (commonOpInternal). *)
InsertRequest(text) ==
    [opcode |-> <<"003">>, replicanum |-> <<"3">>, key |-> Id,
     val |-> IF text = <<>> THEN <<"^">> ELSE text,
     valnull |-> IF text = <<>> THEN <<"1">> ELSE <<"0">>,
     newval |-> <<"?">>, newvalnull |-> <<"1">>, lease |-> <<"0">>]

Insert ==
    /\ pc = "fill"
    /\ wire' = ZPackToStr(InsertRequest(ValueToStr(value)))
    /\ pc' = "insert"
    /\ UNCHANGED <<value, stored, sets>>

(* The server reads the request and stores it, as text again. *)
InsertShared ==
    /\ pc = "insert"
    /\ stored' = ZPackToStr(StrToZPack(wire))
    /\ pc' = "stored"
    /\ UNCHANGED <<value, wire, sets>>

(* lookup_shared answers with the whole text that is stored. *)
LookupShared ==
    /\ pc = "stored"
    /\ wire' = stored
    /\ pc' = "answer"
    /\ UNCHANGED <<value, stored, sets>>

(* extract_value: the val of the request that was stored. *)
ExtractValue(text) ==
    Strict(LAMBDA z : IF z.valnull = <<"1">> \/ z.val = Unset THEN <<>> ELSE z.val, StrToZPack(text))

(* str_to_value exits when pieces are missing. *)
Read ==
    /\ pc = "answer"
    /\ \E v \in {StrToValue(ExtractValue(wire))} :
          IF Aborted(v) THEN pc' = "exited" /\ UNCHANGED value
                        ELSE pc' = "fill" /\ value' = v
    /\ UNCHANGED <<wire, stored, sets>>

Init ==
    /\ value = NewValue(Id)
    /\ wire = <<>> /\ stored = <<>> /\ pc = "fill" /\ sets = 0

Next == SetField \/ Insert \/ InsertShared \/ LookupShared \/ Read

Spec == Init /\ [][Next]_vars

-----------------------------------------------------------------------------
ReadSame == pc = "answer" => pc' = "fill" /\ value' = value

(* What the caller reads is what it stored: the text forms of a Value and   *)
(* of a ZPack, and their nesting, lose, exchange or truncate no field, so   *)
(* that a lookup after an insert gives value_to_str's argument back to      *)
(* str_to_value's caller.                                                   *)
ReadsWhatItStored == [][ReadSame]_vars
=============================================================================
