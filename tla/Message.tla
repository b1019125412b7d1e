------------------------------- MODULE Message -------------------------------
(* Two objects of one generated protobuf class, and the operations that the *)
(* program may call on them in any order.  The wire is a sequence of        *)
(* fields: a field is its tag and its value, and `cut' when the input ends  *)
(* inside it.  A string is the sequence of its bytes, a bool is 0 or 1.     *)
EXTENDS MessageTables, SequencesExt, FiniteSetsExt

CONSTANTS
    Classes,        \* the generated classes, names of Tables
    Objects,        \* two objects
    Strings, Ints,  \* the values of the fields
    MaxOps          \* bound: operations

(* What the constants have to be. *)
MessageAssumption == Classes \subseteq DOMAIN Tables

VARIABLES
    class,   \* the class of the objects
    obj,     \* object -> [has, val, unknown]
    call,    \* the last operation, if it was on a whole object
    ops

vars == <<class, obj, call, ops>>

T        == Tables[class]
FieldSet == DOMAIN T.access
Repeated == T.repeated
Singular == FieldSet \ Repeated

ValuesOf(kind) == CASE IsString(kind) -> Strings [] kind = "bool" -> {0, 1} [] OTHER -> Ints

-----------------------------------------------------------------------------
(* The wire format (the protobuf library). *)

Wire(tag, v)   == [tag |-> tag, v |-> v, cut |-> FALSE]
EndGroup       == 4

TagSize(tag)     == IF tag < 128 THEN 1 ELSE 2
VarintSize(n)    == IF n < 0 THEN 10 ELSE IF n < 128 THEN 1 ELSE 2
ValueBytes(tag, v) == IF tag % 8 = 2 THEN VarintSize(Len(v)) + Len(v) ELSE VarintSize(v)
WireSize(ws)     == FoldLeft(LAMBDA n, w : n + TagSize(w.tag) + ValueBytes(w.tag, w.v), 0, ws)

-----------------------------------------------------------------------------
(* The generated functions, driven by the tables of the class. *)

DefaultOf(f) == IF f \in Repeated \/ IsString(T.access[f].kind) THEN <<>> ELSE 0

(* SharedCtor *)
New == [has |-> {}, val |-> [f \in FieldSet |-> DefaultOf(f)], unknown |-> <<>>]

On(group, has) == group.mask = All \/ group.mask \cap has # {}

(* Clear: a group is skipped when it has no has bit set. *)
Cleared(o) ==
    LET reset(f) == \E g \in Range(T.clear) :
                        On(g, o.has) /\ (f \in g.zero \/ f \in g.empty \cap o.has)
    IN  [has |-> {}, unknown |-> <<>>,
         val |-> [f \in FieldSet |-> IF reset(f) THEN DefaultOf(f) ELSE o.val[f]]]

(* MergeFrom: lists are appended, set fields assigned. *)
MergedFrom(to, from) ==
    LET given == {f \in from.has : \E g \in Range(T.merge.groups) :
                                       On(g, from.has) /\ f \in g.fields}
    IN  [has |-> to.has \cup given,
         unknown |-> to.unknown \o from.unknown,
         val |-> [f \in FieldSet |-> IF f \in given THEN from.val[f]
                                     ELSE IF f \in T.merge.lists THEN to.val[f] \o from.val[f]
                                     ELSE to.val[f]]]

(* Serialization in the order of a table; what is unknown comes last. *)
WireOf(o, f, kind) ==
    IF f \in Repeated THEN [i \in DOMAIN o.val[f] |-> Wire(Tag(f, kind), o.val[f][i])]
    ELSE IF f \in o.has THEN <<Wire(Tag(f, kind), o.val[f])>>
    ELSE <<>>
Written(order, o) ==
    FoldLeft(LAMBDA ws, entry : ws \o WireOf(o, entry[1], entry[2]), <<>>, order) \o o.unknown

Serialize(o) == Written(T.write, o)
ToArray(o)   == Written(T.toArray, o)

(* ByteSize *)
FieldSize(o, f, tagSize) ==
    LET tag == Tag(1, T.access[f].kind)
    IN  IF f \in Repeated
        THEN FoldLeft(LAMBDA n, v : n + tagSize + ValueBytes(tag, v), 0, o.val[f])
        ELSE tagSize + ValueBytes(tag, o.val[f])
ByteSize(o) ==
    LET counted(g) == IF On(g, o.has) THEN {f \in DOMAIN g.tags : f \in o.has \cup Repeated} ELSE {}
        slow == MapThenSumSet(LAMBDA g : MapThenSumSet(LAMBDA f : FieldSize(o, f, g.tags[f]), counted(g)),
                              Range(T.size.groups))
        fast == MapThenSumSet(LAMBDA f : FieldSize(o, f, T.size.all[f]), DOMAIN T.size.all)
    IN  (IF T.size.required # {} /\ T.size.required \subseteq o.has THEN fast ELSE slow)
        + WireSize(o.unknown)

(* MergePartialFromCodedStream.  A string field is marked before it is     *)
(* read (mutable_...), a number after; the input ends the loop, a tag 0 or *)
(* an end of group ends it too.                                            *)
Stored(o, f, v, tag) ==
    IF f \in Repeated
    THEN [o EXCEPT !.val[f] = @ \o (IF tag % 8 = 2 /\ ~IsString(T.access[f].kind) THEN v ELSE <<v>>)]
    ELSE [o EXCEPT !.val[f] = v, !.has = @ \cup {f}]
Opened(o, f) ==
    IF f \in Repeated \/ ~IsString(T.access[f].kind) THEN o
    ELSE [o EXCEPT !.has = @ \cup {f}, !.val[f] = <<>>]
ParseStep(r, w) ==
    IF r.at # "loop" THEN r
    ELSE IF w.tag = 0 \/ w.tag % 8 = EndGroup THEN [r EXCEPT !.at = "success"]
    ELSE IF w.tag \notin DOMAIN T.parse
    THEN IF w.cut THEN [r EXCEPT !.at = "failure"] ELSE [r EXCEPT !.o.unknown = Append(@, w)]
    ELSE LET f == T.parse[w.tag]
         IN  IF w.cut THEN [at |-> "failure", o |-> Opened(r.o, f)]
             ELSE [r EXCEPT !.o = Stored(@, f, w.v, w.tag)]
MergePartial(o, ws) == FoldLeft(ParseStep, [at |-> "loop", o |-> o], ws)

IsInitialized(o) == T.required \subseteq o.has

(* ParseFromString (MessageLite): clear, merge, check. *)
Parsed(o, ws) ==
    LET r == MergePartial(Cleared(o), ws)
    IN  [ok |-> r.at # "failure" /\ IsInitialized(r.o), o |-> r.o]

(* InternalSwap *)
SwappedVal(o, p) == [f \in FieldSet |-> IF f \in T.swap THEN p.val[f] ELSE o.val[f]]
Swapped(o, p)    == [has |-> p.has, unknown |-> p.unknown, val |-> SwappedVal(o, p)]

(* protobuf_c_message_pack and ..._unpack, driven by the C descriptors. *)
CPack(o) == Written(T.cOrder, o)
CUnpacked(ws) ==
    FoldLeft(LAMBDA o, w : Stored(o, T.cTags[w.tag], w.v, w.tag),
             New, SelectSeq(ws, LAMBDA w : w.tag \in DOMAIN T.cTags))

-----------------------------------------------------------------------------
(* The operations. *)

NoCall == [name |-> "none"]

Do(name, o, new) ==
    /\ ops < MaxOps
    /\ ops' = ops + 1
    /\ call' = IF name \in {"clear", "copy"} THEN [name |-> name, o |-> o] ELSE NoCall
    /\ obj' = [obj EXCEPT ![o] = new]
    /\ UNCHANGED class

(* set_x, set_allocated_x with a string, mutable_x and an assignment *)
Set(o) == \E f \in Singular : \E v \in ValuesOf(T.access[f].kind) :
    Do("set", o, [obj[o] EXCEPT !.val[f] = v, !.has = @ \cup {f}])

(* mutable_x alone *)
Mutable(o) == \E f \in {f \in Singular : IsString(T.access[f].kind)} :
    Do("mutable", o, [obj[o] EXCEPT !.has = @ \cup {f}])

(* Variant: the accessor only takes the has bit away. *)
ClearFieldKeeping(o) == \E f \in FieldSet :
    Do("clear_field", o, [obj[o] EXCEPT !.has = @ \ {f}])

(* clear_x, release_x, set_allocated_x with NULL *)
ClearField(o) == \E f \in FieldSet :
    Do("clear_field", o, [obj[o] EXCEPT !.val[f] = DefaultOf(f), !.has = @ \ {f}])

(* add_x *)
Add(o) == \E f \in Repeated : \E v \in ValuesOf(T.access[f].kind) :
    Do("add", o, [obj[o] EXCEPT !.val[f] = Append(@, v)])

Clear(o)       == Do("clear", o, Cleared(obj[o]))
MergeFrom(o)   == \E p \in Objects \ {o} : Do("merge", o, MergedFrom(obj[o], obj[p]))
CopyFrom(o)    == \E p \in Objects \ {o} : Do("copy", o, MergedFrom(Cleared(obj[o]), obj[p]))

Swap(o) == \E p \in Objects \ {o} :
    /\ ops < MaxOps
    /\ ops' = ops + 1
    /\ call' = [name |-> "swap"]
    /\ obj' = [obj EXCEPT ![o] = Swapped(obj[o], obj[p]), ![p] = Swapped(obj[p], obj[o])]
    /\ UNCHANGED class

(* What a newer program may have added, and an input that ends early. *)
Newer      == <<Wire(Tag(20, "int64"), 0)>>
CutAt(ws, i) == [SubSeq(ws, 1, i) EXCEPT ![i].cut = TRUE]

(* ParseFromString of what another object was serialized to. *)
ParseWhole(o) == \E p \in Objects \ {o} : \E more \in {<<>>, Newer} :
    Do("parse", o, Parsed(obj[o], Serialize(obj[p]) \o more).o)
ParseCut(o) == \E p \in Objects \ {o} : \E i \in DOMAIN Serialize(obj[p]) :
    Do("parse_cut", o, Parsed(obj[o], CutAt(Serialize(obj[p]), i)).o)

Init ==
    /\ class \in Classes
    /\ obj = [o \in Objects |-> New]
    /\ call = NoCall
    /\ ops = 0

Next == \E o \in Objects :
    \/ Set(o) \/ Mutable(o) \/ ClearField(o) \/ Add(o)
    \/ Clear(o) \/ MergeFrom(o) \/ CopyFrom(o) \/ Swap(o)
    \/ ParseWhole(o) \/ ParseCut(o)

Spec == Init /\ [][Next]_vars

-----------------------------------------------------------------------------
(* Properties. *)

(* A field without its has bit holds its default, whatever was called:     *)
(* the getters return the value without looking at the has bit, and Clear  *)
(* skips a group of fields none of which is set.                           *)
UnsetIsDefault ==
    \A o \in Objects : \A f \in Singular \ obj[o].has : obj[o].val[f] = DefaultOf(f)

(* What is serialized is parsed back to the same fields, by the generated  *)
(* parser, which refuses it only if a required field is missing.           *)
RoundTrip ==
    \A o \in Objects :
        LET r == Parsed(New, Serialize(obj[o]))
        IN  r.o = obj[o] /\ (r.ok <=> IsInitialized(obj[o]))

(* ByteSize is the number of bytes that both serializers write: the        *)
(* library allots the buffer by it, and both write the same.               *)
SizeExact ==
    \A o \in Objects :
        /\ ByteSize(obj[o]) = WireSize(Serialize(obj[o]))
        /\ ToArray(obj[o]) = Serialize(obj[o])

(* Parsing two messages one after the other is merging them: the switch of *)
(* the generated parser and the groups of MergeFrom agree on every field.  *)
ConcatenationMerges ==
    \A o \in Objects : \A p \in Objects \ {o} :
        MergePartial(New, Serialize(obj[o]) \o Serialize(obj[p])).o
            = MergedFrom(MergedFrom(New, obj[o]), obj[p])

WholeObjectStep ==
    /\ call'.name = "clear" => obj'[call'.o] = New
    /\ call'.name = "copy" => \A p \in Objects : obj'[call'.o] = obj[p] \/ p = call'.o
    /\ call'.name = "swap" => \A o, p \in Objects : o # p => obj'[o] = obj[p]

(* Clear leaves nothing behind, a copy is equal to its source, and Swap    *)
(* exchanges the two objects, whatever they held before.                   *)
WholeObject == [][WholeObjectStep]_vars

(* A message packed by the C version of the class is read by the C++       *)
(* version as the same message, and the other way round.                   *)
CInterop ==
    \A o \in Objects : obj[o].unknown = <<>> =>
        /\ Parsed(New, CPack(obj[o])).o = obj[o]
        /\ CUnpacked(Serialize(obj[o])) = obj[o]
=============================================================================
