------------------------------ MODULE MCValues ------------------------------
(* The data of the system, for TLC: the workload that the clients generate  *)
(* (Workload), the generated classes of protocol buffers that carry it      *)
(* (Message), and the texts in which the metadata is kept in ZHT            *)
(* (StoredValue).  A behaviour is one of one part, which its first state    *)
(* chooses; meanwhile a workload of one task stands done, and the variables *)
(* of the other parts are "off".                                            *)
EXTENDS Workload, TLC

CONSTANTS a, b

VARIABLES part, class, obj, call, ops, value, wire, stored, pc, sets

classVars == <<class, obj, call, ops>>
valueVars == <<value, wire, stored, pc, sets>>
allVars   == <<part, vars, classVars, valueVars>>

(* All generated classes.  A string is empty or not; -1 takes the longest   *)
(* varint.                                                                  *)
Classes == INSTANCE Message WITH
    Classes <- {"TaskMsg", "MatrixMsg", "Value", "ZPack", "Package"},
    Objects <- {a, b}, Strings <- {<<>>, <<7>>}, Ints <- {0, -1}, MaxOps <- 3

Metadata == INSTANCE StoredValue WITH
    Id <- <<"t1">>, Texts <- {<<"t1">>, <<"t2">>}, MaxSets <- 2

(* The two objects are interchangeable.  A workload has none, so that this  *)
(* reduces no behaviour that EveryTaskRuns is about.                        *)
Symmetry == Permutations({a, b})

ASSUME Classes!MessageAssumption /\ Metadata!StoredValueAssumption

Done ==
    /\ dagType = "BOT" /\ dagArg = 1 /\ numTask = 1
    /\ dagAdjList = GenDagAdjlist("BOT", 1, 1) /\ dagInDegree = GenDagIndegree(dagAdjList)
    /\ next = [c \in Clients |-> 1]
    /\ ran = {TaskId(c, 0) : c \in Clients}
    /\ zht = [id \in ran |-> [indegree |-> 0, children |-> {}]]
NoClass == class = "off" /\ obj = "off" /\ call = "off" /\ ops = "off"
NoValue == value = "off" /\ wire = "off" /\ stored = "off" /\ pc = "off" /\ sets = "off"

MCInit ==
    \/ part = "workload" /\ Init /\ NoClass /\ NoValue
    \/ part = "classes" /\ Classes!Init /\ Done /\ NoValue
    \/ part = "metadata" /\ Metadata!Init /\ Done /\ NoClass

MCNext ==
    \/ part = "workload" /\ Next /\ UNCHANGED <<part, classVars, valueVars>>
    \/ part = "classes" /\ Classes!Next /\ UNCHANGED <<part, vars, valueVars>>
    \/ part = "metadata" /\ Metadata!Next /\ UNCHANGED <<part, vars, classVars>>

MCSpec == MCInit /\ [][MCNext]_allVars /\ WF_vars(Next)

-----------------------------------------------------------------------------
(* The generated classes keep to one wire format: a field that has_x says   *)
(* is not set has its default value, ParseFromString of what                *)
(* SerializeToString wrote gives the same object, ByteSize is its length,   *)
(* two objects written one behind the other are read as their merge, and    *)
(* the C and the C++ version of a class read each other's messages.         *)
WireFormat ==
    part = "classes" =>
        /\ Classes!UnsetIsDefault /\ Classes!RoundTrip /\ Classes!SizeExact
        /\ Classes!ConcatenationMerges /\ Classes!CInterop

(* Clear leaves nothing behind, a copy is equal to its source, and Swap     *)
(* exchanges the two objects.                                               *)
WholeObject == [][part = "classes" => Classes!WholeObjectStep]_allVars

(* str_to_value reads from a lookup the Value that value_to_str had written *)
(* into the insert: no field of it is lost, exchanged or cut.               *)
ReadsWhatItStored == [][part = "metadata" => Metadata!ReadSame]_allVars
=============================================================================
