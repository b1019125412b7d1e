---------------------------- MODULE MessageTables ----------------------------
(* What each generated protobuf class of MATRIX and ZHT does with its       *)
(* fields, one table per generated function:                                *)
(*   ...Access    the accessors: label and kind of each field               *)
(*   ...Parse     MergePartialFromCodedStream: the field that a tag fills    *)
(*   ...Write     SerializeWithCachedSizes: the fields in writing order      *)
(*   ...ToArray   SerializeWithCachedSizesToArray                           *)
(*   ...Size      ByteSize: tag sizes, by group of has bits                 *)
(*   ...Clear     Clear: by group, what is zeroed and what is emptied       *)
(*   ...Merge     MergeFrom: by group, what is assigned                     *)
(*   ...Swap      InternalSwap                                              *)
(*   ...Required  the mask of IsInitialized                                 *)
(*   ...C         the field descriptors of the C version                    *)
(* A field is known by its number, and its has bit is the one of that       *)
(* number.  A group with an empty mask is not guarded by has bits.          *)
EXTENDS Integers, Sequences, FiniteSets, TLC

Field(label, kind)     == [label |-> label, kind |-> kind]
Fields(ns, label, kind) == [n \in ns |-> Field(label, kind)]

All == {}     \* the mask of a group without a guard

(* The tag of a field on the wire: its number and its wire type. *)
IsString(kind) == kind \in {"string", "bytes"}
Tag(n, kind)   == n * 8 + (IF IsString(kind) THEN 2 ELSE 0)

-----------------------------------------------------------------------------
(* TaskMsg: 1 taskId, 2 user, 3 dir, 4 cmd, 5 dataLength *)

TaskMsgNames  == Fields(1 .. 2, "required", "string")
TaskMsgRest   == Fields(3 .. 4, "required", "string") @@ Fields({5}, "required", "int64")
TaskMsgAccess == TaskMsgNames @@ TaskMsgRest

(* Variant: the case of dir fills user. *)
TaskMsgParseDirAsUser == 10 :> 1 @@ 18 :> 2 @@ 26 :> 2 @@ 34 :> 4 @@ 40 :> 5

TaskMsgParse == 10 :> 1 @@ 18 :> 2 @@ 26 :> 3 @@ 34 :> 4 @@ 40 :> 5

TaskMsgWrite   == <<<<1, "string">>, <<2, "string">>, <<3, "string">>, <<4, "string">>, <<5, "int64">>>>
TaskMsgToArray == <<<<1, "string">>, <<2, "string">>, <<3, "string">>, <<4, "string">>, <<5, "int64">>>>

(* All required fields are present, or the fallback counts one by one. *)
TaskMsgFallback == <<[mask |-> All, tags |-> [n \in 1 .. 5 |-> 1]]>>
TaskMsgSize     == [required |-> 1 .. 5, all |-> [n \in 1 .. 5 |-> 1], groups |-> TaskMsgFallback]

TaskMsgClear    == <<[mask |-> 1 .. 5, zero |-> {5}, empty |-> 1 .. 4]>>
TaskMsgMerge    == [lists |-> {}, groups |-> <<[mask |-> 1 .. 8, fields |-> 1 .. 5]>>]
TaskMsgSwap     == 1 .. 5
TaskMsgRequired == 1 .. 5
TaskMsgC == Fields(1 .. 4, "required", "string") @@ Fields({5}, "required", "int64")

-----------------------------------------------------------------------------
(* MatrixMsg: 1 msgType, 2 extraInfo, 3 count, 4 tasks *)

MatrixMsgHead   == Fields({1}, "required", "string") @@ Fields({2}, "optional", "string")
                   @@ Fields({3}, "optional", "int64")
MatrixMsgTasks  == Fields({4}, "repeated", "string")
MatrixMsgAccess == MatrixMsgHead @@ MatrixMsgTasks

MatrixMsgParse   == 10 :> 1 @@ 18 :> 2 @@ 24 :> 3 @@ 34 :> 4
MatrixMsgWrite   == <<<<1, "string">>, <<2, "string">>, <<3, "int64">>, <<4, "string">>>>
MatrixMsgToArray == <<<<1, "string">>, <<2, "string">>, <<3, "int64">>, <<4, "string">>>>

MatrixMsgSize ==
    [required |-> {}, all |-> <<>>,
     groups |-> <<[mask |-> All,    tags |-> 1 :> 1],
                  [mask |-> 2 .. 3, tags |-> 2 :> 1 @@ 3 :> 1],
                  [mask |-> All,    tags |-> 4 :> 1]>>]

MatrixMsgClear == <<[mask |-> 1 .. 3, zero |-> {3}, empty |-> 1 .. 2],
                    [mask |-> All, zero |-> {4}, empty |-> {}]>>
(* Variant: the tasks are not merged. *)
MatrixMsgMergeNoTasks == [lists |-> {}, groups |-> <<[mask |-> 1 .. 8, fields |-> 1 .. 3]>>]

MatrixMsgMerge == [lists |-> {4}, groups |-> <<[mask |-> 1 .. 8, fields |-> 1 .. 3]>>]
MatrixMsgSwap     == 1 .. 4
MatrixMsgRequired == {1}
MatrixMsgC == Fields({1}, "required", "string") @@ Fields({2}, "optional", "string")
              @@ Fields({3}, "optional", "int64") @@ Fields({4}, "repeated", "string")

-----------------------------------------------------------------------------
(* Value: 1 id, 2 indegree, 3 parents, 4 children, 5 dataNameList,         *)
(* 6 dataSize, 7 allDataSize, 8 tasklength, 9 numTaskFin, 10 numWorkSteal, *)
(* 11 numWorkStealFail, 12 numTaskWait, 13 numTaskReady,                   *)
(* 14 numCoreAvilable, 15 numAllCore, 16 outputsize, 17 submitTime         *)

ValueIdentity == Fields({1}, "required", "string") @@ Fields({2}, "optional", "int64")
ValueEdges    == Fields(3 .. 4, "repeated", "string")
ValueData     == Fields({5}, "repeated", "string") @@ Fields({6}, "repeated", "int64")
                 @@ Fields({7}, "optional", "int64")
ValueCounts   == Fields(8 .. 11, "optional", "int64")
ValueStatus   == Fields(12 .. 15, "optional", "int32") @@ Fields(16 .. 17, "optional", "int64")
ValueAccess   == ValueIdentity @@ ValueEdges @@ ValueData @@ ValueCounts @@ ValueStatus

(* dataSize may come one by one or packed. *)
ValueParseTask   == 10 :> 1 @@ 16 :> 2 @@ 26 :> 3 @@ 34 :> 4 @@ 42 :> 5 @@ 48 :> 6 @@ 50 :> 6
                    @@ 56 :> 7 @@ 64 :> 8
ValueParseStatus == 72 :> 9 @@ 80 :> 10 @@ 88 :> 11 @@ 96 :> 12 @@ 104 :> 13 @@ 112 :> 14
                    @@ 120 :> 15 @@ 128 :> 16 @@ 136 :> 17
ValueParse       == ValueParseTask @@ ValueParseStatus

ValueWrite ==
    <<<<1, "string">>, <<2, "int64">>, <<3, "string">>, <<4, "string">>, <<5, "string">>,
      <<6, "int64">>, <<7, "int64">>, <<8, "int64">>, <<9, "int64">>, <<10, "int64">>,
      <<11, "int64">>, <<12, "int32">>, <<13, "int32">>, <<14, "int32">>, <<15, "int32">>,
      <<16, "int64">>, <<17, "int64">>>>
ValueToArray ==
    <<<<1, "string">>, <<2, "int64">>, <<3, "string">>, <<4, "string">>, <<5, "string">>,
      <<6, "int64">>, <<7, "int64">>, <<8, "int64">>, <<9, "int64">>, <<10, "int64">>,
      <<11, "int64">>, <<12, "int32">>, <<13, "int32">>, <<14, "int32">>, <<15, "int32">>,
      <<16, "int64">>, <<17, "int64">>>>

(* Variant: the tag of outputsize is counted as one byte. *)
ValueSizeShortTag ==
    [required |-> {}, all |-> <<>>,
     groups |-> <<[mask |-> All,       tags |-> 1 :> 1],
                  [mask |-> {2, 7, 8}, tags |-> [n \in {2, 7, 8} |-> 1]],
                  [mask |-> 9 .. 16,   tags |-> [n \in 9 .. 16 |-> 1]],
                  [mask |-> All,       tags |-> 17 :> 2 @@ [n \in 3 .. 6 |-> 1]]>>]

ValueSize ==
    [required |-> {}, all |-> <<>>,
     groups |-> <<[mask |-> All,       tags |-> 1 :> 1],
                  [mask |-> {2, 7, 8}, tags |-> [n \in {2, 7, 8} |-> 1]],
                  [mask |-> 9 .. 16,   tags |-> [n \in 9 .. 15 |-> 1] @@ 16 :> 2],
                  [mask |-> All,       tags |-> 17 :> 2 @@ [n \in 3 .. 6 |-> 1]]>>]

(* Variant: the zeroed range of the status fields begins one field late. *)
ValueClearShort ==
    <<[mask |-> {1, 2, 7, 8}, zero |-> {2, 7, 8}, empty |-> {1}],
      [mask |-> 9 .. 16, zero |-> 10 .. 16, empty |-> {}],
      [mask |-> All, zero |-> 3 .. 6 \cup {17}, empty |-> {}]>>

ValueClear ==
    <<[mask |-> {1, 2, 7, 8}, zero |-> {2, 7, 8}, empty |-> {1}],
      [mask |-> 9 .. 16, zero |-> 9 .. 16, empty |-> {}],
      [mask |-> All, zero |-> 3 .. 6 \cup {17}, empty |-> {}]>>

ValueMerge ==
    [lists |-> 3 .. 6,
     groups |-> <<[mask |-> 1 .. 8, fields |-> {1, 2, 7, 8}],
                  [mask |-> 9 .. 16, fields |-> 9 .. 16],
                  [mask |-> 17 .. 24, fields |-> {17}]>>]
ValueSwap     == 1 .. 17
ValueRequired == {1}

ValueCTask   == Fields({1}, "required", "string") @@ Fields({2, 7, 8}, "optional", "int64")
                @@ Fields(3 .. 5, "repeated", "string") @@ Fields({6}, "repeated", "int64")
ValueCStatus == Fields(9 .. 11, "optional", "int64") @@ Fields(12 .. 15, "optional", "int32")
                @@ Fields(16 .. 17, "optional", "int64")
ValueC       == ValueCTask @@ ValueCStatus

-----------------------------------------------------------------------------
(* ZPack: 1 opcode, 2 key, 3 val, 4 newval, 5 lease, 6 valnull,            *)
(* 7 newvalnull, 8 replicanum                                              *)

ZPackRequest == Fields(1 .. 2, "optional", "bytes")
ZPackValues  == Fields(3 .. 4, "optional", "bytes")
ZPackRest    == Fields({5}, "optional", "bytes") @@ Fields(6 .. 7, "optional", "bool")
                @@ Fields({8}, "optional", "int32")
ZPackAccess  == ZPackRequest @@ ZPackValues @@ ZPackRest

ZPackParse   == 10 :> 1 @@ 18 :> 2 @@ 26 :> 3 @@ 34 :> 4 @@ 42 :> 5 @@ 48 :> 6 @@ 56 :> 7 @@ 64 :> 8
ZPackWrite   == <<<<1, "bytes">>, <<2, "bytes">>, <<3, "bytes">>, <<4, "bytes">>, <<5, "bytes">>,
                  <<6, "bool">>, <<7, "bool">>, <<8, "int32">>>>
ZPackToArray == <<<<1, "bytes">>, <<2, "bytes">>, <<3, "bytes">>, <<4, "bytes">>, <<5, "bytes">>,
                  <<6, "bool">>, <<7, "bool">>, <<8, "int32">>>>
ZPackSize    == [required |-> {}, all |-> <<>>,
                 groups |-> <<[mask |-> 1 .. 8, tags |-> [n \in 1 .. 8 |-> 1]]>>]
ZPackClear   == <<[mask |-> 1 .. 8, zero |-> 6 .. 8, empty |-> 1 .. 5]>>
ZPackMerge   == [lists |-> {}, groups |-> <<[mask |-> 1 .. 8, fields |-> 1 .. 8]>>]
ZPackSwap    == 1 .. 8
ZPackRequired == {}

(* Variant: replicanum has another number than in the C++ class. *)
ZPackCRenumbered == Fields(1 .. 5, "optional", "bytes") @@ Fields(6 .. 7, "optional", "bool")
                    @@ Fields({9}, "optional", "int32")

ZPackC == Fields(1 .. 5, "optional", "bytes") @@ Fields(6 .. 7, "optional", "bool")
          @@ Fields({8}, "optional", "int32")

-----------------------------------------------------------------------------
(* Package: 1 virtualPath, 2 realFullPath, 3 isDir, 4 replicanum,          *)
(* 5 listItem                                                              *)

PackagePaths  == Fields(1 .. 2, "optional", "string")
PackageRest   == Fields({3}, "optional", "bool") @@ Fields({4}, "optional", "int32")
                 @@ Fields({5}, "repeated", "string")
PackageAccess == PackagePaths @@ PackageRest

PackageParse   == 10 :> 1 @@ 18 :> 2 @@ 24 :> 3 @@ 32 :> 4 @@ 42 :> 5
PackageWrite   == <<<<1, "string">>, <<2, "string">>, <<3, "bool">>, <<4, "int32">>, <<5, "string">>>>
PackageToArray == <<<<1, "string">>, <<2, "string">>, <<3, "bool">>, <<4, "int32">>, <<5, "string">>>>
PackageSize    == [required |-> {}, all |-> <<>>,
                   groups |-> <<[mask |-> 1 .. 4, tags |-> [n \in 1 .. 4 |-> 1]],
                                [mask |-> All, tags |-> 5 :> 1]>>]
PackageClear   == <<[mask |-> 1 .. 4, zero |-> 3 .. 4, empty |-> 1 .. 2],
                    [mask |-> All, zero |-> {5}, empty |-> {}]>>
PackageMerge   == [lists |-> {5}, groups |-> <<[mask |-> 1 .. 8, fields |-> 1 .. 4]>>]

PackageSwap     == 1 .. 5
PackageRequired == {}
PackageC == Fields(1 .. 2, "optional", "string") @@ Fields({3}, "optional", "bool")
            @@ Fields({4}, "optional", "int32") @@ Fields({5}, "repeated", "string")

-----------------------------------------------------------------------------
Table(access, parse, write, toArray, size, clear, merge, swap, required, c) ==
    [access |-> access, parse |-> parse, write |-> write, toArray |-> toArray, size |-> size,
     clear |-> clear, merge |-> merge, swap |-> swap, required |-> required,
     repeated |-> {f \in DOMAIN access : access[f].label = "repeated"},
     cOrder |-> [i \in 1 .. Cardinality(DOMAIN c) |->
                     LET f == CHOOSE f \in DOMAIN c : Cardinality({g \in DOMAIN c : g < f}) = i - 1
                     IN  <<f, c[f].kind>>],
     cTags |-> [tag \in {Tag(f, c[f].kind) : f \in DOMAIN c} |->
                    CHOOSE f \in DOMAIN c : Tag(f, c[f].kind) = tag]]

Tables ==
    [TaskMsg   |-> Table(TaskMsgAccess, TaskMsgParse, TaskMsgWrite, TaskMsgToArray, TaskMsgSize,
                         TaskMsgClear, TaskMsgMerge, TaskMsgSwap, TaskMsgRequired, TaskMsgC),
     MatrixMsg |-> Table(MatrixMsgAccess, MatrixMsgParse, MatrixMsgWrite, MatrixMsgToArray,
                         MatrixMsgSize, MatrixMsgClear, MatrixMsgMerge, MatrixMsgSwap,
                         MatrixMsgRequired, MatrixMsgC),
     Value     |-> Table(ValueAccess, ValueParse, ValueWrite, ValueToArray, ValueSize,
                         ValueClear, ValueMerge, ValueSwap, ValueRequired, ValueC),
     ZPack     |-> Table(ZPackAccess, ZPackParse, ZPackWrite, ZPackToArray, ZPackSize,
                         ZPackClear, ZPackMerge, ZPackSwap, ZPackRequired, ZPackC),
     Package   |-> Table(PackageAccess, PackageParse, PackageWrite, PackageToArray, PackageSize,
                         PackageClear, PackageMerge, PackageSwap, PackageRequired, PackageC)]
=============================================================================
