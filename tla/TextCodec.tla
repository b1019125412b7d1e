------------------------------ MODULE TextCodec ------------------------------
(* The text forms that MATRIX and ZHT use in place of the binary messages:  *)
(* taskmsg_to_str, value_to_str and mm_to_str of util.cpp, zpack_to_str of  *)
(* ZHTUtil.cpp, and their inverses.  They nest: the text of a task is a     *)
(* field of a MatrixMsg, which is a piece of a batch, and the text of a     *)
(* Value is a field of a ZPack.                                             *)
(*                                                                          *)
(* A text is a sequence of symbols.  A delimiter character is a symbol, a   *)
(* word without delimiters is one, a number is one.  A field is a text; a   *)
(* field that was never set is Unset, and a number is <<n>> or Unset0.  A   *)
(* decoder that throws or calls exit gives Abort.                           *)
EXTENDS Integers, Sequences, FiniteSets, SequencesExt, FiniteSetsExt

Unset == <<"unset">>
Unset0 == <<>>
Abort == [abort |-> TRUE]
Aborted(x) == "abort" \in DOMAIN x

(* Op(x), written so that TLC evaluates x once. *)
Strict(Op(_), x) == CHOOSE y \in {Op(z) : z \in {x}} : TRUE

(* tokenize, zht_tokenize: find_first_of splits at every character of the   *)
(* delimiter, and empty pieces are dropped.                                 *)
Pieces(s, d, starts) ==
    LET last(i) == Min({j \in i .. Len(s) : j = Len(s) \/ s[j + 1] = d})
        nth(k) == CHOOSE i \in starts : Cardinality({j \in starts : j <= i}) = k
    IN [k \in 1 .. Cardinality(starts) |-> SubSeq(s, nth(k), last(nth(k)))]

Starts(s, d) == {i \in DOMAIN s : s[i] # d /\ (i = 1 \/ s[i - 1] = d)}

Tokenize(text, d) ==
    Strict(LAMBDA s : Strict(LAMBDA starts : Pieces(s, d, starts), Starts(s, d)), text)

(* Numbers up to 4, and one that an int does not hold.  str_to_num reads 0  *)
(* from what is not a number of its type.                                   *)
Digits == <<"0", "1", "2", "3", "4">>
Wide == 9
NumToStr(n) == IF n = Wide THEN <<"wide">> ELSE <<Digits[n + 1]>>

StrToLong(s) ==
    IF s = <<"wide">> THEN Wide
    ELSE IF Len(s) = 1 /\ s[1] \in {Digits[i] : i \in 1 .. Len(Digits)}
      THEN (CHOOSE i \in 1 .. Len(Digits) : Digits[i] = s[1]) - 1
      ELSE 0
StrToInt(s) == IF StrToLong(s) = Wide THEN 0 ELSE StrToLong(s)

(* Fields, each followed by a delimiter that is written twice. *)
Fields(texts, d) ==
    Strict(FlattenSeq, Strict(LAMBDA ts : [i \in DOMAIN ts |-> ts[i] \o <<d, d>>], texts))

-----------------------------------------------------------------------------
(* TaskMsg.  A text with too few pieces gets defaults, an empty one exits.  *)
TaskmsgToStr(tm) ==
    Fields(<<tm.taskid, tm.user, tm.dir, tm.cmd, NumToStr(tm.datalength)>>, "@")

TaskmsgOf(v) ==
    LET piece(i, other) == IF Len(v) >= i THEN v[i] ELSE other
    IN IF v = <<>> THEN Abort
       ELSE [taskid |-> v[1], user |-> piece(2, <<"kwang">>),
             dir |-> piece(3, <<"Documents">>), cmd |-> piece(4, <<"hostname">>),
             datalength |-> StrToLong(piece(5, <<"0">>))]

StrToTaskmsg(s) == Strict(TaskmsgOf, Tokenize(s, "@"))

-----------------------------------------------------------------------------
(* MatrixMsg.  The count is written and read as an int. *)
MmToStr(mm) ==
    Fields(<<mm.msgtype,
             IF mm.extrainfo = Unset THEN <<"noextrainfo">> ELSE mm.extrainfo,
             IF mm.count = Unset0 THEN <<"nocount">> ELSE NumToStr(mm.count[1]),
             IF mm.tasks = <<>> THEN <<"notask">> ELSE Fields(mm.tasks, "!")>>, "&")

(* at() throws when a piece is missing. *)
MmOf(v) ==
    IF Len(v) < 4 THEN Abort
    ELSE [msgtype |-> v[1],
          extrainfo |-> IF v[2] = <<"noextrainfo">> THEN Unset ELSE v[2],
          count |-> IF v[3] = <<"nocount">> THEN Unset0 ELSE <<StrToInt(v[3])>>,
          tasks |-> IF v[4] = <<"notask">> THEN <<>> ELSE Tokenize(v[4], "!")]

StrToMm(s) == Strict(MmOf, Tokenize(s, "&"))

-----------------------------------------------------------------------------
(* Value: the fields in their order, what stands for one that is not set,   *)
(* and how the reader takes it.                                             *)
F(name, none, read) == [name |-> name, none |-> <<none>>, read |-> read]

ValueToStrFields ==
    <<F("id", "", "text"), F("indegree", "noindegree", "long"),
      F("parents", "noparents", "texts"), F("children", "nochildren", "texts"),
      F("datanamelist", "nodataname", "texts"), F("datasize", "nodatasize", "longs"),
      F("alldatasize", "noalldatasize", "long"), F("tasklength", "notasklength", "long"),
      F("numtaskfin", "nonumtaskfin", "long"), F("numworksteal", "nonumworksteal", "long"),
      F("numworkstealfail", "nonumworkstealfail", "long"),
      F("numtaskwait", "nonumtaskwait", "int"), F("numtaskready", "nonumtaskready", "int"),
      F("numcoreavilable", "nonumcoreavail", "int"), F("numallcore", "nonumallcore", "int"),
      F("outputsize", "nooutputsize", "long"), F("submittime", "nosubmittime", "long")>>

(* A plausible bug of the reader: two fields change places. *)
StrToValueFieldsCrossed ==
    [ValueToStrFields EXCEPT ![9] = ValueToStrFields[10], ![10] = ValueToStrFields[9]]

(* The reader takes outputsize as an int. *)
StrToValueFields == [ValueToStrFields EXCEPT ![16].read = "int"]

IsList(f) == f.read \in {"texts", "longs"}
ValueFieldNames == {ValueToStrFields[i].name : i \in DOMAIN ValueToStrFields}

(* A Value: a text for its id, sequences for the repeated fields, and <<n>> *)
(* or Unset0 for a number.                                                  *)
NewValue(id) ==
    [n \in ValueFieldNames |-> IF n = "id" THEN id ELSE <<>>]

ValueToStr(value) ==
    LET field(f) ==
          CASE f.name = "id"                     -> value.id
            [] IsList(f) /\ value[f.name] = <<>> -> f.none
            [] f.read = "texts"                  -> Fields(value[f.name], "?")
            [] f.read = "longs"                  ->
                 Fields([i \in DOMAIN value[f.name] |-> NumToStr(value[f.name][i])], "?")
            [] OTHER -> IF value[f.name] = Unset0 THEN f.none ELSE NumToStr(value[f.name][1])
    IN Fields([i \in DOMAIN ValueToStrFields |-> field(ValueToStrFields[i])], "~")

ValueOf(v) ==
    LET longs(t) == [i \in DOMAIN t |-> StrToLong(t[i])]
        field(f, t) ==
          CASE f.name = "id"     -> t
            [] f.read = "texts"  -> IF t = f.none THEN <<>> ELSE Tokenize(t, "?")
            [] f.read = "longs"  -> IF t = f.none THEN <<>> ELSE longs(Tokenize(t, "?"))
            [] f.read = "long"   -> IF t = f.none THEN Unset0 ELSE <<StrToLong(t)>>
            [] f.read = "int"    -> IF t = f.none THEN Unset0 ELSE <<StrToInt(t)>>
        index(n) == CHOOSE i \in DOMAIN StrToValueFields : StrToValueFields[i].name = n
    IN IF Len(v) < 17 THEN Abort
       ELSE [n \in ValueFieldNames |-> field(StrToValueFields[index(n)], v[index(n)])]

StrToValue(s) == Strict(ValueOf, Tokenize(s, "~"))

-----------------------------------------------------------------------------
(* ZPack.  A field is a text or Unset, and has a word that stands for it    *)
(* when it is not set.  Fewer than eight pieces read as an empty message.   *)
ZPackFields ==
    <<F("opcode", "noopcode", "text"), F("key", "nokey", "text"), F("val", "noval", "text"),
      F("newval", "nonewval", "text"), F("lease", "nolease", "text"),
      F("valnull", "novaln", "text"), F("newvalnull", "nonewvaln", "text"),
      F("replicanum", "noreplicanum", "text")>>
ZPackFieldNames == {ZPackFields[i].name : i \in DOMAIN ZPackFields}

EmptyZPack == [n \in ZPackFieldNames |-> Unset]

ZPackToStr(zpack) ==
    LET field(f) == IF zpack[f.name] = Unset THEN f.none ELSE zpack[f.name]
    IN Fields([i \in DOMAIN ZPackFields |-> field(ZPackFields[i])], "/")

ZPackOf(v) ==
    LET index(n) == CHOOSE i \in DOMAIN ZPackFields : ZPackFields[i].name = n
        field(i) == IF v[i] = ZPackFields[i].none THEN Unset ELSE v[i]
    IN IF Len(v) < 8 THEN EmptyZPack
       ELSE [n \in ZPackFieldNames |-> field(index(n))]

StrToZPack(s) == Strict(ZPackOf, Tokenize(s, "/"))
=============================================================================
