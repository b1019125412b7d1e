------------------------------- MODULE NoVoHT -------------------------------
(* The hash table of a ZHT server (novoht.cpp): buckets with chains, the    *)
(* file that the table is written to, and the thread that rewrites the      *)
(* file.  The server's loop calls put, append and remove one at a time; the *)
(* rewriting thread runs beside it, and the process may be killed and       *)
(* started again.                                                           *)
(*                                                                          *)
(* A value is the sequence of its pieces (append joins them with ":").  A   *)
(* record of the file is a key, a value and whether its first character is  *)
(* still the key's ("~" over it means deleted); a position in the file is a *)
(* record's number.  While the file is rewritten, requests write to         *)
(* .novoht.swp instead.  That file is opened for writing only, so that      *)
(* merge reads nothing from it: it is not kept here, and a position in it   *)
(* is Stray, as is one in the file as it was before the rewrite.  Steps     *)
(* that hold map_lock or write_lock from beginning to end are one action;   *)
(* put and append release map_lock before they take write_lock, so they are *)
(* two.  The locks themselves are in StoreLocks.                            *)
EXTENDS Lists

CONSTANTS
    Keys, Vals,
    Empty,          \* the empty text
    Setups          \* what the server may be started with

(* What a server is started with: the constructor's arguments, how the     *)
(* keys hash, and what a run lets happen.                                  *)
Setup == [keys : SUBSET Keys,           \* the keys of the requests
          hash : [Keys -> Nat],         \* fnv_hash
          initSize : Nat \ {0},         \* buckets of a new table
          magicNumber : Int,            \* removals between two rewrites
          resizePercent : 0 .. 100,     \* resizeNum in percent, 0: never grows
          persistent : BOOLEAN,         \* whether the server has a file (-f)
          concurrent : BOOLEAN,         \* requests come while the file is rewritten
          maxOps : Nat,                 \* bound: requests
          maxRestarts : Nat]            \* bound: restarts

ASSUME NoVoHTAssumption == Setups \subseteq Setup

VARIABLES
    size, kvpairs,  \* the table: bucket -> chain of keys
    pair,           \* stored key -> its kvpair [val, positions, diff]
    numEl, nRem,
    call,           \* the last request
    todo,           \* what it still has to write: "write", "append", "none"
    rewriting,
    cursor,         \* the rewriting thread's next step
    db,             \* the file as stdio sees it
    disk,           \* the file as a restart finds it
    torn,           \* has a "~" been written at a stray position of db?
    ops, restarts,
    conf            \* the setup

table == <<size, kvpairs, pair, numEl>>
file  == <<db, disk, torn>>
vars  == <<table, nRem, call, todo, rewriting, cursor, file, ops, restarts, conf>>

Stored        == DOMAIN pair
Record(k, v)  == [key |-> k, val |-> v, live |-> TRUE]
Stray         == 0      \* a position of another file: no record's number

Off   == -2
Start == -1

Call(op, k, v) == [op |-> op, key |-> k, val |-> v]

-----------------------------------------------------------------------------
(* The table. *)

Slot(k, n) == conf.hash[k] % n

(* Variant: a resize that moves only the first pair of every chain. *)
ResizedDroppingChains(n) ==
    LET Heads == [i \in 1 .. size |-> IF kvpairs[i - 1] = <<>> THEN <<>> ELSE <<Head(kvpairs[i - 1])>>]
    IN  [b \in 0 .. n - 1 |->
            SelectSeq(FlattenSeq(Heads), LAMBDA k : Slot(k, n) = b)]

(* The keys, bucket by bucket, as the loops of resize meet them. *)
InOrder == FlattenSeq([i \in 1 .. size |-> kvpairs[i - 1]])

(* Variant: the new chains are chosen with the old size. *)
ResizedBySize(n) ==
    FoldLeft(LAMBDA chains, k : [chains EXCEPT ![Slot(k, size)] = <<k>> \o @],
             [b \in 0 .. n - 1 |-> <<>>], InOrder)

(* resize: every pair goes to the head of its new chain, in the order of   *)
(* the old buckets.  numEl is reset and not counted again.                 *)
Resized(n) ==
    FoldLeft(LAMBDA chains, k : [chains EXCEPT ![Slot(k, n)] = <<k>> \o @],
             [b \in 0 .. n - 1 |-> <<>>], InOrder)

(* Variant: removals are not subtracted. *)
FullCountingRemovals == conf.resizePercent # 0 /\ (numEl + nRem) * 100 >= size * conf.resizePercent

Full == conf.resizePercent # 0 /\ numEl * 100 >= size * conf.resizePercent

-----------------------------------------------------------------------------
(* The file. *)

(* What a record may be read as once a "~" stands somewhere in the file:    *)
(* itself, deleted, or under another key.                                   *)
Misread(r) == {[key |-> k, val |-> r.val, live |-> l] : k \in Keys, l \in BOOLEAN}

(* write and writeAppend: a record at the end of the current file, flushed. *)
Written(k, v) ==
    IF rewriting
    THEN UNCHANGED file
    ELSE /\ \E r \in IF torn THEN Misread(Record(k, v)) ELSE {Record(k, v)} :
               db' = Append(db, r)
         /\ disk' = db'
         /\ UNCHANGED torn

EndPosition == IF rewriting THEN Stray ELSE Len(db) + 1

Marked(f, plist) ==
    [i \in DOMAIN f |-> IF i \in ToSet(plist) THEN [f[i] EXCEPT !.live = FALSE]
                                              ELSE f[i]]

(* Variant: only the last record of a value is marked. *)
MarkFirst(plist) ==
    IF rewriting \/ plist = <<>> \/ ~conf.persistent
    THEN UNCHANGED file
    ELSE db' = Marked(db, <<Head(plist)>>) /\ UNCHANGED <<disk, torn>>

(* mark: "~" over the first character of the records at plist.  At a stray *)
(* position it hits any record, or the separator of two, or leaves a hole  *)
(* behind the last one; then no position is reliable until the file is     *)
(* rewritten.                                                              *)
Mark(plist) ==
    IF rewriting \/ plist = <<>> \/ ~conf.persistent
    THEN UNCHANGED file
    ELSE IF torn \/ Stray \in ToSet(plist)
    THEN /\ db' \in {f \in [DOMAIN db -> UNION {Misread(r) : r \in ToSet(db)}] :
                        \A i \in DOMAIN f : f[i] \in Misread(db[i])}
         /\ torn' = TRUE
         /\ UNCHANGED disk
    ELSE db' = Marked(db, plist) /\ UNCHANGED <<disk, torn>>

(* writeFile: the old file is handed to a new thread. *)
WriteFile ==
    /\ nRem' = IF conf.persistent THEN 0 ELSE nRem + 1
    /\ IF rewriting \/ ~conf.persistent
       THEN UNCHANGED <<rewriting, cursor>>
       ELSE rewriting' = TRUE /\ cursor' = Start

-----------------------------------------------------------------------------
(* Requests. *)

Request(c) ==
    /\ todo = "none"
    /\ call' = c
    /\ ops < conf.maxOps
    /\ conf.concurrent \/ ~rewriting
    /\ ops' = ops + 1
    /\ UNCHANGED <<restarts, conf>>

NewVal(k, v) == pair' = [pair EXCEPT ![k].val = <<v>>]

NewPair(k, v, diff) ==
    pair' = [x \in Stored \cup {k} |->
               IF x = k THEN [val |-> <<v>>, positions |-> <<>>, diff |-> diff]
                        ELSE pair[x]]

Later(half) == todo' = IF conf.persistent THEN half ELSE "none"

(* put.  The new kvpair's diff is never initialised. *)
Put(k, v) ==
    LET n     == IF Full THEN size * 2 ELSE size
        chain == IF Full THEN Resized(n) ELSE kvpairs
        count == IF Full THEN 0 ELSE numEl
    IN  /\ Request(Call("put", k, v))
        /\ size' = n
        /\ Later("write")
        /\ IF k \in ToSet(chain[Slot(k, n)])
           THEN /\ kvpairs' = chain
                /\ numEl' = count
                /\ NewVal(k, v)
                /\ Mark(pair[k].positions)
           ELSE /\ kvpairs' = [chain EXCEPT ![Slot(k, n)] = Append(@, k)]
                /\ numEl' = count + 1
                /\ \E diff \in BOOLEAN : NewPair(k, v, diff)
                /\ UNCHANGED file
        /\ UNCHANGED <<nRem, rewriting, cursor>>

(* append: a new key goes to the head of its chain. *)
Extend(k, v) ==
    /\ Request(Call("append", k, v))
    /\ IF k \in ToSet(kvpairs[Slot(k, size)])
       THEN /\ pair' = [pair EXCEPT ![k].val = Append(@, v)]
            /\ Later("append")
            /\ UNCHANGED <<size, kvpairs, numEl>>
       ELSE /\ kvpairs' = [kvpairs EXCEPT ![Slot(k, size)] = <<k>> \o @]
            /\ \E diff \in BOOLEAN : NewPair(k, v, diff)
            /\ numEl' = numEl + 1
            /\ Later("write")
            /\ UNCHANGED size
    /\ UNCHANGED <<nRem, rewriting, cursor, file>>

(* remove.  Both branches take the positions of the chain's first pair; in *)
(* a rewrite they go to .novoht.swp (logrm).                               *)
ToRemove(k) == pair[Head(kvpairs[Slot(k, size)])].positions

Delete(k) ==
    /\ Request(Call("remove", k, k))
    /\ IF k \notin ToSet(kvpairs[Slot(k, size)])
       THEN UNCHANGED <<table, nRem, rewriting, cursor, file>>
       ELSE /\ kvpairs' = [kvpairs EXCEPT ![Slot(k, size)] =
                              RemoveFirst(@, k)]
            /\ pair' = [x \in Stored \ {k} |-> pair[x]]
            /\ numEl' = numEl - 1
            /\ UNCHANGED size
            /\ Mark(ToRemove(k))
            /\ IF nRem + 1 = conf.magicNumber
               THEN WriteFile
               ELSE nRem' = nRem + 1 /\ UNCHANGED <<rewriting, cursor>>
    /\ UNCHANGED todo

(* The second half of put and append, after map_lock is released. *)
WritePair ==
    /\ todo = "write"
    /\ Written(call.key, pair[call.key].val)
    /\ pair' = [pair EXCEPT ![call.key].positions = <<EndPosition>>]
    /\ todo' = "none"
    /\ UNCHANGED <<size, kvpairs, numEl, nRem, rewriting, cursor, call, ops, restarts, conf>>

WriteAppend ==
    /\ todo = "append"
    /\ Written(call.key, <<call.val>>)
    /\ pair' = [pair EXCEPT ![call.key].positions = <<EndPosition>> \o @]
    /\ todo' = "none"
    /\ UNCHANGED <<size, kvpairs, numEl, nRem, rewriting, cursor, call, ops, restarts, conf>>

-----------------------------------------------------------------------------
(* The rewriting thread.  cursor is the bucket it dumps next, once it has *)
(* started.                                                               *)

(* The old file is emptied first, so that no position is of it any more ... *)
Strayed(plist) == [i \in DOMAIN plist |-> Stray]

Truncate ==
    /\ cursor = Start
    /\ db' = <<>>
    /\ disk' = <<>>
    /\ torn' = FALSE
    /\ pair' = [k \in Stored |-> [pair[k] EXCEPT !.positions = Strayed(@)]]
    /\ cursor' = 0
    /\ UNCHANGED <<size, kvpairs, numEl, nRem, todo, rewriting, call, ops, restarts, conf>>

(* ... then every pair is written, bucket by bucket and without map_lock,  *)
(* unless its value is empty or its diff is set.                           *)
Dumped(state, k) ==
    IF pair[k].val = <<Empty>> \/ pair[k].diff THEN state
    ELSE [db   |-> Append(state.db, Record(k, pair[k].val)),
          pair |-> [state.pair EXCEPT ![k].positions = <<Len(state.db) + 1>>]]

Dump ==
    LET dumped == FoldLeft(Dumped, [db |-> db, pair |-> pair], kvpairs[cursor])
    IN  /\ cursor \in 0 .. size - 1
        /\ db' = dumped.db
        /\ pair' = dumped.pair
        /\ cursor' = cursor + 1
        /\ UNCHANGED <<size, kvpairs, numEl, nRem, todo, rewriting, disk, torn, call, ops,
                       restarts, conf>>

(* Variant: the thread leaves its cursor. *)
MergeStandingStill ==
    /\ cursor >= size
    /\ rewriting' = FALSE
    /\ UNCHANGED <<table, nRem, todo, cursor, file, call, ops, restarts, conf>>

(* merge.  Its loop ends at once, since .novoht.swp cannot be read: what   *)
(* was written there is lost, and the file is the current one again.       *)
Merge ==
    /\ cursor >= size
    /\ rewriting' = FALSE
    /\ cursor' = Off
    /\ UNCHANGED <<table, nRem, todo, file, call, ops, restarts, conf>>

(* stdio may write its buffer out at any time. *)
Flush ==
    /\ disk # db
    /\ disk' = db
    /\ UNCHANGED <<table, nRem, todo, rewriting, cursor, db, torn, call, ops, restarts, conf>>

-----------------------------------------------------------------------------
(* Start and restart.  readFile puts the first record that is not deleted; *)
(* put moves the file to its end, where the reading stops.  Then the file  *)
(* is rewritten.                                                           *)

Recovered(f) ==
    LET i == SelectInSeq(f, LAMBDA r : r.live)
    IN  IF i = 0 THEN <<>> ELSE <<f[i]>>

Initialize(f) ==
    LET keys == [i \in DOMAIN Recovered(f) |-> Recovered(f)[i].key]
    IN  /\ size' = conf.initSize
        /\ numEl' = Len(keys)
        /\ kvpairs' = [b \in 0 .. conf.initSize - 1 |->
               IF keys # <<>> /\ Slot(keys[1], conf.initSize) = b THEN keys ELSE <<>>]
        /\ \E diff \in BOOLEAN :
             pair' = [k \in ToSet(keys) |-> [val |-> Recovered(f)[1].val,
                                            positions |-> <<Len(f) + 1>>, diff |-> diff]]
        /\ \E r \in IF torn /\ keys # <<>> THEN {<<m>> : m \in Misread(Recovered(f)[1])}
                                       ELSE {Recovered(f)} :
             db' = f \o r
        /\ disk' = db'
        /\ UNCHANGED torn
        /\ nRem' = 0 /\ todo' = "none"
        /\ rewriting' = TRUE /\ cursor' = Start

Restart ==
    /\ conf.persistent
    /\ restarts < conf.maxRestarts
    /\ restarts' = restarts + 1
    /\ Initialize(disk)
    /\ UNCHANGED <<call, ops, conf>>

Init ==
    /\ conf \in Setups
    /\ size = conf.initSize
    /\ kvpairs = [b \in 0 .. conf.initSize - 1 |-> <<>>]
    /\ pair = <<>>
    /\ numEl = 0 /\ nRem = 0
    /\ call = [op |-> "none"]
    /\ todo = "none"
    /\ rewriting = conf.persistent
    /\ cursor = IF conf.persistent THEN Start ELSE Off
    /\ db = <<>> /\ disk = <<>> /\ torn = FALSE
    /\ ops = 0 /\ restarts = 0

Rewriter == Truncate \/ Dump \/ Merge

Next ==
    \/ \E k \in conf.keys, v \in Vals : Put(k, v) \/ Extend(k, v)
    \/ \E k \in conf.keys : Delete(k)
    \/ WritePair \/ WriteAppend
    \/ Rewriter
    \/ Flush
    \/ Restart

Spec == Init /\ [][Next]_vars

-----------------------------------------------------------------------------
(* Properties. *)

(* get: the chain of the key's bucket is searched. *)
Get(k) == IF k \in ToSet(kvpairs[Slot(k, size)]) THEN pair[k].val ELSE <<>>

(* Type invariant of the table, the file and the two threads. *)
TypeOK ==
    /\ size \in Nat \ {0}
    /\ kvpairs \in [0 .. size - 1 -> Seq(Keys)]
    /\ Stored \subseteq Keys
    /\ \A k \in Stored : pair[k].val \in Seq(Vals) /\ pair[k].positions \in Seq(Nat)
    /\ numEl \in Int /\ nRem \in Nat
    /\ cursor \in Nat \cup {Off, Start}
    /\ rewriting <=> cursor # Off
    /\ \A r \in ToSet(db) : r.key \in Keys /\ r.val \in Seq(Vals)

(* Every stored key is in the chain of its own bucket, once, and in no     *)
(* other chain, across put, append at the chain's head, remove, resize and *)
(* restart: otherwise get, which searches one chain, misses it, and remove *)
(* leaves a second copy behind.                                            *)
KeysOnce ==
    \A b \in 0 .. size - 1 :
        /\ ToSet(kvpairs[b]) = {k \in Stored : Slot(k, size) = b}
        /\ Len(kvpairs[b]) = Cardinality(ToSet(kvpairs[b]))

(* The table is well-formed: its variables have their types, and every     *)
(* stored key is once in the chain that get searches.                      *)
TableOK == TypeOK /\ KeysOnce

(* put doubles the table only if it is as full as resizeNum says, although *)
(* resize resets numEl and remove goes on to decrement it.                 *)
GrowsWhenFull ==
    [][size' > size => Cardinality(Stored) * 100 >= size * conf.resizePercent]_vars

(* Through get, every request acts on the table as on a map, whatever the  *)
(* chains, a resize or the rewriting thread do; only a restart does not.   *)
Promise == INSTANCE KVMap WITH map <- [k \in Keys |-> Get(k)]
ActsAsMap ==
    /\ Promise!Init
    /\ [][restarts' = restarts => [Promise!Next]_<<[k \in Keys |-> Get(k)], call>>]_vars

(* What the live records of a key hold, read in the order of the file. *)
Replayed(f, k) ==
    FoldLeft(LAMBDA val, r : IF r.live /\ r.key = k THEN val \o r.val ELSE val, <<>>, f)

(* Nothing disturbs the file: no chain has two pairs, and it is neither    *)
(* rewritten after the start nor read again.                               *)
Undisturbed ==
    /\ conf.persistent /\ ~conf.concurrent /\ restarts = 0
    /\ conf.maxOps < conf.magicNumber
    /\ \A j, k \in Keys : Slot(j, conf.initSize) = Slot(k, conf.initSize) => j = k

(* Between requests, the live records of a key, read in the order of the   *)
(* file, hold exactly the key's value: put marks the records it replaces,  *)
(* append leaves them, remove marks all of them.  It is so while nothing   *)
(* disturbs the file.                                                      *)
FileExact ==
    Undisturbed /\ todo = "none" /\ ~rewriting =>
      \A k \in Keys : Replayed(db, k) = Get(k)

LiveRecords(f) == SelectSeq(f, LAMBDA r : r.live)

(* novoht.cpp:436 says of mark "mark line in file for deletion": once a    *)
(* request has removed a key, no live record of it is left in the file.    *)
RemovedIsMarked ==
    todo = "none" /\ ~rewriting =>
        \A r \in ToSet(LiveRecords(db)) : r.key \in Stored

(* README: the disk file is where "the data are persisted": a server that  *)
(* is started again between two requests, with nothing left in a buffer    *)
(* and no rewrite under way, finds every key and value.                    *)
RestartKeepsTable ==
    [][todo = "none" /\ ~rewriting /\ disk = db /\ restarts' # restarts
          => \A k \in Keys : Get(k)' = Get(k)]_vars

(* novoht.cpp:240 says of writeFile "write hashmap to file": when neither  *)
(* a rewrite nor a request is under way, every stored key is in the file.  *)
WriteFileComplete ==
    todo = "none" /\ ~rewriting =>
        \A k \in Stored : \E r \in ToSet(LiveRecords(db)) : r.key = k
=============================================================================
