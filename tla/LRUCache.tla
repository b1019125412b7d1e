------------------------------ MODULE LRUCache ------------------------------
(* The LRU cache template (lru_cache.h): a list with the most recently used *)
(* entry in front, an index over it, and a size counter.  Every method runs *)
(* under the cache's mutex, so one action is one method.                    *)
EXTENDS Lists

CONSTANTS
    Keys, Datas,
    Sizefn,     \* size of a Data, a function on Datas
    MaxSize,    \* _max_size
    PtrTouch    \* values that callers give fetch_ptr's parameter touch

(* What the constants have to be. *)
LRUAssumption ==
    /\ Sizefn \in [Datas -> Nat \ {0}]
    /\ MaxSize \in Nat
    /\ PtrTouch \subseteq BOOLEAN

(* No caller asks fetch_ptr not to touch. *)
FetchIsUse == FALSE \notin PtrTouch

VARIABLES
    list,       \* _list: sequence of entries [key, data]
    index,      \* _index: the keys it finds
    curr_size,  \* _curr_size
    recent      \* history: the pairs of keys of which the first was used last

vars == <<list, index, curr_size, recent>>

Entries == [key : Keys, data : Datas]

KeysOf(l) == [i \in DOMAIN l |-> l[i].key]

(* What the first entries take, and all of them. *)
Sizes(l) ==
    LET upTo[n \in 0 .. Len(l)] == IF n = 0 THEN 0 ELSE upTo[n - 1] + Sizefn[l[n].data]
    IN  upTo
SizeOf(l) == Sizes(l)[Len(l)]

(* The history after a use of k; a key that was never used is older. *)
UsedLast(pairs, k) == {p \in pairs : k \notin {p[1], p[2]}} \cup ({k} \X (Keys \ {k}))
Used(k) == recent' = UsedLast(recent, k)

-----------------------------------------------------------------------------
(* The iterator that _index holds for k. *)
Place(l, k) == CHOOSE i \in DOMAIN l : l[i].key = k

(* _touch: the entry moves to the front of the list. *)
Touched(l, k) == <<l[Place(l, k)]>> \o RemoveAt(l, Place(l, k))

(* Variant: the index keeps the key. *)
RemovedKeepingIndex(state, k) ==
    LET i == Place(state.list, k)
    IN  [list  |-> RemoveAt(state.list, i),
         index |-> state.index,
         size  |-> state.size - Sizefn[state.list[i].data]]

(* _remove: list, index and counter together. *)
Removed(state, k) ==
    LET i == Place(state.list, k)
    IN  [list  |-> RemoveAt(state.list, i),
         index |-> state.index \ {k},
         size  |-> state.size - Sizefn[state.list[i].data]]

(* Variant: one entry leaves, however large the new one is. *)
EvictedOnce(state) ==
    IF state.size <= MaxSize THEN state
    ELSE Removed(state, state.list[Len(state.list)].key)

(* The loop of insert: entries leave from the end until the rest fits, so  *)
(* that the longest front part stays with which _curr_size is in bounds.   *)
Evicted(state) ==
    LET Counted(n) == state.size - (SizeOf(state.list) - Sizes(state.list)[n])
        kept == Max({n \in 0 .. Len(state.list) : Counted(n) <= MaxSize})
    IN  [list  |-> SubSeq(state.list, 1, kept),
         index |-> state.index \ {state.list[i].key : i \in (kept + 1) .. Len(state.list)},
         size  |-> Counted(kept)]

Become(state) ==
    /\ list' = state.list
    /\ index' = state.index
    /\ curr_size' = state.size

State == [list |-> list, index |-> index, size |-> curr_size]

-----------------------------------------------------------------------------
(* Variant: a key that exists keeps its place. *)
InsertInPlace(k, d) ==
    LET new == [key |-> k, data |-> d]
        l   == IF k \in index
               THEN [i \in DOMAIN list |-> IF list[i].key = k THEN new ELSE list[i]]
               ELSE <<new>> \o list
    IN  /\ Become(Evicted([list |-> l, index |-> index \cup {k},
                           size |-> curr_size + SizeOf(l) - SizeOf(list)]))
        /\ Used(k)

Insert(k, d) ==
    LET without == IF k \in index
                   THEN Removed([State EXCEPT !.list = Touched(list, k)], k)
                   ELSE State
        with    == [list  |-> <<[key |-> k, data |-> d]>> \o without.list,
                    index |-> without.index \cup {k},
                    size  |-> without.size + Sizefn[d]]
    IN  Become(Evicted(with)) /\ Used(k)

Delete(k) ==
    /\ k \in index
    /\ Become(Removed(State, k))
    /\ UNCHANGED recent

Touch(k) ==
    /\ k \in index
    /\ list' = Touched(list, k)
    /\ Used(k)
    /\ UNCHANGED <<index, curr_size>>

(* fetch: with touch_data it is touch, without it changes nothing. *)
Fetch(k, touch_data) ==
    /\ k \in index
    /\ IF touch_data THEN Touch(k) ELSE UNCHANGED vars

(* fetch_ptr: its parameter touch is not looked at.  By its description a  *)
(* fetch with touch = FALSE is no use of the entry.                        *)
FetchPtr(k, touch) ==
    /\ k \in index
    /\ list' = Touched(list, k)
    /\ IF touch THEN Used(k) ELSE UNCHANGED recent
    /\ UNCHANGED <<index, curr_size>>

(* clear: _curr_size keeps its value. *)
Clear ==
    /\ list' = <<>>
    /\ index' = {}
    /\ UNCHANGED <<curr_size, recent>>

Init == list = <<>> /\ index = {} /\ curr_size = 0 /\ recent = {}

Next ==
    \/ \E k \in Keys, d \in Datas : Insert(k, d)
    \/ \E k \in Keys : Delete(k) \/ Touch(k)
    \/ \E k \in Keys, touch \in BOOLEAN : Fetch(k, touch)
    \/ \E k \in Keys, touch \in PtrTouch : FetchPtr(k, touch)
    \/ Clear

Spec == Init /\ [][Next]_vars

-----------------------------------------------------------------------------
(* Properties. *)

(* Index and list hold the same keys, each once: every iterator kept in    *)
(* _index points into _list, whatever eviction and replacement removed.    *)
IndexExact ==
    /\ ToSet(KeysOf(list)) = index
    /\ \A i, j \in DOMAIN list : list[i].key = list[j].key => i = j

(* The entries never take more than MaxSize, the counter never counts less *)
(* than they take, and so the loop of insert never reaches past the list's *)
(* beginning, even when clear has left the counter behind.                 *)
SizeBound == SizeOf(list) <= curr_size /\ curr_size <= MaxSize

(* The list is in the order of the entries' last use, so that insert       *)
(* discards the least recently used ones.  A fetch_ptr whose touch is      *)
(* FALSE is no use ("whether or not to touch the data", lru_cache.h:173).  *)
OrderedByUse ==
    \A i, j \in DOMAIN list : i < j => <<list[i].key, list[j].key>> \in recent

(* After every call _index and _list agree, the counter is in bounds and   *)
(* the list is in the order of use.                                        *)
CacheConsistent == IndexExact /\ SizeBound /\ OrderedByUse

(* lru_cache.h:218 says of insert "Inserts a key-data pair into the cache  *)
(* and removes entries if neccessary": a pair that fits is in the cache    *)
(* after its insert.                                                       *)
InsertStores ==
    [][\A k \in Keys, d \in Datas :
          Insert(k, d) /\ Sizefn[d] <= MaxSize => k \in index']_vars
=============================================================================
