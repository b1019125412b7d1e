-------------------------------- MODULE KVMap --------------------------------
(* What NoVoHT promises in memory: a map from keys to values, where append  *)
(* extends a value (the code joins the pieces with ":").  A value is the    *)
(* sequence of its pieces; a key that is not stored has the empty one.      *)
EXTENDS Sequences

CONSTANTS Keys, Vals

VARIABLES
    map,
    call    \* the last request

Call(op, k, v) == [op |-> op, key |-> k, val |-> v]

Init == map = [k \in Keys |-> <<>>]

Put(k, v)    == call' = Call("put", k, v)    /\ map' = [map EXCEPT ![k] = <<v>>]
Extend(k, v) == call' = Call("append", k, v) /\ map' = [map EXCEPT ![k] = Append(@, v)]
Delete(k)    == call' = Call("remove", k, k) /\ map' = [map EXCEPT ![k] = <<>>]

Next == \/ \E k \in Keys, v \in Vals : Put(k, v) \/ Extend(k, v)
        \/ \E k \in Keys : Delete(k)

Spec == Init /\ [][Next]_<<map, call>>
==============================================================================
