---- MODULE MCZHTService ----
(* The calls that the runs of ZHTService make. *)
EXTENDS ZHTService

CONSTANTS c1, c2, t1, t2, t3

MCProcOf == [t \in Threads |-> IF t = t3 THEN c2 ELSE c1]

Op(op, v, w, l) == [op |-> op, key |-> "k", val |-> v, new |-> w, lease |-> l]

Basics == {Op("lookup", "", "", 1), Op("insert", "a", "", 1), Op("remove", "", "", 1),
           Op("cas", "a", "b", 1), Op("cas", "b", "a", 1), Op("cas", "", "b", 1),
           [Op("insert", "a", "", 1) EXCEPT !.key = ""]}
Plain == {Op("lookup", "", "", 1), Op("insert", "a", "", 1), Op("cas", "a", "b", 1)}
Callbacks == {Op("insert", "a", "", 1), Op("cas", "a", "b", 1),
              Op("callback", "a", "", 2), Op("callback", "b", "", 1)}
Removals == Callbacks \cup {Op("remove", "", "", 1)}
Empties == {Op("lookup", "", "", 1), Op("insert", "", "", 1), Op("cas", "", "a", 1)}
Appends == {Op("lookup", "", "", 1), Op("insert", "a", "", 1), Op("append", "b", "", 1)}

(* Calls beside each other; calls while the server crashes; callbacks. *)
Beside  == [threads |-> Threads, requests |-> Plain, maxCalls |-> 2, maxCrashes |-> 0]
Crashes == [threads |-> {t1, t2}, requests |-> Basics, maxCalls |-> 2, maxCrashes |-> 1]
Waits   == [threads |-> Threads, requests |-> Callbacks, maxCalls |-> 1, maxCrashes |-> 1]
AllScenarios == {Beside, Crashes, Waits}
====
