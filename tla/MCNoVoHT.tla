------------------------------ MODULE MCNoVoHT ------------------------------
(* Setups of NoVoHT for TLC. *)
EXTENDS NoVoHT

CONSTANTS k1, k2, k3

(* All keys in one chain until the table grows; one chain of two; no chain. *)
Colliding == [k \in Keys |-> IF k = k1 THEN 0 ELSE IF k = k2 THEN 2 ELSE 4]
Paired    == [k \in Keys |-> IF k = k3 THEN 1 ELSE 0]
Separate  == [k \in Keys |-> IF k = k1 THEN 0 ELSE IF k = k2 THEN 1 ELSE 2]

(* A table in memory that grows; a table with a file; a file that is       *)
(* rewritten after every removal while requests come, and a restart.       *)
InMemory == [keys |-> Keys, hash |-> Colliding, initSize |-> 2, magicNumber |-> 100,
             resizePercent |-> 70, persistent |-> FALSE, concurrent |-> TRUE,
             maxOps |-> 5, maxRestarts |-> 0]
WithFile == [keys |-> Keys, hash |-> Separate, initSize |-> 4, magicNumber |-> 100,
             resizePercent |-> 50, persistent |-> TRUE, concurrent |-> FALSE,
             maxOps |-> 4, maxRestarts |-> 0]
Rewritten == [keys |-> {k1, k2}, hash |-> Paired, initSize |-> 2, magicNumber |-> 1,
              resizePercent |-> 70, persistent |-> TRUE, concurrent |-> TRUE,
              maxOps |-> 3, maxRestarts |-> 1]

AllSetups  == {InMemory, WithFile, Rewritten}
OneRestart == {[WithFile EXCEPT !.maxOps = 3, !.maxRestarts = 1]}
=============================================================================
