-------------------------------- MODULE Lists --------------------------------
(* The operators on sequences that the components with proofs use, with the *)
(* names and the meaning they have in SequencesExt.  The proof system takes *)
(* every definition in reach into every obligation; SequencesExt as a whole *)
(* doubles the time that the proofs about these components take.            *)
EXTENDS Integers, Sequences, FiniteSets, FiniteSetsExt

(* The elements of a sequence. *)
ToSet(s) == {s[i] : i \in DOMAIN s}

(* The result of op on what was computed so far and the next element. *)
FoldLeft(op(_, _), base, s) ==
    MapThenFoldSet(LAMBDA next, acc : op(acc, next), base, LAMBDA i : s[i], Max, DOMAIN s)

(* The sequences of a sequence, one after the other. *)
FlattenSeq(seqs) ==
    IF Len(seqs) = 0 THEN seqs
    ELSE LET upTo[i \in 1 .. Len(seqs)] == IF i = 1 THEN seqs[i] ELSE upTo[i - 1] \o seqs[i]
         IN upTo[Len(seqs)]

(* The place of the first element that passes a test, or 0. *)
SelectInSeq(s, Test(_)) ==
    LET found == {i \in 1 .. Len(s) : Test(s[i])}
    IN IF found = {} THEN 0 ELSE Min(found)

RemoveAt(s, i) == SubSeq(s, 1, i - 1) \o SubSeq(s, i + 1, Len(s))

(* A sequence without the first element that is e. *)
RemoveFirst(s, e) ==
    IF \E i \in 1 .. Len(s) : s[i] = e THEN RemoveAt(s, SelectInSeq(s, LAMBDA v : v = e)) ELSE s

(* The numbers of a set in their order. *)
SetToSortSeq(S, Before(_, _)) ==
    CHOOSE s \in [1 .. Cardinality(S) -> S] :
        \A i, j \in DOMAIN s : i < j => Before(s[i], s[j])
==============================================================================
