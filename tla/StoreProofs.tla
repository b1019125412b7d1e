---------------------------- MODULE StoreProofs ----------------------------
(* Proofs about the hash table of a ZHT server (NoVoHT): the chains hold    *)
(* every stored key once, where get looks for it; through get the table is  *)
(* a map; it grows only when it is full; and while nothing disturbs the     *)
(* file, its live records are the table.                                    *)
EXTENDS NoVoHT, FiniteSetTheorems, WellFoundedInduction, TLAPS

-----------------------------------------------------------------------------
(* Induction and folds. *)

(* A set of natural numbers has a least element. *)
LEMMA LeastNumber ==
    ASSUME NEW T \in SUBSET Nat, T # {}
    PROVE  \E m \in T : \A n \in T : m <= n
  <1> DEFINE R == OpToRel(<, Nat)
  <1>1. IsWellFoundedOn(R, Nat)
    BY NatLessThanWellFounded, Zenon
  <1>2. \A m, n \in Nat : <<m, n>> \in R <=> m < n
    BY Zenon DEF OpToRel
  <1> HIDE DEF R
  <1>3. PICK m \in T : \A n \in T : ~(<<n, m>> \in R)
    BY <1>1, WFMin, Zenon
  <1>4. ASSUME NEW n \in T PROVE m <= n
    <2>1. m \in Nat /\ n \in Nat
      BY Zenon
    <2>2. ~(n < m)
      BY <1>2, <1>3, <2>1, Zenon
    <2> QED
      BY <2>1, <2>2
  <1> QED
    BY <1>4, Zenon

(* Induction, for a set of numbers. *)
LEMMA Induction ==
    ASSUME NEW S, 0 \in S, \A n \in Nat : n \in S => n + 1 \in S
    PROVE  Nat \subseteq S
  <1> SUFFICES ASSUME Nat \ S # {} PROVE FALSE
    BY Zenon
  <1>1. PICK m \in Nat \ S : \A n \in Nat \ S : m <= n
    BY LeastNumber, Zenon
  <1>2. m - 1 \in Nat /\ m - 1 \in S
    BY <1>1
  <1> QED
    BY <1>1, <1>2

(* The largest number of a set that holds its upper bound. *)
LEMMA MaxTop ==
    ASSUME NEW m \in Nat, NEW s \in SUBSET (1 .. m), m \in s
    PROVE  Max(s) = m
  <1>1. \A x \in s : m >= x
    OBVIOUS
  <1>2. \A x \in s : (\A y \in s : x >= y) => x = m
    OBVIOUS
  <1> QED
    BY <1>1, <1>2, Zenon DEF Max

(* The largest number of a set is one of it. *)
LEMMA MaxIn ==
    ASSUME NEW n \in Nat, NEW s \in SUBSET (1 .. n), s # {}
    PROVE  Max(s) \in s
  <1> DEFINE T == {n - x : x \in s}
  <1>1. T \in SUBSET Nat
    <2>1. \A x \in s : n - x \in Nat
      OBVIOUS
    <2> QED
      BY <2>1, Zenon
  <1>2. PICK m \in T : \A y \in T : m <= y
    <2>1. T # {}
      BY Zenon
    <2> QED
      BY <1>1, <2>1, LeastNumber, Zenon
  <1>3. PICK x \in s : m = n - x
    BY Zenon
  <1>4. ASSUME NEW y \in s PROVE x >= y
    <2>1. n - y \in T
      BY Zenon
    <2>2. x \in Nat /\ y \in Nat
      OBVIOUS
    <2> HIDE DEF T
    <2>3. n - x <= n - y
      BY <1>2, <1>3, <2>1, Zenon
    <2> QED
      BY <2>2, <2>3
  <1> QED
    BY <1>4, Zenon DEF Max

(* The first i of n numbers, the largest of them and the others. *)
LEMMA FirstNumbers ==
    ASSUME NEW n \in Nat, NEW i \in 1 .. n
    PROVE  /\ 1 .. i \in SUBSET (1 .. n) /\ 1 .. i # {} /\ Max(1 .. i) = i
           /\ (1 .. i) \ {i} = 1 .. (i - 1) /\ 1 .. (i - 1) \in SUBSET (1 .. n)
  <1>1. i \in Nat /\ i \in 1 .. i /\ 1 .. i \in SUBSET (1 .. i)
    OBVIOUS
  <1>2. Max(1 .. i) = i
    BY <1>1, MaxTop, Zenon
  <1>3. \A x \in 1 .. i : x \in 1 .. n
    OBVIOUS
  <1>4. \A x \in 1 .. (i - 1) : x \in 1 .. i /\ x # i
    OBVIOUS
  <1>5. \A x \in 1 .. i : x # i => x \in 1 .. (i - 1)
    OBVIOUS
  <1> QED
    BY <1>1, <1>2, <1>3, <1>4, <1>5, Zenon

(* g is what MapThenFoldSet computes with over the sets of the first n     *)
(* numbers, from base with step h.                                         *)
IsFold(g, n, V, base, h) ==
    /\ g \in [SUBSET (1 .. n) -> V]
    /\ \A s \in SUBSET (1 .. n) :
         g[s] = IF s = {} THEN base ELSE h[<<Max(s), g[s \ {Max(s)}]>>]

(* There is such a g for every step of a fold. *)
LEMMA FoldExists ==
    ASSUME NEW n \in Nat, NEW V, NEW base \in V, NEW h \in [(1 .. n) \X V -> V]
    PROVE  \E g : IsFold(g, n, V, base, h)
  <1> DEFINE Fold(g, m) == IsFold(g, m, V, base, h)
             Exists(m) == \E g : Fold(g, m)
             Done == {m \in Nat : m <= n => Exists(m)}
  <1>1. 0 \in Done
    <2>1. SUBSET (1 .. 0) = {{}}
      OBVIOUS
    <2> DEFINE g == [s \in {{}} |-> base]
    <2>2. g \in [SUBSET (1 .. 0) -> V]
      BY <2>1, Zenon
    <2>3. \A s \in SUBSET (1 .. 0) : s = {} /\ g[s] = base
      BY <2>1, Zenon
    <2>4. Fold(g, 0)
      <3> HIDE DEF g
      <3> QED
        BY <2>2, <2>3, Zenon DEF IsFold
    <2>5. Exists(0)
      <3> HIDE DEF g, Fold
      <3> QED
        BY <2>4, Zenon
    <2> QED
      BY <2>5, Zenon
  <1>2. ASSUME NEW m \in Nat, m \in Done PROVE m + 1 \in Done
    <2> SUFFICES ASSUME m + 1 <= n PROVE Exists(m + 1)
      <3> HIDE DEF Exists
      <3> QED
        OBVIOUS
    <2>0. Exists(m)
      <3> HIDE DEF Exists
      <3> QED
        BY <1>2
    <2>1. PICK f : Fold(f, m)
      BY <2>0, Zenon
    <2> DEFINE g == [s \in SUBSET (1 .. m + 1) |->
                        IF m + 1 \in s THEN h[<<m + 1, f[s \ {m + 1}]>>] ELSE f[s]]
    <2>2. \A s \in SUBSET (1 .. m + 1) : s \ {m + 1} \in SUBSET (1 .. m)
      OBVIOUS
    <2>3. \A s \in SUBSET (1 .. m + 1) : m + 1 \notin s => s \in SUBSET (1 .. m)
      OBVIOUS
    <2>4. \A s \in SUBSET (1 .. m) : f[s] \in V
      BY <2>1, Zenon DEF IsFold
    <2>5. \A v \in V : h[<<m + 1, v>>] \in V
      BY m + 1 \in 1 .. n, Zenon
    <2>6. g \in [SUBSET (1 .. m + 1) -> V]
      BY <2>2, <2>3, <2>4, <2>5, Zenon
    <2>7. ASSUME NEW s \in SUBSET (1 .. m + 1)
          PROVE  g[s] = IF s = {} THEN base ELSE h[<<Max(s), g[s \ {Max(s)}]>>]
      <3>1. CASE m + 1 \in s
        <4>1. Max(s) = m + 1
          BY <3>1, MaxTop
        <4>2. s \ {m + 1} \in SUBSET (1 .. m + 1) /\ m + 1 \notin s \ {m + 1}
          BY Zenon
        <4>3. g[s \ {m + 1}] = f[s \ {m + 1}]
          BY <4>2, Zenon
        <4>4. g[s] = h[<<m + 1, f[s \ {m + 1}]>>]
          BY <3>1, Zenon
        <4> QED
          BY <3>1, <4>1, <4>3, <4>4, Zenon
      <3>2. CASE m + 1 \notin s
        <4>1. s \in SUBSET (1 .. m)
          BY <2>3, <3>2, Zenon
        <4>2. g[s] = f[s]
          BY <3>2, Zenon
        <4>3. s \ {Max(s)} \in SUBSET (1 .. m + 1) /\ m + 1 \notin s \ {Max(s)}
          BY <3>2, Zenon
        <4>4. g[s \ {Max(s)}] = f[s \ {Max(s)}]
          BY <4>3, Zenon
        <4>5. f[s] = IF s = {} THEN base ELSE h[<<Max(s), f[s \ {Max(s)}]>>]
          BY <2>1, <4>1, Zenon DEF IsFold
        <4> QED
          BY <4>2, <4>4, <4>5, Zenon
      <3> QED
        BY <3>1, <3>2, Zenon
    <2>8. Fold(g, m + 1)
      BY <2>6, <2>7, Zenon DEF IsFold
    <2> HIDE DEF g, Fold
    <2> QED
      BY <2>8, Zenon
  <1>3. n \in Done
    <2> HIDE DEF Done
    <2> QED
      BY <1>1, <1>2, Induction, Zenon
  <1>4. Exists(n)
    <2> HIDE DEF Exists
    <2> QED
      BY <1>3
  <1> QED
    BY <1>4, Zenon

-----------------------------------------------------------------------------
(* Chains. *)

(* No element of the sequence occurs twice. *)
Distinct(s) == \A i, j \in DOMAIN s : s[i] = s[j] => i = j

(* Concatenation: the elements of both, and once each if they are apart. *)
LEMMA ConcatElements ==
    ASSUME NEW K, NEW s \in Seq(K), NEW t \in Seq(K)
    PROVE  /\ s \o t \in Seq(K)
           /\ ToSet(s \o t) = ToSet(s) \cup ToSet(t)
           /\ Distinct(s) /\ Distinct(t) /\ ToSet(s) \cap ToSet(t) = {}
                => Distinct(s \o t)
  <1> DEFINE u == s \o t
  <1>1. /\ u \in Seq(K) /\ Len(u) = Len(s) + Len(t)
        /\ DOMAIN u = 1 .. Len(u) /\ DOMAIN s = 1 .. Len(s) /\ DOMAIN t = 1 .. Len(t)
        /\ Len(s) \in Nat /\ Len(t) \in Nat
        /\ \A i \in DOMAIN s : i \in DOMAIN u /\ u[i] = s[i]
        /\ \A i \in DOMAIN t : i + Len(s) \in DOMAIN u /\ u[i + Len(s)] = t[i]
        /\ \A i \in DOMAIN u : i > Len(s) => i - Len(s) \in DOMAIN t /\ u[i] = t[i - Len(s)]
    OBVIOUS
  <1> HIDE DEF u
  <1>2. ToSet(u) \subseteq ToSet(s) \cup ToSet(t)
    <2> SUFFICES ASSUME NEW i \in DOMAIN u PROVE u[i] \in ToSet(s) \cup ToSet(t)
      BY Zenon DEF ToSet
    <2>1. CASE i \in DOMAIN s
      BY <1>1, <2>1, Zenon DEF ToSet
    <2>2. CASE i > Len(s)
      BY <1>1, <2>2, Zenon DEF ToSet
    <2> QED
      BY <1>1, <2>1, <2>2
  <1>3. ToSet(s) \cup ToSet(t) \subseteq ToSet(u)
    <2>1. ASSUME NEW i \in DOMAIN s PROVE s[i] \in ToSet(u)
      BY <1>1, Zenon DEF ToSet
    <2>2. ASSUME NEW i \in DOMAIN t PROVE t[i] \in ToSet(u)
      BY <1>1, Zenon DEF ToSet
    <2> QED
      BY <2>1, <2>2, Zenon DEF ToSet
  <1>4. ASSUME Distinct(s), Distinct(t), ToSet(s) \cap ToSet(t) = {} PROVE Distinct(u)
    <2> SUFFICES ASSUME NEW i \in DOMAIN u, NEW j \in DOMAIN u, u[i] = u[j], i < j
                 PROVE  FALSE
      BY <1>1 DEF Distinct
    <2>1. CASE j \in DOMAIN s
      BY <1>1, <1>4, <2>1 DEF Distinct
    <2>2. CASE i > Len(s)
      <3>1. /\ i - Len(s) \in DOMAIN t /\ j - Len(s) \in DOMAIN t
            /\ t[i - Len(s)] = t[j - Len(s)]
        BY <1>1, <2>2
      <3>2. i - Len(s) = j - Len(s)
        BY <1>4, <3>1, Zenon DEF Distinct
      <3> QED
        BY <1>1, <3>2
    <2>3. CASE i \in DOMAIN s /\ j > Len(s)
      <3>1. u[i] \in ToSet(s) /\ u[j] \in ToSet(t)
        BY <1>1, <2>3, Zenon DEF ToSet
      <3> QED
        BY <1>4, <3>1, Zenon
    <2> QED
      BY <1>1, <2>1, <2>2, <2>3
  <1> QED
    BY <1>1, <1>2, <1>3, <1>4, Zenon DEF u

(* A pair at the head of a chain, or at its end. *)
LEMMA OneMore ==
    ASSUME NEW K, NEW s \in Seq(K), NEW k \in K
    PROVE  /\ <<k>> \o s \in Seq(K) /\ ToSet(<<k>> \o s) = ToSet(s) \cup {k}
           /\ Append(s, k) \in Seq(K) /\ ToSet(Append(s, k)) = ToSet(s) \cup {k}
           /\ Distinct(s) /\ k \notin ToSet(s)
                => Distinct(<<k>> \o s) /\ Distinct(Append(s, k))
  <1> DEFINE one == <<k>>
  <1>1. one \in Seq(K) /\ ToSet(one) = {k} /\ Distinct(one)
    BY DEF ToSet, Distinct
  <1>2. Append(s, k) = s \o one
    OBVIOUS
  <1> HIDE DEF one
  <1>3. /\ one \o s \in Seq(K) /\ ToSet(one \o s) = ToSet(one) \cup ToSet(s)
        /\ Distinct(s) /\ ToSet(one) \cap ToSet(s) = {} => Distinct(one \o s)
    BY <1>1, ConcatElements
  <1>4. /\ s \o one \in Seq(K) /\ ToSet(s \o one) = ToSet(s) \cup ToSet(one)
        /\ Distinct(s) /\ ToSet(s) \cap ToSet(one) = {} => Distinct(s \o one)
    BY <1>1, ConcatElements
  <1> QED
    BY <1>1, <1>2, <1>3, <1>4, Zenon DEF one

(* A sequence without repetition is as long as its set is large. *)
LEMMA DistinctLength ==
    ASSUME NEW K, NEW s \in Seq(K), Distinct(s)
    PROVE  Len(s) = Cardinality(ToSet(s))
  <1>1. s \in [1 .. Len(s) -> ToSet(s)] /\ Len(s) \in Nat
    BY DEF ToSet
  <1>2. s \in Bijection(1 .. Len(s), ToSet(s))
    BY <1>1, Zenon DEF Bijection, Injection, Surjection, IsInjective, Distinct, ToSet
  <1> QED
    BY <1>1, <1>2, FS_CountingElements, Zenon DEF ExistsBijection

(* The later elements of a joined sequence are those of the second one. *)
LEMMA ConcatLater ==
    ASSUME NEW K, NEW a \in Seq(K), NEW b \in Seq(K), NEW i \in Len(a) + 1 .. Len(a) + Len(b)
    PROVE  (a \o b)[i] = b[i - Len(a)]
  OBVIOUS

(* remove unlinks the first pair with the key. *)
LEMMA RemoveFirstElements ==
    ASSUME NEW K, NEW s \in Seq(K), Distinct(s), NEW k \in ToSet(s)
    PROVE  /\ RemoveFirst(s, k) \in Seq(K)
           /\ ToSet(RemoveFirst(s, k)) = ToSet(s) \ {k}
           /\ Distinct(RemoveFirst(s, k))
  <1>1. PICK p \in DOMAIN s : s[p] = k
    BY Zenon DEF ToSet
  <1>2. p \in 1 .. Len(s) /\ DOMAIN s = 1 .. Len(s) /\ Len(s) \in Nat
    BY <1>1
  <1>3. {i \in 1 .. Len(s) : s[i] = k} = {p}
    BY <1>1, <1>2, Zenon DEF Distinct
  <1>4. Min({p}) = p
    BY <1>2 DEF Min
  <1>5. SelectInSeq(s, LAMBDA v : v = k) = p
    BY <1>3, <1>4, Zenon DEF SelectInSeq
  <1> DEFINE u == RemoveFirst(s, k)
  <1>6. u = SubSeq(s, 1, p - 1) \o SubSeq(s, p + 1, Len(s))
    BY <1>1, <1>2, <1>5, Zenon DEF RemoveFirst, RemoveAt
  <1>7. /\ u \in Seq(K) /\ DOMAIN u = 1 .. Len(s) - 1
        /\ \A i \in 1 .. Len(s) - 1 : u[i] = IF i < p THEN s[i] ELSE s[i + 1]
    <2> DEFINE a == SubSeq(s, 1, p - 1)
               b == SubSeq(s, p + 1, Len(s))
    <2>1. a \in Seq(K) /\ Len(a) = p - 1 /\ \A i \in 1 .. p - 1 : a[i] = s[i]
      BY <1>2
    <2>2. b \in Seq(K) /\ Len(b) = Len(s) - p /\ \A i \in 1 .. Len(s) - p : b[i] = s[i + p]
      BY <1>2
    <2> HIDE DEF a, b
    <2>3. a \o b \in Seq(K) /\ Len(a \o b) = Len(a) + Len(b)
      <3>1. a \in Seq(K) /\ b \in Seq(K)
        BY <2>1, <2>2, Zenon
      <3> QED
        BY <3>1
    <2>4. Len(a \o b) = Len(s) - 1
      BY <1>2, <2>1, <2>2, <2>3
    <2>5. ASSUME NEW i \in 1 .. Len(s) - 1
          PROVE  (a \o b)[i] = IF i < p THEN s[i] ELSE s[i + 1]
      <3>1. CASE i < p
        BY <1>2, <2>1, <2>2, <3>1
      <3>2. CASE i >= p
        <4>1. (a \o b)[i] = b[i - (p - 1)]
          <5>1. i \in Len(a) + 1 .. Len(a) + Len(b) /\ Len(a) = p - 1
            BY <1>2, <2>1, <2>2, <3>2
          <5>2. (a \o b)[i] = b[i - Len(a)]
            BY <2>1, <2>2, <5>1, ConcatLater, Zenon
          <5> QED
            BY <5>1, <5>2, Zenon
        <4>2. i - (p - 1) \in 1 .. Len(s) - p /\ i - (p - 1) + p = i + 1
          BY <1>2, <3>2
        <4>3. b[i - (p - 1)] = s[i - (p - 1) + p]
          BY <2>2, <4>2, Zenon
        <4> QED
          BY <1>2, <3>2, <4>1, <4>2, <4>3
      <3>3. i < p \/ i >= p
        BY <1>2
      <3> QED
        BY <3>1, <3>2, <3>3, Zenon
    <2>6. u = a \o b
      BY <1>6, Zenon DEF a, b
    <2> HIDE DEF u
    <2> QED
      BY <2>3, <2>4, <2>5, <2>6
  <1> HIDE DEF u
  <1>8. ASSUME NEW i \in DOMAIN s, i # p PROVE s[i] \in ToSet(u)
    <2>1. CASE i < p
      BY <1>2, <1>7, <2>1 DEF ToSet
    <2>2. CASE i > p
      <3>1. i - 1 \in DOMAIN u /\ u[i - 1] = s[i]
        BY <1>2, <1>7, <2>2
      <3> QED
        BY <3>1, Zenon DEF ToSet
    <2> QED
      BY <1>2, <1>8, <2>1, <2>2
  <1>9. ASSUME NEW i \in DOMAIN u PROVE u[i] \in ToSet(s) /\ u[i] # k
    <2>1. CASE i < p
      <3>1. i \in DOMAIN s /\ i # p /\ u[i] = s[i]
        BY <1>2, <1>7, <2>1
      <3> QED
        BY <1>1, <3>1, Zenon DEF ToSet, Distinct
    <2>2. CASE i >= p
      <3>1. i + 1 \in DOMAIN s /\ i + 1 # p /\ u[i] = s[i + 1]
        BY <1>2, <1>7, <2>2
      <3> QED
        BY <1>1, <3>1, Zenon DEF ToSet, Distinct
    <2> QED
      BY <1>2, <1>7, <2>1, <2>2
  <1>10. ToSet(u) = ToSet(s) \ {k}
    BY <1>1, <1>8, <1>9, Zenon DEF ToSet
  <1>11. Distinct(u)
    <2> SUFFICES ASSUME NEW i \in DOMAIN u, NEW j \in DOMAIN u, u[i] = u[j] PROVE i = j
      BY Zenon DEF Distinct
    <2> DEFINE from(x) == IF x < p THEN x ELSE x + 1
    <2>1. /\ from(i) \in DOMAIN s /\ from(j) \in DOMAIN s
          /\ u[i] = s[from(i)] /\ u[j] = s[from(j)]
      BY <1>2, <1>7
    <2>2. from(i) = from(j)
      <3> HIDE DEF from
      <3> QED
        BY <2>1, Zenon DEF Distinct
    <2> QED
      BY <1>2, <1>7, <2>2
  <1> QED
    BY <1>7, <1>10, <1>11, Zenon DEF u

-----------------------------------------------------------------------------
(* Resizing. *)

(* a holds what the first sequences of w give, joined one by one. *)
Joined(a, w, n) ==
    /\ a[1] = w[1]
    /\ \A i \in 1 .. n - 1 : a[i + 1] = a[i] \o w[i + 1]

(* FlattenSeq joins the sequences one by one. *)
LEMMA FlattenSteps ==
    ASSUME NEW K, NEW n \in Nat \ {0}, NEW w \in [1 .. n -> Seq(K)]
    PROVE  \E a : Joined(a, w, n) /\ FlattenSeq(w) = a[n]
  <1> DEFINE h == [p \in (1 .. n) \X Seq(K) |-> p[2] \o w[p[1]]]
             Flat(g) == g = [i \in 1 .. n |-> IF i = 1 THEN w[i] ELSE g[i - 1] \o w[i]]
             a == CHOOSE g : Flat(g)
  <1>1. h \in [(1 .. n) \X Seq(K) -> Seq(K)]
    <2>1. ASSUME NEW p \in (1 .. n) \X Seq(K) PROVE p[2] \o w[p[1]] \in Seq(K)
      <3>1. p[2] \in Seq(K) /\ w[p[1]] \in Seq(K)
        BY Zenon
      <3> QED
        BY <3>1
    <2> QED
      BY <2>1, Zenon
  <1>2. \A i \in 1 .. n : \A v \in Seq(K) : h[<<i, v>>] = v \o w[i]
    BY Zenon
  <1>3. n \in Nat /\ <<>> \in Seq(K)
    OBVIOUS
  <1> HIDE DEF h
  <1>4. PICK f : IsFold(f, n, Seq(K), <<>>, h)
    BY <1>1, <1>3, FoldExists, Zenon
  <1>5. ASSUME NEW i \in 1 .. n PROVE f[1 .. i] = f[1 .. (i - 1)] \o w[i]
    <2>1. /\ 1 .. i \in SUBSET (1 .. n) /\ 1 .. i # {} /\ Max(1 .. i) = i
          /\ (1 .. i) \ {i} = 1 .. (i - 1) /\ 1 .. (i - 1) \in SUBSET (1 .. n)
      BY <1>3, FirstNumbers, Zenon
    <2>2. f[1 .. i] = h[<<i, f[1 .. (i - 1)]>>] /\ f[1 .. (i - 1)] \in Seq(K)
      BY <1>4, <2>1, Zenon DEF IsFold
    <2> QED
      BY <1>2, <2>2, Zenon
  <1>6. f[1 .. 0] = <<>>
    <2>1. 1 .. 0 = {}
      OBVIOUS
    <2> QED
      BY <1>4, <2>1, Zenon DEF IsFold
  <1> DEFINE g == [i \in 1 .. n |-> f[1 .. i]]
  <1>7. ASSUME NEW i \in 1 .. n PROVE g[i] = IF i = 1 THEN w[i] ELSE g[i - 1] \o w[i]
    <2>1. CASE i = 1
      <3>1. <<>> \o w[1] = w[1]
        OBVIOUS
      <3>2. i - 1 = 0 /\ g[i] = f[1 .. i]
        BY <2>1
      <3>3. f[1 .. i] = f[1 .. 0] \o w[i]
        BY <1>5, <3>2, Zenon
      <3> QED
        BY <1>6, <2>1, <3>1, <3>2, <3>3, Zenon
    <2>2. CASE i # 1
      <3>1. i - 1 \in 1 .. n
        BY <2>2
      <3>2. g[i - 1] = f[1 .. (i - 1)] /\ g[i] = f[1 .. i]
        BY <3>1, Zenon
      <3> QED
        BY <1>5, <2>2, <3>2, Zenon
    <2> QED
      BY <2>1, <2>2, Zenon
  <1>8. Flat(g)
    BY <1>7, Zenon
  <1>9. Flat(a)
    <2> HIDE DEF g, Flat
    <2> QED
      BY <1>8, Zenon
  <1>10. DOMAIN w = 1 .. n /\ Len(w) = n /\ Len(w) # 0
    OBVIOUS
  <1>11. FlattenSeq(w) = a[n]
    BY <1>10, Zenon DEF FlattenSeq
  <1>12. a[1] = w[1] /\ \A i \in 1 .. n - 1 : a[i + 1] = a[i] \o w[i + 1]
    <2> HIDE DEF a
    <2>1. \A i \in 1 .. n : a[i] = IF i = 1 THEN w[i] ELSE a[i - 1] \o w[i]
      BY <1>9, Zenon
    <2>2. ASSUME NEW i \in 1 .. n - 1 PROVE a[i + 1] = a[i] \o w[i + 1]
      <3>1. PICK j \in 1 .. n : j = i + 1
        OBVIOUS
      <3>2. j # 1 /\ j - 1 = i
        BY <3>1
      <3>3. a[j] = a[j - 1] \o w[j]
        BY <2>1, <3>2, Zenon
      <3> QED
        BY <3>1, <3>2, <3>3, Zenon
    <2>3. a[1] = w[1]
      BY <2>1
    <2> QED
      BY <2>2, <2>3, Zenon
  <1> HIDE DEF a
  <1> QED
    BY <1>11, <1>12, Zenon DEF Joined

(* The keys of S are in the chains of n buckets, each of them once and in  *)
(* the bucket that it hashes to.                                           *)
InChains(chains, n, S) ==
    /\ chains \in [0 .. n - 1 -> Seq(Keys)]
    /\ \A b \in 0 .. n - 1 : /\ Distinct(chains[b])
                             /\ ToSet(chains[b]) = {k \in S : Slot(k, n) = b}

(* fnv_hash modulo the number of buckets is a bucket. *)
LEMMA SlotIsBucket ==
    ASSUME NEW k \in Keys, NEW n \in Nat \ {0}, conf.hash \in [Keys -> Nat]
    PROVE  Slot(k, n) \in 0 .. n - 1
  <1>1. conf.hash[k] \in Nat
    BY Zenon
  <1> QED
    BY <1>1 DEF Slot

(* resize goes through every stored key, once. *)
LEMMA InOrderElements ==
    ASSUME size \in Nat \ {0}, Stored \subseteq Keys, conf.hash \in [Keys -> Nat],
           InChains(kvpairs, size, Stored)
    PROVE  InOrder \in Seq(Keys) /\ Distinct(InOrder) /\ ToSet(InOrder) = Stored
  <1> DEFINE w == [i \in 1 .. size |-> kvpairs[i - 1]]
  <1>1. w \in [1 .. size -> Seq(Keys)]
    BY DEF InChains
  <1>2. \A m \in 0 .. size - 1 : m + 1 \in 1 .. size /\ w[m + 1] = kvpairs[m]
    OBVIOUS
  <1>3. InOrder = FlattenSeq(w)
    BY Zenon DEF InOrder
  <1> HIDE DEF w
  <1>4. PICK a : Joined(a, w, size) /\ InOrder = a[size]
    BY <1>1, <1>3, FlattenSteps, Zenon
  <1>5. \A k \in Stored : Slot(k, size) \in 0 .. size - 1
    BY SlotIsBucket, Zenon
  <1> DEFINE P(m) == /\ a[m + 1] \in Seq(Keys) /\ Distinct(a[m + 1])
                     /\ ToSet(a[m + 1]) = {k \in Stored : Slot(k, size) <= m}
             Done == {m \in Nat : m < size => P(m)}
  <1>6. P(0)
    <2>1. 0 \in 0 .. size - 1 /\ 0 + 1 = 1
      OBVIOUS
    <2>2. a[0 + 1] = kvpairs[0]
      BY <1>2, <1>4, <2>1, Zenon DEF Joined
    <2>3. \A k \in Stored : Slot(k, size) <= 0 <=> Slot(k, size) = 0
      BY <1>5
    <2>4. kvpairs[0] \in Seq(Keys) /\ Distinct(kvpairs[0])
          /\ ToSet(kvpairs[0]) = {k \in Stored : Slot(k, size) = 0}
      BY <2>1, Zenon DEF InChains
    <2> QED
      BY <2>2, <2>3, <2>4, Zenon
  <1>7. ASSUME NEW m \in Nat, m + 1 < size, P(m) PROVE P(m + 1)
    <2>1. m + 1 \in 1 .. size - 1 /\ m + 1 \in 0 .. size - 1
      BY <1>7
    <2>2. a[m + 1 + 1] = a[m + 1] \o kvpairs[m + 1]
      BY <1>2, <1>4, <2>1, Zenon DEF Joined
    <2>3. /\ kvpairs[m + 1] \in Seq(Keys) /\ Distinct(kvpairs[m + 1])
          /\ ToSet(kvpairs[m + 1]) = {k \in Stored : Slot(k, size) = m + 1}
      BY <2>1, Zenon DEF InChains
    <2>4. \A k \in Stored : /\ Slot(k, size) <= m => Slot(k, size) # m + 1
                            /\ Slot(k, size) <= m + 1 <=>
                                 Slot(k, size) <= m \/ Slot(k, size) = m + 1
      BY <1>5
    <2>5. ToSet(a[m + 1]) \cap ToSet(kvpairs[m + 1]) = {}
      BY <1>7, <2>3, <2>4, Zenon
    <2>6. /\ a[m + 1 + 1] \in Seq(Keys) /\ Distinct(a[m + 1 + 1])
          /\ ToSet(a[m + 1 + 1]) = ToSet(a[m + 1]) \cup ToSet(kvpairs[m + 1])
      BY <1>7, <2>2, <2>3, <2>5, ConcatElements
    <2> QED
      BY <1>7, <2>3, <2>4, <2>6, Zenon
  <1>8. Nat \subseteq Done
    <2> HIDE DEF P
    <2>1. 0 \in Done
      BY <1>6, Zenon
    <2>2. \A m \in Nat : m \in Done => m + 1 \in Done
      BY <1>7
    <2> HIDE DEF Done
    <2> QED
      BY <2>1, <2>2, Induction, Zenon
  <1>9. P(size - 1)
    <2> HIDE DEF P
    <2> QED
      BY <1>8
  <1>10. size - 1 + 1 = size /\ \A k \in Stored : Slot(k, size) <= size - 1
    BY <1>5
  <1> QED
    BY <1>4, <1>9, <1>10, Zenon

(* The chains after the first i keys of resize have been moved. *)
Moves(a, s, n) ==
    /\ a[0] = [b \in 0 .. n - 1 |-> <<>>]
    /\ \A i \in 1 .. Len(s) :
         a[i] = [a[i - 1] EXCEPT ![Slot(s[i], n)] = <<s[i]>> \o @]

(* resize moves the keys one by one. *)
LEMMA ResizedSteps ==
    ASSUME NEW n \in Nat \ {0}, InOrder \in Seq(Keys), conf.hash \in [Keys -> Nat]
    PROVE  \E a : Moves(a, InOrder, n) /\ Resized(n) = a[Len(InOrder)]
  <1> DEFINE s == InOrder
             N == Len(s)
             V == [0 .. n - 1 -> Seq(Keys)]
             base == [b \in 0 .. n - 1 |-> <<>>]
             Step(v, k) == [v EXCEPT ![Slot(k, n)] = <<k>> \o @]
             h == [p \in (1 .. N) \X V |-> Step(p[2], s[p[1]])]
             Fold(g) == g = [x \in SUBSET (DOMAIN s) |->
                               IF x = {} THEN base ELSE Step(g[x \ {Max(x)}], s[Max(x)])]
             G == CHOOSE g : Fold(g)
  <1>1. s \in Seq(Keys) /\ N \in Nat /\ DOMAIN s = 1 .. N
    OBVIOUS
  <1>2. Resized(n) = G[DOMAIN s]
    BY Zenon DEF Resized, FoldLeft, MapThenFoldSet
  <1>3. ASSUME NEW v \in V, NEW k \in Keys PROVE Step(v, k) \in V
    <2>1. Slot(k, n) \in 0 .. n - 1
      BY SlotIsBucket, Zenon
    <2>2. <<k>> \o v[Slot(k, n)] \in Seq(Keys)
      <3>1. v[Slot(k, n)] \in Seq(Keys)
        BY <2>1, Zenon
      <3> QED
        BY <3>1
    <2> QED
      BY <2>1, <2>2, Zenon
  <1> HIDE DEF s, N
  <1>4. h \in [(1 .. N) \X V -> V]
    <2> HIDE DEF Step, V
    <2> QED
      BY <1>1, <1>3
  <1>5. \A i \in 1 .. N : \A v \in V : h[<<i, v>>] = Step(v, s[i])
    <2> HIDE DEF Step, V
    <2> QED
      BY Zenon
  <1>6. base \in V
    OBVIOUS
  <1> HIDE DEF V, h, base, Step
  <1>7. PICK f : IsFold(f, N, V, base, h)
    BY <1>1, <1>4, <1>6, FoldExists, Zenon
  <1>8. ASSUME NEW x \in SUBSET (1 .. N), x # {}
        PROVE  f[x] = Step(f[x \ {Max(x)}], s[Max(x)])
    <2>1. Max(x) \in 1 .. N
      BY <1>1, <1>8, MaxIn, Zenon
    <2>2. f[x] = h[<<Max(x), f[x \ {Max(x)}]>>] /\ f[x \ {Max(x)}] \in V
      BY <1>7, <1>8, Zenon DEF IsFold
    <2> QED
      BY <1>5, <2>1, <2>2, Zenon
  <1>9. Fold(f)
    BY <1>1, <1>7, <1>8, Zenon DEF IsFold
  <1>10. Fold(G)
    <2> HIDE DEF Fold
    <2> QED
      BY <1>9, Zenon
  <1> DEFINE a == [i \in 0 .. N |-> G[1 .. i]]
  <1> HIDE DEF G
  <1>11. a[0] = base
    <2>1. 1 .. 0 = {} /\ 0 \in 0 .. N
      BY <1>1
    <2> QED
      BY <1>10, <2>1, Zenon
  <1>12. ASSUME NEW i \in 1 .. N PROVE a[i] = Step(a[i - 1], s[i])
    <2>1. /\ 1 .. i \in SUBSET (1 .. N) /\ 1 .. i # {} /\ Max(1 .. i) = i
          /\ (1 .. i) \ {i} = 1 .. (i - 1)
      BY <1>1, FirstNumbers, Zenon
    <2>2. G[1 .. i] = Step(G[1 .. (i - 1)], s[i])
      BY <1>1, <1>10, <2>1, Zenon
    <2>3. i \in 0 .. N /\ i - 1 \in 0 .. N
      BY <1>1
    <2> QED
      BY <2>2, <2>3, Zenon
  <1>13. a[N] = G[DOMAIN s]
    BY <1>1
  <1> HIDE DEF a
  <1>14. Moves(a, s, n)
    BY <1>11, <1>12, Zenon DEF Moves, base, Step, N
  <1> QED
    BY <1>2, <1>13, <1>14, Zenon DEF s, N

(* A new key goes to the head or to the end of its chain. *)
LEMMA KeyAdded ==
    ASSUME NEW n \in Nat \ {0}, conf.hash \in [Keys -> Nat], NEW S, NEW k \in Keys,
           k \notin S, NEW c, InChains(c, n, S), NEW d,
           d = <<k>> \o c[Slot(k, n)] \/ d = Append(c[Slot(k, n)], k)
    PROVE  InChains([c EXCEPT ![Slot(k, n)] = d], n, S \cup {k})
  <1> DEFINE e == [c EXCEPT ![Slot(k, n)] = d]
  <1>1. Slot(k, n) \in 0 .. n - 1
    BY SlotIsBucket, Zenon
  <1>2. PICK o : o = c[Slot(k, n)]
    BY Zenon
  <1>3. /\ o \in Seq(Keys) /\ Distinct(o) /\ k \notin ToSet(o)
        /\ ToSet(o) = {x \in S : Slot(x, n) = Slot(k, n)}
    BY <1>1, <1>2, Zenon DEF InChains
  <1>4. d \in Seq(Keys) /\ Distinct(d) /\ ToSet(d) = ToSet(o) \cup {k}
    <2>1. /\ <<k>> \o o \in Seq(Keys) /\ ToSet(<<k>> \o o) = ToSet(o) \cup {k}
          /\ Append(o, k) \in Seq(Keys) /\ ToSet(Append(o, k)) = ToSet(o) \cup {k}
          /\ Distinct(<<k>> \o o) /\ Distinct(Append(o, k))
      BY <1>3, OneMore
    <2>2. d = <<k>> \o o \/ d = Append(o, k)
      BY <1>2, Zenon
    <2> QED
      BY <2>1, <2>2, Zenon
  <1>5. e \in [0 .. n - 1 -> Seq(Keys)]
    BY <1>1, <1>4, Zenon DEF InChains
  <1>6. ASSUME NEW b \in 0 .. n - 1
        PROVE  Distinct(e[b]) /\ ToSet(e[b]) = {x \in S \cup {k} : Slot(x, n) = b}
    <2>1. CASE b = Slot(k, n)
      <3>1. e[b] = d
        BY <2>1, Zenon DEF InChains
      <3> QED
        BY <1>3, <1>4, <2>1, <3>1, Zenon
    <2>2. CASE b # Slot(k, n)
      <3>1. e[b] = c[b]
        BY <2>2, Zenon DEF InChains
      <3>2. Distinct(c[b]) /\ ToSet(c[b]) = {x \in S : Slot(x, n) = b}
        BY Zenon DEF InChains
      <3> QED
        BY <2>2, <3>1, <3>2, Zenon
    <2> QED
      BY <2>1, <2>2, Zenon
  <1> QED
    BY <1>5, <1>6, Zenon DEF InChains

(* remove takes the key out of its chain. *)
LEMMA KeyRemoved ==
    ASSUME NEW n \in Nat \ {0}, conf.hash \in [Keys -> Nat], NEW S \in SUBSET Keys, NEW k \in S,
           NEW c, InChains(c, n, S), NEW d, d = RemoveFirst(c[Slot(k, n)], k)
    PROVE  InChains([c EXCEPT ![Slot(k, n)] = d], n, S \ {k})
  <1> DEFINE e == [c EXCEPT ![Slot(k, n)] = d]
  <1>1. Slot(k, n) \in 0 .. n - 1
    BY SlotIsBucket, Zenon
  <1>2. PICK o : o = c[Slot(k, n)]
    BY Zenon
  <1>3. /\ o \in Seq(Keys) /\ Distinct(o) /\ k \in ToSet(o)
        /\ ToSet(o) = {x \in S : Slot(x, n) = Slot(k, n)}
    BY <1>1, <1>2, Zenon DEF InChains
  <1>4. d \in Seq(Keys) /\ Distinct(d) /\ ToSet(d) = ToSet(o) \ {k}
    BY <1>2, <1>3, RemoveFirstElements, Zenon
  <1>5. e \in [0 .. n - 1 -> Seq(Keys)]
    BY <1>1, <1>4, Zenon DEF InChains
  <1>6. ASSUME NEW b \in 0 .. n - 1
        PROVE  Distinct(e[b]) /\ ToSet(e[b]) = {x \in S \ {k} : Slot(x, n) = b}
    <2>1. CASE b = Slot(k, n)
      <3>1. e[b] = d
        BY <2>1, Zenon DEF InChains
      <3> QED
        BY <1>3, <1>4, <2>1, <3>1, Zenon
    <2>2. CASE b # Slot(k, n)
      <3>1. e[b] = c[b]
        BY <2>2, Zenon DEF InChains
      <3>2. Distinct(c[b]) /\ ToSet(c[b]) = {x \in S : Slot(x, n) = b}
        BY Zenon DEF InChains
      <3> QED
        BY <2>2, <3>1, <3>2, Zenon
    <2> QED
      BY <2>1, <2>2, Zenon
  <1> QED
    BY <1>5, <1>6, Zenon DEF InChains

(* A key's chain holds it exactly when it is stored. *)
LEMMA ChainHolds ==
    ASSUME NEW n \in Nat \ {0}, conf.hash \in [Keys -> Nat], NEW S, NEW k \in Keys,
           NEW c, InChains(c, n, S)
    PROVE  k \in ToSet(c[Slot(k, n)]) <=> k \in S
  <1>1. Slot(k, n) \in 0 .. n - 1
    BY SlotIsBucket, Zenon
  <1> QED
    BY <1>1, Zenon DEF InChains

(* resize puts every stored key into the chain of its new bucket, once. *)
LEMMA ResizedChains ==
    ASSUME NEW n \in Nat \ {0}, conf.hash \in [Keys -> Nat],
           InOrder \in Seq(Keys), Distinct(InOrder)
    PROVE  InChains(Resized(n), n, ToSet(InOrder))
  <1> DEFINE s == InOrder
             N == Len(s)
             First(i) == {s[j] : j \in 1 .. i}
  <1>1. PICK a : Moves(a, s, n) /\ Resized(n) = a[N]
    BY ResizedSteps, Zenon
  <1>2. N \in Nat /\ DOMAIN s = 1 .. N /\ s \in Seq(Keys) /\ Distinct(s)
    OBVIOUS
  <1>3. First(N) = ToSet(s)
    BY <1>2, Zenon DEF ToSet
  <1> HIDE DEF s, N
  <1> DEFINE P(i) == InChains(a[i], n, First(i))
             Done == {i \in Nat : i <= N => P(i)}
  <1>4. P(0)
    <2>1. First(0) = {}
      OBVIOUS
    <2>2. a[0] = [b \in 0 .. n - 1 |-> <<>>]
      BY <1>1, Zenon DEF Moves
    <2>3. ToSet(<<>>) = {} /\ Distinct(<<>>) /\ <<>> \in Seq(Keys)
      BY DEF ToSet, Distinct
    <2> HIDE DEF First
    <2> QED
      BY <2>1, <2>2, <2>3, Zenon DEF InChains
  <1>5. ASSUME NEW m \in Nat, m + 1 <= N, P(m) PROVE P(m + 1)
    <2>1. m + 1 \in 1 .. N /\ m + 1 - 1 = m
      BY <1>2, <1>5
    <2>2. PICK k : k = s[m + 1]
      BY Zenon
    <2>3. k \in Keys
      BY <1>2, <2>1, <2>2
    <2>4. First(m + 1) = First(m) \cup {k}
      <3>1. \A j \in 1 .. (m + 1) : j \in 1 .. m \/ j = m + 1
        OBVIOUS
      <3>2. 1 .. m \subseteq 1 .. (m + 1) /\ m + 1 \in 1 .. (m + 1)
        OBVIOUS
      <3> QED
        BY <2>2, <3>1, <3>2, Zenon
    <2>5. k \notin First(m)
      <3>1. \A j \in 1 .. m : j \in DOMAIN s /\ j # m + 1
        BY <1>2, <2>1
      <3> QED
        BY <1>2, <2>1, <2>2, <3>1, Zenon DEF Distinct
    <2> HIDE DEF First
    <2>6. PICK c : c = a[m]
      BY Zenon
    <2>7. a[m + 1] = [c EXCEPT ![Slot(k, n)] = <<k>> \o @]
      <3>1. \A i \in 1 .. N : a[i] = [a[i - 1] EXCEPT ![Slot(s[i], n)] = <<s[i]>> \o @]
        BY <1>1, Zenon DEF Moves, N
      <3>2. PICK i \in 1 .. N : i = m + 1 /\ i - 1 = m
        BY <2>1
      <3>3. a[i] = [c EXCEPT ![Slot(k, n)] = <<k>> \o @]
        BY <3>1, <3>2, <2>2, <2>6, Zenon
      <3> QED
        BY <3>2, <3>3, Zenon
    <2>8. InChains(c, n, First(m))
      BY <1>5, <2>6, Zenon
    <2>9. PICK d : d = <<k>> \o c[Slot(k, n)]
      BY Zenon
    <2>10. a[m + 1] = [c EXCEPT ![Slot(k, n)] = d]
      BY <2>7, <2>9, Zenon
    <2>11. d = <<k>> \o c[Slot(k, n)] \/ d = Append(c[Slot(k, n)], k)
      BY <2>9, Zenon
    <2> HIDE <2>9
    <2>12. InChains([c EXCEPT ![Slot(k, n)] = d], n, First(m) \cup {k})
      BY <2>3, <2>5, <2>8, <2>11, KeyAdded, Zenon
    <2> QED
      BY <2>4, <2>10, <2>12, Zenon
  <1>6. Nat \subseteq Done
    <2> HIDE DEF P
    <2>1. 0 \in Done
      BY <1>4, Zenon
    <2>2. \A m \in Nat : m \in Done => m + 1 \in Done
      BY <1>2, <1>5
    <2> HIDE DEF Done
    <2> QED
      BY <2>1, <2>2, Induction, Zenon
  <1>7. P(N)
    <2> HIDE DEF P
    <2> QED
      BY <1>2, <1>6
  <1> QED
    BY <1>1, <1>3, <1>7, Zenon DEF s

-----------------------------------------------------------------------------
(* The rewriting thread. *)

(* What a kvpair and the file hold. *)
Pairs   == [val : Seq(Vals), positions : Seq(Nat), diff : BOOLEAN]
Records == [key : Keys, val : Seq(Vals), live : BOOLEAN]

(* The file, and kvpairs that hold the values of the table's. *)
Rewrites ==
    [db : Seq(Records),
     pair : {p \in [Stored -> Pairs] : \A k \in Stored : p[k].val = pair[k].val}]

(* What every step of a fold keeps, its result has. *)
LEMMA FoldStays ==
    ASSUME NEW n \in Nat, NEW V, NEW a, a[0] \in V,
           \A i \in 1 .. n : a[i - 1] \in V => a[i] \in V
    PROVE  a[n] \in V
  <1> DEFINE Done == {i \in Nat : i <= n => a[i] \in V}
  <1>1. 0 \in Done
    BY Zenon
  <1>2. ASSUME NEW i \in Nat, i \in Done PROVE i + 1 \in Done
    <2> SUFFICES ASSUME i + 1 <= n PROVE a[i + 1] \in V
      OBVIOUS
    <2>1. PICK j \in 1 .. n : j = i + 1
      OBVIOUS
    <2>2. j - 1 = i /\ a[i] \in V
      BY <1>2, <2>1
    <2>3. a[j] \in V
      BY <2>2, Zenon
    <2> QED
      BY <2>1, <2>3, Zenon
  <1> HIDE DEF Done
  <1>3. n \in Done
    BY <1>1, <1>2, Induction, Zenon
  <1> QED
    BY <1>3 DEF Done

(* A record at the end of the file. *)
LEMMA RecordAppended ==
    ASSUME NEW f \in Seq(Records), NEW k \in Keys, NEW v \in Seq(Vals)
    PROVE  /\ Append(f, Record(k, v)) \in Seq(Records)
           /\ <<Len(f) + 1>> \in Seq(Nat)
  <1>1. Record(k, v) \in Records
    BY Zenon DEF Record, Records
  <1>2. Len(f) + 1 \in Nat
    OBVIOUS
  <1>3. Append(f, Record(k, v)) \in Seq(Records)
    <2> HIDE DEF Records
    <2> QED
      BY <1>1
  <1> QED
    BY <1>2, <1>3

(* Writing a pair out keeps its value. *)
LEMMA DumpedKeeps ==
    ASSUME NEW st \in Rewrites, NEW k \in Stored, Stored \subseteq Keys,
           pair \in [Stored -> Pairs]
    PROVE  Dumped(st, k) \in Rewrites
  <1>1. CASE pair[k].val = <<Empty>> \/ pair[k].diff
    BY <1>1, Zenon DEF Dumped
  <1>2. CASE ~(pair[k].val = <<Empty>> \/ pair[k].diff)
    <2>1. PICK f : f = st.db
      BY Zenon
    <2>2. PICK p : p = st.pair
      BY Zenon
    <2>3. /\ f \in Seq(Records) /\ p \in [Stored -> Pairs]
          /\ \A x \in Stored : p[x].val = pair[x].val
      BY <2>1, <2>2, Zenon DEF Rewrites
    <2>4. k \in Keys /\ pair[k].val \in Seq(Vals)
      BY Zenon DEF Pairs
    <2>5. Append(f, Record(k, pair[k].val)) \in Seq(Records) /\ <<Len(f) + 1>> \in Seq(Nat)
      BY <2>3, <2>4, RecordAppended, Zenon
    <2>6. PICK q : q = [p EXCEPT ![k].positions = <<Len(f) + 1>>]
      BY Zenon
    <2>7. q \in [Stored -> Pairs] /\ \A x \in Stored : q[x].val = p[x].val
      BY <2>3, <2>5, <2>6, Zenon DEF Pairs
    <2>8. Dumped(st, k) = [db |-> Append(f, Record(k, pair[k].val)), pair |-> q]
      BY <1>2, <2>1, <2>2, <2>6, Zenon DEF Dumped
    <2> QED
      BY <2>3, <2>5, <2>7, <2>8 DEF Rewrites
  <1> QED
    BY <1>1, <1>2, Zenon

(* A chain is written out, the values stay. *)
LEMMA DumpKeeps ==
    ASSUME NEW s \in Seq(Keys), ToSet(s) \subseteq Stored, NEW st \in Rewrites, Stored \subseteq Keys, pair \in [Stored -> Pairs]
    PROVE  FoldLeft(Dumped, st, s) \in Rewrites
  <1> DEFINE N == Len(s)
             h == [p \in (1 .. N) \X Rewrites |-> Dumped(p[2], s[p[1]])]
             Fold(g) == g = [x \in SUBSET (DOMAIN s) |->
                               IF x = {} THEN st ELSE Dumped(g[x \ {Max(x)}], s[Max(x)])]
             G == CHOOSE g : Fold(g)
  <1>1. N \in Nat /\ DOMAIN s = 1 .. N
    OBVIOUS
  <1>2. FoldLeft(Dumped, st, s) = G[DOMAIN s]
    BY Zenon DEF FoldLeft, MapThenFoldSet
  <1>3. ASSUME NEW i \in 1 .. N, NEW v \in Rewrites PROVE Dumped(v, s[i]) \in Rewrites
    <2>1. s[i] \in Stored
      BY <1>1, Zenon DEF ToSet
    <2> QED
      BY <2>1, DumpedKeeps, Zenon
  <1> HIDE DEF N
  <1>4. h \in [(1 .. N) \X Rewrites -> Rewrites]
    BY <1>3, Zenon
  <1>5. \A i \in 1 .. N : \A v \in Rewrites : h[<<i, v>>] = Dumped(v, s[i])
    BY Zenon
  <1> HIDE DEF h
  <1>6. PICK f : IsFold(f, N, Rewrites, st, h)
    BY <1>1, <1>4, FoldExists, Zenon
  <1>7. ASSUME NEW x \in SUBSET (1 .. N), x # {}
        PROVE  f[x] = Dumped(f[x \ {Max(x)}], s[Max(x)])
    <2>1. Max(x) \in 1 .. N
      BY <1>1, <1>7, MaxIn, Zenon
    <2>2. f[x] = h[<<Max(x), f[x \ {Max(x)}]>>] /\ f[x \ {Max(x)}] \in Rewrites
      BY <1>6, <1>7, Zenon DEF IsFold
    <2> QED
      BY <1>5, <2>1, <2>2, Zenon
  <1>8. Fold(f)
    BY <1>1, <1>6, <1>7, Zenon DEF IsFold
  <1>9. Fold(G)
    <2> HIDE DEF Fold
    <2> QED
      BY <1>8, Zenon
  <1> DEFINE a == [i \in 0 .. N |-> G[1 .. i]]
  <1> HIDE DEF G
  <1>10. a[0] \in Rewrites
    <2>1. 1 .. 0 = {} /\ 0 \in 0 .. N
      BY <1>1
    <2> QED
      BY <1>9, <2>1, Zenon
  <1>11. ASSUME NEW i \in 1 .. N, a[i - 1] \in Rewrites PROVE a[i] \in Rewrites
    <2>1. /\ 1 .. i \in SUBSET (1 .. N) /\ 1 .. i # {} /\ Max(1 .. i) = i
          /\ (1 .. i) \ {i} = 1 .. (i - 1)
      BY <1>1, FirstNumbers, Zenon
    <2>2. G[1 .. i] = Dumped(G[1 .. (i - 1)], s[i])
      BY <1>1, <1>9, <2>1, Zenon
    <2>3. i \in 0 .. N /\ i - 1 \in 0 .. N
      BY <1>1
    <2>4. a[i] = Dumped(a[i - 1], s[i])
      BY <2>2, <2>3, Zenon
    <2> QED
      BY <1>3, <1>11, <2>4, Zenon
  <1>12. a[N] = G[DOMAIN s]
    BY <1>1
  <1> HIDE DEF a
  <1>13. a[N] \in Rewrites
    BY <1>1, <1>10, <1>11, FoldStays, Zenon
  <1> QED
    BY <1>2, <1>12, <1>13, Zenon

-----------------------------------------------------------------------------
(* The invariant. *)

(* The chains hold the stored keys, each once and where get looks for it;  *)
(* numEl, which resize resets, never exceeds their number.                 *)
TableInv ==
    /\ conf \in Setups
    /\ size \in Nat \ {0} /\ size >= conf.initSize
    /\ Stored \subseteq Keys /\ IsFiniteSet(Stored)
    /\ InChains(kvpairs, size, Stored)
    /\ pair \in [Stored -> Pairs]
    /\ numEl \in Int /\ numEl <= Cardinality(Stored)

(* What is left to write is of a stored key; the rewriting thread has a    *)
(* place in the table exactly while it runs; the file holds records.       *)
FileInv ==
    /\ nRem \in Nat /\ restarts \in Nat
    /\ todo \in {"none", "write", "append"}
    /\ todo # "none" => call.key \in Stored
    /\ todo = "append" => call.val \in Vals
    /\ cursor \in Nat \cup {Off, Start}
    /\ rewriting \in BOOLEAN /\ (rewriting <=> cursor # Off)
    /\ db \in Seq(Records) /\ disk \in Seq(Records)

StoreInv == TableInv /\ FileInv

(* What the server was started with. *)
LEMMA SetupFacts ==
    ASSUME conf \in Setups
    PROVE  /\ conf.hash \in [Keys -> Nat] /\ conf.initSize \in Nat \ {0}
           /\ conf.resizePercent \in 0 .. 100
           /\ conf.persistent \in BOOLEAN /\ conf.keys \subseteq Keys
  <1>1. conf \in Setup
    BY NoVoHTAssumption, Zenon
  <1> QED
    BY <1>1, Zenon DEF Setup

(* A request does not change the hash. *)
LEMMA ChainsLater ==
    ASSUME conf' = conf, InChains(kvpairs', size', DOMAIN pair')
    PROVE  InChains(kvpairs, size, Stored)'
  BY Zenon DEF InChains, Slot, Stored

(* What a record is misread as is a record. *)
LEMMA MisreadIsRecord ==
    ASSUME NEW r \in Records
    PROVE  Misread(r) \subseteq Records
<1> SUFFICES ASSUME NEW x \in Misread(r)
             PROVE  x \in Records
  BY Zenon
<1>1. PICK v \in Seq(Vals) : v = r.val
  BY DEF Records
<1>2. PICK k \in Keys, l \in BOOLEAN : x = [key |-> k, val |-> r.val, live |-> l]
  BY SMT DEF Misread
<1>3. x = [key |-> k, val |-> v, live |-> l]
  BY <1>1, <1>2, Zenon
<1> QED
  BY <1>3 DEF Records

(* mark keeps the file well-formed, at its own positions and at stray ones. *)
LEMMA MarkKeeps ==
    ASSUME NEW plist, Mark(plist), db \in Seq(Records), disk \in Seq(Records)
    PROVE  db' \in Seq(Records) /\ disk' \in Seq(Records)
  <1>1. CASE rewriting \/ plist = <<>> \/ ~conf.persistent
    BY <1>1, Zenon DEF Mark, file
  <1>2. CASE ~(rewriting \/ plist = <<>> \/ ~conf.persistent)
    <2>1. disk' = disk
      BY <1>2, Zenon DEF Mark
    <2>2. Len(db) \in Nat /\ DOMAIN db = 1 .. Len(db) /\ \A i \in 1 .. Len(db) : db[i] \in Records
      OBVIOUS
    <2>3. CASE torn \/ Stray \in ToSet(plist)
      <3>1. PICK S : S = UNION {Misread(r) : r \in ToSet(db)}
        BY Zenon
      <3>2. db' \in [DOMAIN db -> S] /\ \A i \in DOMAIN db' : db'[i] \in Misread(db[i])
        BY <1>2, <2>3, <3>1, Zenon DEF Mark
      <3>3. DOMAIN db' = 1 .. Len(db) /\ \A i \in 1 .. Len(db) : db'[i] \in Records
        BY <2>2, <3>2, MisreadIsRecord, Zenon
      <3>4. db' \in [1 .. Len(db) -> Records]
        BY <3>2, <3>3, Zenon
      <3> QED
        BY <2>1, <2>2, <3>4
    <2>4. CASE ~(torn \/ Stray \in ToSet(plist))
      <3>1. db' = Marked(db, plist)
        BY <1>2, <2>4, Zenon DEF Mark
      <3>2. \A x \in Records : [x EXCEPT !.live = FALSE] \in Records
        BY Zenon DEF Records
      <3>3. db' \in [1 .. Len(db) -> Records]
        BY <2>2, <3>1, <3>2, Zenon DEF Marked
      <3> QED
        BY <2>1, <2>2, <3>3
    <2> QED
      BY <2>3, <2>4, Zenon
  <1> QED
    BY <1>1, <1>2, Zenon

(* write and writeAppend keep the file well-formed. *)
LEMMA WrittenKeeps ==
    ASSUME NEW k \in Keys, NEW v \in Seq(Vals), Written(k, v),
           db \in Seq(Records), disk \in Seq(Records)
    PROVE  db' \in Seq(Records) /\ disk' \in Seq(Records)
  <1>1. CASE rewriting
    BY <1>1, Zenon DEF Written, file
  <1>2. CASE ~rewriting
    <2>1. Record(k, v) \in Records
      BY Zenon DEF Record, Records
    <2>2. PICK r \in Records : db' = Append(db, r)
      BY <1>2, <2>1, MisreadIsRecord, Zenon DEF Written
    <2>3. disk' = db'
      BY <1>2, Zenon DEF Written
    <2>4. db' \in Seq(Records)
      <3> HIDE DEF Records
      <3> QED
        BY <2>2
    <2> QED
      BY <2>3, <2>4, Zenon
  <1> QED
    BY <1>1, <1>2, Zenon

(* The place of the next record is a number. *)
LEMMA EndPositionIsNat ==
    ASSUME db \in Seq(Records)
    PROVE  EndPosition \in Nat /\ <<EndPosition>> \in Seq(Nat)
  <1>1. Len(db) \in Nat
    OBVIOUS
  <1> QED
    BY <1>1 DEF EndPosition, Stray

(* What a request stores has a kvpair, and only it changes. *)
LEMMA PairAdded ==
    ASSUME NEW k, NEW v \in Vals, NEW diff \in BOOLEAN, NewPair(k, v, diff),
           pair \in [Stored -> Pairs]
    PROVE  /\ DOMAIN pair' = Stored \cup {k} /\ pair' \in [Stored \cup {k} -> Pairs]
           /\ pair'[k].val = <<v>>
           /\ \A x \in Stored \ {k} : pair'[x].val = pair[x].val
  <1>1. <<v>> \in Seq(Vals) /\ <<>> \in Seq(Nat)
    OBVIOUS
  <1>2. [val |-> <<v>>, positions |-> <<>>, diff |-> diff] \in Pairs
    BY <1>1, Zenon DEF Pairs
  <1> QED
    BY <1>2, Zenon DEF NewPair

(* The first half of put, for a key that is stored and for a new one, in   *)
(* the table as it is or resized.                                          *)
LEMMA PutTable ==
    ASSUME TableInv, NEW k \in conf.keys, NEW v \in Vals, Put(k, v)
    PROVE  /\ TableInv' /\ Stored' = Stored \cup {k}
           /\ pair'[k].val = <<v>>
           /\ \A x \in Stored \ {k} : pair'[x].val = pair[x].val
  <1>1. /\ conf.hash \in [Keys -> Nat] /\ k \in Keys /\ conf' = conf
    BY SetupFacts, Zenon DEF TableInv, Put, Request
  <1>2. PICK n : n = IF Full THEN size * 2 ELSE size
    BY Zenon
  <1>3. PICK c : c = IF Full THEN Resized(n) ELSE kvpairs
    BY Zenon
  <1>4. PICK m : m = IF Full THEN 0 ELSE numEl
    BY Zenon
  <1>5. n \in Nat \ {0} /\ n >= conf.initSize /\ m \in Int /\ m <= Cardinality(Stored)
    <2>1. Cardinality(Stored) \in Nat
      BY FS_CardinalityType, Zenon DEF TableInv
    <2>2. conf.initSize \in Nat
      BY SetupFacts, Zenon DEF TableInv
    <2> QED
      BY <1>2, <1>4, <2>1, <2>2 DEF TableInv
  <1>6. InChains(c, n, Stored)
    <2>1. CASE Full
      <3>1. InOrder \in Seq(Keys) /\ Distinct(InOrder) /\ ToSet(InOrder) = Stored
        BY <1>1, InOrderElements, Zenon DEF TableInv
      <3>2. InChains(Resized(n), n, ToSet(InOrder))
        BY <1>1, <1>5, <3>1, ResizedChains, Zenon
      <3> QED
        BY <1>3, <2>1, <3>1, <3>2, Zenon
    <2>2. CASE ~Full
      BY <1>2, <1>3, <2>2, Zenon DEF TableInv
    <2> QED
      BY <2>1, <2>2, Zenon
  <1>7. k \in ToSet(c[Slot(k, n)]) <=> k \in Stored
    BY <1>1, <1>5, <1>6, ChainHolds, Zenon
  <1>8. /\ size' = n
        /\ IF k \in ToSet(c[Slot(k, n)])
           THEN kvpairs' = c /\ numEl' = m /\ NewVal(k, v)
           ELSE /\ kvpairs' = [c EXCEPT ![Slot(k, n)] = Append(@, k)]
                /\ numEl' = m + 1
                /\ \E diff \in BOOLEAN : NewPair(k, v, diff)
    BY <1>2, <1>3, <1>4, Zenon DEF Put
  <1>9. CASE k \in Stored
    <2>1. kvpairs' = c /\ numEl' = m /\ pair' = [pair EXCEPT ![k].val = <<v>>]
      BY <1>7, <1>8, <1>9, Zenon DEF NewVal
    <2>2. <<v>> \in Seq(Vals)
      OBVIOUS
    <2>3. /\ DOMAIN pair' = Stored /\ pair' \in [Stored -> Pairs] /\ pair'[k].val = <<v>>
          /\ \A x \in Stored \ {k} : pair'[x].val = pair[x].val
      BY <1>9, <2>1, <2>2, Zenon DEF TableInv, Pairs, Stored
    <2>4. InChains(kvpairs, size, Stored)'
      BY <1>1, <1>6, <1>8, <2>1, <2>3, ChainsLater, Zenon
    <2>5. Stored' = Stored /\ Stored = Stored \cup {k}
      BY <1>9, <2>3, Zenon DEF Stored
    <2>6. TableInv'
      BY <1>1, <1>5, <1>8, <2>1, <2>3, <2>4, <2>5, Zenon DEF TableInv
    <2> QED
      BY <2>3, <2>5, <2>6, Zenon
  <1>10. CASE k \notin Stored
    <2>1. PICK diff \in BOOLEAN : NewPair(k, v, diff)
      BY <1>7, <1>8, <1>10, Zenon
    <2>2. /\ DOMAIN pair' = Stored \cup {k} /\ pair' \in [Stored \cup {k} -> Pairs]
          /\ pair'[k].val = <<v>>
          /\ \A x \in Stored \ {k} : pair'[x].val = pair[x].val
      BY <2>1, PairAdded, Zenon DEF TableInv
    <2>3. PICK d : d = Append(c[Slot(k, n)], k)
      BY Zenon
    <2>4. kvpairs' = [c EXCEPT ![Slot(k, n)] = d] /\ numEl' = m + 1
      BY <1>7, <1>8, <1>10, <2>3, Zenon
    <2>5. InChains([c EXCEPT ![Slot(k, n)] = d], n, Stored \cup {k})
      BY <1>1, <1>5, <1>6, <1>10, <2>3, KeyAdded, Zenon
    <2>6. InChains(kvpairs, size, Stored)'
      BY <1>1, <1>8, <2>2, <2>4, <2>5, ChainsLater, Zenon
    <2>7. Stored' = Stored \cup {k}
      BY <2>2, Zenon DEF Stored
    <2>8. /\ IsFiniteSet(Stored \cup {k}) /\ Cardinality(Stored) \in Nat
          /\ Cardinality(Stored \cup {k}) = Cardinality(Stored) + 1
      BY <1>10, FS_AddElement, FS_CardinalityType, Zenon DEF TableInv
    <2>9. TableInv'
      BY <1>1, <1>5, <1>8, <2>2, <2>4, <2>6, <2>7, <2>8 DEF TableInv
    <2> QED
      BY <2>2, <2>7, <2>9, Zenon
  <1> QED
    BY <1>9, <1>10, Zenon

(* The first half of append, for a key that is stored and for a new one. *)
LEMMA ExtendTable ==
    ASSUME TableInv, NEW k \in conf.keys, NEW v \in Vals, Extend(k, v)
    PROVE  /\ TableInv' /\ Stored' = Stored \cup {k}
           /\ pair'[k].val = IF k \in Stored THEN Append(pair[k].val, v) ELSE <<v>>
           /\ \A x \in Stored \ {k} : pair'[x].val = pair[x].val
  <1>1. /\ conf.hash \in [Keys -> Nat] /\ k \in Keys /\ conf' = conf
        /\ size \in Nat \ {0} /\ InChains(kvpairs, size, Stored)
    BY SetupFacts, Zenon DEF TableInv, Extend, Request
  <1>2. k \in ToSet(kvpairs[Slot(k, size)]) <=> k \in Stored
    BY <1>1, ChainHolds, Zenon
  <1>3. CASE k \in Stored
    <2>1. /\ pair' = [pair EXCEPT ![k].val = Append(@, v)]
          /\ kvpairs' = kvpairs /\ size' = size /\ numEl' = numEl
      BY <1>2, <1>3, Zenon DEF Extend
    <2>2. PICK w : w = Append(pair[k].val, v)
      BY Zenon
    <2>3. w \in Seq(Vals)
      <3>1. pair[k].val \in Seq(Vals)
        BY <1>3, Zenon DEF TableInv, Pairs
      <3> QED
        BY <2>2, <3>1
    <2>4. pair' = [pair EXCEPT ![k].val = w]
      BY <2>1, <2>2, Zenon
    <2>5. /\ DOMAIN pair' = Stored /\ pair' \in [Stored -> Pairs] /\ pair'[k].val = w
          /\ \A x \in Stored \ {k} : pair'[x].val = pair[x].val
      BY <1>3, <2>3, <2>4, Zenon DEF TableInv, Pairs, Stored
    <2>6. InChains(kvpairs, size, Stored)'
      BY <1>1, <2>1, <2>5, ChainsLater, Zenon
    <2>7. Stored' = Stored /\ Stored = Stored \cup {k}
      BY <1>3, <2>5, Zenon DEF Stored
    <2>8. TableInv'
      BY <1>1, <2>1, <2>5, <2>6, <2>7, Zenon DEF TableInv
    <2> QED
      BY <1>3, <2>2, <2>5, <2>7, <2>8, Zenon
  <1>4. CASE k \notin Stored
    <2>1. /\ kvpairs' = [kvpairs EXCEPT ![Slot(k, size)] = <<k>> \o @]
          /\ numEl' = numEl + 1 /\ size' = size
          /\ \E diff \in BOOLEAN : NewPair(k, v, diff)
      BY <1>2, <1>4, Zenon DEF Extend
    <2>2. PICK diff \in BOOLEAN : NewPair(k, v, diff)
      BY <2>1, Zenon
    <2>3. /\ DOMAIN pair' = Stored \cup {k} /\ pair' \in [Stored \cup {k} -> Pairs]
          /\ pair'[k].val = <<v>>
          /\ \A x \in Stored \ {k} : pair'[x].val = pair[x].val
      BY <2>2, PairAdded, Zenon DEF TableInv
    <2>4. PICK d : d = <<k>> \o kvpairs[Slot(k, size)]
      BY Zenon
    <2>5. kvpairs' = [kvpairs EXCEPT ![Slot(k, size)] = d]
      BY <2>1, <2>4, Zenon
    <2>6. InChains([kvpairs EXCEPT ![Slot(k, size)] = d], size, Stored \cup {k})
      BY <1>1, <1>4, <2>4, KeyAdded, Zenon
    <2>7. InChains(kvpairs, size, Stored)'
      BY <1>1, <2>1, <2>3, <2>5, <2>6, ChainsLater, Zenon
    <2>8. Stored' = Stored \cup {k}
      BY <2>3, Zenon DEF Stored
    <2>9. /\ IsFiniteSet(Stored \cup {k}) /\ Cardinality(Stored) \in Nat
          /\ Cardinality(Stored \cup {k}) = Cardinality(Stored) + 1
      BY <1>4, FS_AddElement, FS_CardinalityType, Zenon DEF TableInv
    <2>10. TableInv'
      BY <1>1, <2>1, <2>3, <2>7, <2>8, <2>9 DEF TableInv
    <2> QED
      BY <1>4, <2>3, <2>8, <2>10, Zenon
  <1> QED
    BY <1>3, <1>4, Zenon

(* remove, for a key that is stored and for one that is not. *)
LEMMA DeleteTable ==
    ASSUME TableInv, NEW k \in conf.keys, Delete(k)
    PROVE  /\ TableInv' /\ Stored' = Stored \ {k}
           /\ \A x \in Stored \ {k} : pair'[x] = pair[x]
  <1>1. /\ conf.hash \in [Keys -> Nat] /\ k \in Keys /\ conf' = conf
        /\ size \in Nat \ {0} /\ InChains(kvpairs, size, Stored)
    BY SetupFacts, Zenon DEF TableInv, Delete, Request
  <1>2. k \in ToSet(kvpairs[Slot(k, size)]) <=> k \in Stored
    BY <1>1, ChainHolds, Zenon
  <1>3. CASE k \notin Stored
    <2>1. size' = size /\ kvpairs' = kvpairs /\ pair' = pair /\ numEl' = numEl
      BY <1>2, <1>3, Zenon DEF Delete, table
    <2>2. Stored' = Stored /\ Stored = Stored \ {k}
      BY <1>3, <2>1, Zenon DEF Stored
    <2>3. InChains(kvpairs, size, Stored)'
      BY <1>1, <2>1, ChainsLater, Zenon DEF Stored
    <2>4. TableInv'
      BY <1>1, <2>1, <2>2, <2>3, Zenon DEF TableInv
    <2> QED
      BY <2>1, <2>2, <2>4, Zenon
  <1>4. CASE k \in Stored
    <2>1. /\ kvpairs' = [kvpairs EXCEPT ![Slot(k, size)] = RemoveFirst(@, k)]
          /\ pair' = [x \in Stored \ {k} |-> pair[x]]
          /\ numEl' = numEl - 1 /\ size' = size
      BY <1>2, <1>4, Zenon DEF Delete
    <2>2. PICK d : d = RemoveFirst(kvpairs[Slot(k, size)], k)
      BY Zenon
    <2>3. kvpairs' = [kvpairs EXCEPT ![Slot(k, size)] = d]
      BY <2>1, <2>2, Zenon
    <2>4. Stored \in SUBSET Keys
      BY Zenon DEF TableInv
    <2>5. InChains([kvpairs EXCEPT ![Slot(k, size)] = d], size, Stored \ {k})
      BY <1>1, <1>4, <2>2, <2>4, KeyRemoved, Zenon
    <2>6. /\ DOMAIN pair' = Stored \ {k} /\ pair' \in [Stored \ {k} -> Pairs]
          /\ \A x \in Stored \ {k} : pair'[x] = pair[x]
      BY <2>1, Zenon DEF TableInv
    <2>7. InChains(kvpairs, size, Stored)'
      BY <1>1, <2>1, <2>3, <2>5, <2>6, ChainsLater, Zenon
    <2>8. Stored' = Stored \ {k}
      BY <2>6, Zenon DEF Stored
    <2>9. /\ IsFiniteSet(Stored \ {k}) /\ Cardinality(Stored) \in Nat
          /\ Cardinality(Stored \ {k}) = Cardinality(Stored) - 1
      BY <1>4, FS_RemoveElement, FS_CardinalityType, Zenon DEF TableInv
    <2>10. TableInv'
      BY <1>1, <2>1, <2>4, <2>6, <2>7, <2>8, <2>9 DEF TableInv
    <2> QED
      BY <2>6, <2>8, <2>10, Zenon
  <1> QED
    BY <1>3, <1>4, Zenon

(* Where a step changes kvpairs' positions and diffs only, the table stays *)
(* as it is.                                                               *)
LEMMA ValuesKept ==
    ASSUME TableInv, UNCHANGED <<conf, size, kvpairs, numEl>>,
           pair' \in [Stored -> Pairs]
    PROVE  TableInv' /\ Stored' = Stored
  <1>1. Stored' = Stored
    BY Zenon DEF Stored
  <1>2. InChains(kvpairs, size, Stored)'
    BY ChainsLater, Zenon DEF TableInv
  <1> QED
    BY <1>1, <1>2, Zenon DEF TableInv

(* What put and append leave to be written, and the files. *)
LEMMA PutFile ==
    ASSUME TableInv, FileInv, NEW k \in conf.keys, NEW v \in Vals, Put(k, v)
    PROVE  FileInv'
  <1>1. /\ todo' = IF conf.persistent THEN "write" ELSE "none"
        /\ call' = Call("put", k, v)
        /\ UNCHANGED <<nRem, rewriting, cursor, restarts>>
    BY Zenon DEF Put, Later, Request
  <1>2. Stored' = Stored \cup {k}
    BY PutTable, Zenon
  <1>3. (\E plist : Mark(plist)) \/ UNCHANGED file
    BY Zenon DEF Put
  <1>4. db' \in Seq(Records) /\ disk' \in Seq(Records)
    BY <1>3, MarkKeeps, Zenon DEF FileInv, file
  <1>5. call'.key = k /\ todo' # "append"
    BY <1>1, Zenon DEF Call
  <1>6. todo' \in {"none", "write", "append"}
    BY <1>1, Zenon
  <1> QED
    BY <1>1, <1>2, <1>4, <1>5, <1>6, Zenon DEF FileInv

(* append hands its piece to the second half, and leaves the files alone. *)
LEMMA ExtendFile ==
    ASSUME TableInv, FileInv, NEW k \in conf.keys, NEW v \in Vals, Extend(k, v)
    PROVE  FileInv'
  <1>1. /\ todo' \in {"none", "write", "append"}
        /\ call' = Call("append", k, v)
        /\ UNCHANGED <<nRem, rewriting, cursor, db, disk, restarts>>
    BY Zenon DEF Extend, Later, Request, file
  <1>2. Stored' = Stored \cup {k}
    BY ExtendTable, Zenon
  <1>3. call'.key = k /\ call'.val = v
    BY <1>1, Zenon DEF Call
  <1> QED
    BY <1>1, <1>2, <1>3, Zenon DEF FileInv

(* remove marks the records of the chain's first pair. *)
LEMMA DeleteFile ==
    ASSUME TableInv, FileInv, NEW k \in conf.keys, Delete(k)
    PROVE  FileInv'
  <1>1. /\ conf.hash \in [Keys -> Nat] /\ k \in Keys /\ conf.persistent \in BOOLEAN
        /\ size \in Nat \ {0} /\ InChains(kvpairs, size, Stored)
        /\ pair \in [Stored -> Pairs]
    BY SetupFacts, Zenon DEF TableInv
  <1>2. todo' = "none" /\ restarts' = restarts
    BY Zenon DEF Delete, Request
  <1>3. CASE k \notin ToSet(kvpairs[Slot(k, size)])
    <2>1. UNCHANGED <<nRem, rewriting, cursor, db, disk>>
      BY <1>3, Zenon DEF Delete, file
    <2> QED
      BY <1>2, <2>1, Zenon DEF FileInv
  <1>4. CASE k \in ToSet(kvpairs[Slot(k, size)])
    <2>1. /\ Mark(ToRemove(k))
          /\ IF nRem + 1 = conf.magicNumber
             THEN WriteFile
             ELSE nRem' = nRem + 1 /\ UNCHANGED <<rewriting, cursor>>
      BY <1>4, Zenon DEF Delete
    <2>3. db' \in Seq(Records) /\ disk' \in Seq(Records)
      BY <2>1, MarkKeeps, Zenon DEF FileInv
    <2>4. /\ nRem' \in Nat /\ cursor' \in Nat \cup {Off, Start} /\ rewriting' \in BOOLEAN
          /\ rewriting' <=> cursor' # Off
      <3>1. nRem' \in {nRem + 1, 0}
        BY <2>1, Zenon DEF WriteFile
      <3>2. UNCHANGED <<rewriting, cursor>> \/ (rewriting' = TRUE /\ cursor' = Start)
        BY <2>1, Zenon DEF WriteFile
      <3>3. Start # Off
        BY DEF Start, Off
      <3>4. nRem' \in Nat
        BY <3>1 DEF FileInv
      <3>5. CASE UNCHANGED <<rewriting, cursor>>
        BY <3>4, <3>5, Zenon DEF FileInv
      <3>6. CASE rewriting' = TRUE /\ cursor' = Start
        BY <3>3, <3>4, <3>6, Zenon
      <3> QED
        BY <3>2, <3>5, <3>6, Zenon
    <2> QED
      BY <1>2, <2>3, <2>4, Zenon DEF FileInv
  <1> QED
    BY <1>3, <1>4, Zenon

(* The second half of put and append. *)
LEMMA WritePairKeeps ==
    ASSUME TableInv, FileInv, WritePair
    PROVE  TableInv' /\ FileInv' /\ Stored' = Stored
           /\ \A x \in Stored : pair'[x].val = pair[x].val
  <1>1. PICK k : k = call.key
    BY Zenon
  <1>2. k \in Stored /\ k \in Keys /\ pair \in [Stored -> Pairs] /\ pair[k].val \in Seq(Vals)
    BY <1>1, Zenon DEF WritePair, FileInv, TableInv, Pairs
  <1>3. db' \in Seq(Records) /\ disk' \in Seq(Records)
    BY <1>1, <1>2, WrittenKeeps, Zenon DEF WritePair, FileInv
  <1>4. PICK w : w = <<EndPosition>>
    BY Zenon
  <1>5. w \in Seq(Nat)
    BY <1>4, EndPositionIsNat, Zenon DEF FileInv
  <1>6. pair' = [pair EXCEPT ![k].positions = w]
    BY <1>1, <1>4, Zenon DEF WritePair
  <1>7. pair' \in [Stored -> Pairs] /\ \A x \in Stored : pair'[x].val = pair[x].val
    BY <1>2, <1>5, <1>6, Zenon DEF Pairs
  <1>8. TableInv' /\ Stored' = Stored
    BY <1>7, ValuesKept, Zenon DEF WritePair
  <1>9. FileInv'
    BY <1>3, Zenon DEF FileInv, WritePair
  <1> QED
    BY <1>7, <1>8, <1>9, Zenon

(* writeAppend: the place of the new record goes in front of the others. *)
LEMMA WriteAppendKeeps ==
    ASSUME TableInv, FileInv, WriteAppend
    PROVE  TableInv' /\ FileInv' /\ Stored' = Stored
           /\ \A x \in Stored : pair'[x].val = pair[x].val
  <1>1. PICK k : k = call.key
    BY Zenon
  <1>2. k \in Stored /\ k \in Keys /\ pair \in [Stored -> Pairs]
    BY <1>1, Zenon DEF WriteAppend, FileInv, TableInv
  <1>3. <<call.val>> \in Seq(Vals)
    BY DEF WriteAppend, FileInv
  <1>4. db' \in Seq(Records) /\ disk' \in Seq(Records)
    BY <1>1, <1>2, <1>3, WrittenKeeps, Zenon DEF WriteAppend, FileInv
  <1>5. PICK w : w = <<EndPosition>> \o pair[k].positions
    BY Zenon
  <1>6. w \in Seq(Nat)
    <2>1. <<EndPosition>> \in Seq(Nat) /\ pair[k].positions \in Seq(Nat)
      BY <1>2, EndPositionIsNat, Zenon DEF FileInv, Pairs
    <2> QED
      BY <1>5, <2>1
  <1>7. pair' = [pair EXCEPT ![k].positions = w]
    BY <1>1, <1>5, Zenon DEF WriteAppend
  <1>8. pair' \in [Stored -> Pairs] /\ \A x \in Stored : pair'[x].val = pair[x].val
    BY <1>2, <1>6, <1>7, Zenon DEF Pairs
  <1>9. TableInv' /\ Stored' = Stored
    BY <1>8, ValuesKept, Zenon DEF WriteAppend
  <1>10. FileInv'
    BY <1>4, Zenon DEF FileInv, WriteAppend
  <1> QED
    BY <1>8, <1>9, <1>10, Zenon

(* The rewriting thread dumps one bucket. *)
LEMMA DumpStep ==
    ASSUME TableInv, FileInv, Dump
    PROVE  TableInv' /\ FileInv' /\ Stored' = Stored
           /\ \A x \in Stored : pair'[x].val = pair[x].val
  <1>1. PICK s : s = kvpairs[cursor]
    BY Zenon
  <1>2. PICK st : st = [db |-> db, pair |-> pair]
    BY Zenon
  <1>3. s \in Seq(Keys) /\ ToSet(s) \subseteq Stored
    BY <1>1, Zenon DEF Dump, TableInv, InChains
  <1>4. st \in Rewrites
    BY <1>2, Zenon DEF Rewrites, TableInv, FileInv
  <1>5. PICK d : d = FoldLeft(Dumped, st, s)
    BY Zenon
  <1>6. d \in Rewrites
    BY <1>3, <1>4, <1>5, DumpKeeps, Zenon DEF TableInv
  <1>7. db' = d.db /\ pair' = d.pair
    BY <1>1, <1>2, <1>5, Zenon DEF Dump
  <1>8. /\ db' \in Seq(Records) /\ pair' \in [Stored -> Pairs]
        /\ \A x \in Stored : pair'[x].val = pair[x].val
    BY <1>6, <1>7, Zenon DEF Rewrites
  <1>9. TableInv' /\ Stored' = Stored
    BY <1>8, ValuesKept, Zenon DEF Dump
  <1>10. /\ cursor \in 0 .. size - 1 /\ cursor' = cursor + 1 /\ size \in Nat
         /\ UNCHANGED <<nRem, todo, call, rewriting, disk, restarts>>
    BY Zenon DEF Dump, TableInv
  <1>11. cursor' \in Nat /\ cursor' # Off /\ cursor # Off
    BY <1>10 DEF Off
  <1>12. FileInv'
    BY <1>8, <1>9, <1>10, <1>11, Zenon DEF FileInv
  <1> QED
    BY <1>8, <1>9, <1>12, Zenon

(* The rewriting thread ends. *)
LEMMA MergeStep ==
    ASSUME TableInv, FileInv, Merge
    PROVE  TableInv' /\ FileInv' /\ Stored' = Stored
           /\ \A x \in Stored : pair'[x].val = pair[x].val
  <1>1. /\ UNCHANGED <<conf, size, kvpairs, numEl, pair>>
        /\ UNCHANGED <<nRem, todo, call, db, disk, restarts>>
        /\ rewriting' = FALSE /\ cursor' = Off
    BY Zenon DEF Merge, table, file
  <1>2. TableInv' /\ Stored' = Stored
    BY <1>1, ValuesKept, Zenon DEF TableInv
  <1>3. FileInv'
    BY <1>1, <1>2, Zenon DEF FileInv
  <1> QED
    BY <1>1, <1>2, <1>3, Zenon

(* The rewriting thread empties the file: the positions are stray, the     *)
(* values stay.                                                            *)
LEMMA TruncateStep ==
    ASSUME TableInv, FileInv, Truncate
    PROVE  TableInv' /\ FileInv' /\ Stored' = Stored
           /\ \A x \in Stored : pair'[x].val = pair[x].val
  <1>1. /\ UNCHANGED <<conf, size, kvpairs, numEl>>
        /\ UNCHANGED <<nRem, todo, call, rewriting, restarts>>
        /\ cursor = Start /\ cursor' = 0 /\ db' = <<>> /\ disk' = <<>>
        /\ pair' = [k \in Stored |-> [pair[k] EXCEPT !.positions = Strayed(@)]]
    BY Zenon DEF Truncate
  <1>2. \A plist \in Seq(Nat) : Strayed(plist) \in Seq(Nat)
    <2> SUFFICES ASSUME NEW plist \in Seq(Nat) PROVE Strayed(plist) \in Seq(Nat)
      OBVIOUS
    <2>1. Len(plist) \in Nat /\ DOMAIN plist = 1 .. Len(plist) /\ Stray \in Nat
      BY DEF Stray
    <2>2. Strayed(plist) \in [1 .. Len(plist) -> Nat]
      BY <2>1, Zenon DEF Strayed
    <2> QED
      BY <2>1, <2>2
  <1>3. pair' \in [Stored -> Pairs] /\ \A x \in Stored : pair'[x].val = pair[x].val
    <2>1. pair \in [Stored -> Pairs]
      BY Zenon DEF TableInv
    <2>2. ASSUME NEW p \in Pairs
          PROVE  /\ [p EXCEPT !.positions = Strayed(@)] \in Pairs
                 /\ [p EXCEPT !.positions = Strayed(@)].val = p.val
      BY <1>2, <2>2, Zenon DEF Pairs
    <2> QED
      BY <1>1, <2>1, <2>2, Zenon
  <1>4. TableInv' /\ Stored' = Stored
    BY <1>1, <1>3, ValuesKept, Zenon DEF TableInv
  <1>5. Start # Off /\ 0 # Off /\ 0 \in Nat /\ <<>> \in Seq(Records)
    BY DEF Start, Off
  <1>6. FileInv'
    BY <1>1, <1>4, <1>5, Zenon DEF FileInv
  <1> QED
    BY <1>3, <1>4, <1>6, Zenon

(* stdio writes its buffer out. *)
LEMMA FlushStep ==
    ASSUME TableInv, FileInv, Flush
    PROVE  TableInv' /\ FileInv' /\ Stored' = Stored
           /\ \A x \in Stored : pair'[x].val = pair[x].val
  <1>1. /\ UNCHANGED <<conf, size, kvpairs, numEl, pair>>
        /\ UNCHANGED <<nRem, todo, call, rewriting, cursor, db, restarts>> /\ disk' = db
    BY Zenon DEF Flush, table
  <1>2. TableInv' /\ Stored' = Stored
    BY <1>1, ValuesKept, Zenon DEF TableInv
  <1>3. FileInv'
    BY <1>1, <1>2, Zenon DEF FileInv
  <1> QED
    BY <1>1, <1>2, <1>3, Zenon

(* readFile puts back one record, or none. *)
LEMMA RecoveredOne ==
    ASSUME NEW f \in Seq(Records)
    PROVE  Recovered(f) = <<>> \/ \E r \in Records : Recovered(f) = <<r>>
  <1> DEFINE I == {i \in 1 .. Len(f) : f[i].live}
  <1>1. CASE I = {}
    <2>1. SelectInSeq(f, LAMBDA r : r.live) = 0
      BY <1>1, Zenon DEF SelectInSeq
    <2> QED
      BY <2>1, Zenon DEF Recovered
  <1>2. CASE I # {}
    <2>1. SelectInSeq(f, LAMBDA r : r.live) = Min(I)
      BY <1>2, Zenon DEF SelectInSeq
    <2>2. I \in SUBSET Nat /\ I \subseteq 1 .. Len(f)
      OBVIOUS
    <2>3. \E m \in I : \A n \in I : m <= n
      <3> HIDE DEF I
      <3> QED
        BY <1>2, <2>2, LeastNumber, Zenon
    <2>4. Min(I) \in I
      <3> HIDE DEF I
      <3> QED
        BY <2>3, Zenon DEF Min
    <2>5. PICK i \in 1 .. Len(f) : i = Min(I)
      BY <2>2, <2>4, Zenon
    <2>6. i # 0 /\ f[i] \in Records
      <3> HIDE DEF Records
      <3> QED
        OBVIOUS
    <2>7. Recovered(f) = <<f[i]>>
      BY <2>1, <2>5, <2>6, Zenon DEF Recovered
    <2> QED
      BY <2>6, <2>7, Zenon
  <1> QED
    BY <1>1, <1>2, Zenon

(* A server that is started again has the record it found in its table. *)
LEMMA RestartStep ==
    ASSUME TableInv, FileInv, Restart
    PROVE  TableInv' /\ FileInv'
  <1>1. /\ conf.hash \in [Keys -> Nat] /\ conf.initSize \in Nat \ {0} /\ conf' = conf
        /\ disk \in Seq(Records) /\ conf \in Setups
    BY SetupFacts, Zenon DEF TableInv, FileInv, Restart
  <1>2. PICK R : R = Recovered(disk)
    BY Zenon
  <1>3. PICK keys : keys = [i \in DOMAIN R |-> R[i].key]
    BY Zenon
  <1>4. PICK n : n = conf.initSize
    BY Zenon
  <1>5. /\ size' = n /\ numEl' = Len(keys)
        /\ kvpairs' = [b \in 0 .. n - 1 |->
               IF keys # <<>> /\ Slot(keys[1], n) = b THEN keys ELSE <<>>]
        /\ \E diff \in BOOLEAN :
             pair' = [k \in ToSet(keys) |-> [val |-> R[1].val,
                                            positions |-> <<Len(disk) + 1>>, diff |-> diff]]
        /\ \E r \in IF torn /\ keys # <<>> THEN {<<m>> : m \in Misread(R[1])} ELSE {R} :
             db' = disk \o r
        /\ disk' = db'
        /\ nRem' = 0 /\ todo' = "none" /\ rewriting' = TRUE /\ cursor' = Start
        /\ restarts' = restarts + 1
    BY <1>2, <1>3, <1>4, Zenon DEF Restart, Initialize
  <1>6. PICK diff \in BOOLEAN :
             pair' = [k \in ToSet(keys) |-> [val |-> R[1].val,
                                            positions |-> <<Len(disk) + 1>>, diff |-> diff]]
    BY <1>5, Zenon
  <1>7. Start # Off /\ <<>> \in Seq(Keys) /\ ToSet(<<>>) = {} /\ Distinct(<<>>)
    BY DEF Start, Off, ToSet, Distinct
  <1>8. Stored' = ToSet(keys)
    BY <1>6, Zenon DEF Stored
  <1>9. CASE R = <<>>
    <2>1. keys = <<>>
      BY <1>3, <1>9
    <2>2. kvpairs' = [b \in 0 .. n - 1 |-> <<>>] /\ numEl' = 0
      BY <1>5, <2>1, Zenon
    <2>3. DOMAIN pair' = {} /\ pair' \in [{} -> Pairs]
      BY <1>6, <1>7, <2>1, Zenon
    <2>4. InChains(kvpairs', n, {})
      BY <1>7, <2>2, Zenon DEF InChains
    <2>5. InChains(kvpairs, size, Stored)'
      BY <1>1, <1>5, <2>3, <2>4, ChainsLater, Zenon
    <2>6. Stored' = {}
      BY <1>7, <1>8, <2>1, Zenon
    <2>7. TableInv'
      BY <1>1, <1>4, <1>5, <2>2, <2>3, <2>5, <2>6, FS_EmptySet DEF TableInv
    <2>8. db' \in Seq(Records)
      <3>1. db' = disk \o R
        BY <1>5, <2>1, Zenon
      <3> QED
        BY <1>1, <1>9, <3>1
    <2>9. FileInv'
      BY <1>5, <1>7, <2>8 DEF FileInv
    <2> QED
      BY <2>7, <2>9, Zenon
  <1>10. CASE \E r \in Records : R = <<r>>
    <2>1. PICK r \in Records : R = <<r>>
      BY <1>10, Zenon
    <2>2. PICK k : k = r.key
      BY Zenon
    <2>3. k \in Keys /\ r.val \in Seq(Vals)
      BY <2>2, Zenon DEF Records
    <2>4. keys = <<k>>
      BY <1>3, <2>1, <2>2
    <2>5. ToSet(keys) = {k} /\ Distinct(keys) /\ keys # <<>> /\ keys[1] = k /\ Len(keys) = 1
          /\ keys \in Seq(Keys)
      BY <2>3, <2>4 DEF ToSet, Distinct
    <2>6. R[1].val = r.val /\ <<Len(disk) + 1>> \in Seq(Nat)
      <3>1. Len(disk) + 1 \in Nat
        BY <1>1
      <3> QED
        BY <2>1, <3>1
    <2>7. DOMAIN pair' = {k} /\ pair' \in [{k} -> Pairs]
      BY <1>6, <2>3, <2>5, <2>6, Zenon DEF Pairs
    <2>8. InChains(kvpairs', n, {k})
      <3>1. Slot(k, n) \in 0 .. n - 1
        BY <1>1, <1>4, <2>3, SlotIsBucket, Zenon
      <3>2. kvpairs' = [b \in 0 .. n - 1 |-> IF Slot(k, n) = b THEN keys ELSE <<>>]
        BY <1>5, <2>5, Zenon
      <3>3. kvpairs' \in [0 .. n - 1 -> Seq(Keys)]
        BY <1>7, <2>5, <3>2, Zenon
      <3>4. ASSUME NEW b \in 0 .. n - 1
            PROVE  /\ Distinct(kvpairs'[b])
                   /\ ToSet(kvpairs'[b]) = {x \in {k} : Slot(x, n) = b}
        BY <1>7, <2>5, <3>2, Zenon
      <3> QED
        BY <3>3, <3>4, Zenon DEF InChains
    <2>9. InChains(kvpairs, size, Stored)'
      BY <1>1, <1>5, <2>7, <2>8, ChainsLater, Zenon
    <2>10. Stored' = {k}
      BY <1>8, <2>5, Zenon
    <2>11. TableInv'
      <3>1. IsFiniteSet({k}) /\ Cardinality({k}) = 1
        BY FS_Singleton, Zenon
      <3>2. /\ numEl' = 1 /\ {k} \subseteq Keys
            /\ size' \in Nat \ {0} /\ size' = conf'.initSize /\ size' >= conf'.initSize
        BY <1>1, <1>4, <1>5, <2>3, <2>5
      <3>3. IsFiniteSet(Stored)' /\ numEl' \in Int /\ numEl' <= Cardinality(Stored)'
        BY <2>10, <3>1, <3>2
      <3> QED
        BY <1>1, <2>7, <2>9, <2>10, <3>2, <3>3, Zenon DEF TableInv
    <2>12. db' \in Seq(Records)
      <3>1. Misread(r) \subseteq Records /\ R[1] = r
        BY <2>1, MisreadIsRecord
      <3>2. PICK m \in Records : db' = disk \o <<m>>
        BY <1>5, <2>1, <3>1, Zenon
      <3> HIDE DEF Records
      <3> QED
        BY <1>1, <3>2
    <2>13. FileInv'
      BY <1>5, <1>7, <2>12 DEF FileInv
    <2> QED
      BY <2>11, <2>13, Zenon
  <1> QED
    BY <1>1, <1>2, <1>9, <1>10, RecoveredOne, Zenon

-----------------------------------------------------------------------------
(* The theorems. *)

(* A new table has the invariant. *)
LEMMA StoreInit ==
    ASSUME Init
    PROVE  StoreInv
  <1>1. /\ conf.hash \in [Keys -> Nat] /\ conf.initSize \in Nat \ {0}
        /\ conf.persistent \in BOOLEAN
    BY SetupFacts, Zenon DEF Init
  <1>2. Stored = {} /\ pair \in [{} -> Pairs]
    BY DEF Init, Stored
  <1>3. InChains(kvpairs, size, {})
    <2>1. ToSet(<<>>) = {} /\ Distinct(<<>>) /\ <<>> \in Seq(Keys)
      BY DEF ToSet, Distinct
    <2>2. kvpairs = [b \in 0 .. size - 1 |-> <<>>]
      BY Zenon DEF Init
    <2> QED
      BY <2>1, <2>2, Zenon DEF InChains
  <1>4. TableInv
    BY <1>1, <1>2, <1>3, FS_EmptySet DEF Init, TableInv
  <1>5. Start # Off
    BY DEF Start, Off
  <1>6. /\ cursor \in Nat \cup {Off, Start} /\ rewriting \in BOOLEAN
        /\ rewriting <=> cursor # Off
    BY <1>1, <1>5, Zenon DEF Init
  <1>7. db \in Seq(Records) /\ disk \in Seq(Records)
    BY DEF Init
  <1>8. FileInv
    BY <1>6, <1>7, Zenon DEF Init, FileInv
  <1> QED
    BY <1>4, <1>8, Zenon DEF StoreInv

(* Every step keeps it. *)
LEMMA StoreNext ==
    ASSUME StoreInv, [Next]_vars
    PROVE  StoreInv'
  <1> USE DEF StoreInv
  <1>1. ASSUME NEW k \in conf.keys, NEW v \in Vals, Put(k, v) PROVE StoreInv'
    BY <1>1, PutTable, PutFile, Zenon
  <1>2. ASSUME NEW k \in conf.keys, NEW v \in Vals, Extend(k, v) PROVE StoreInv'
    BY <1>2, ExtendTable, ExtendFile, Zenon
  <1>3. ASSUME NEW k \in conf.keys, Delete(k) PROVE StoreInv'
    BY <1>3, DeleteTable, DeleteFile, Zenon
  <1>4. CASE WritePair
    BY <1>4, WritePairKeeps, Zenon
  <1>5. CASE WriteAppend
    BY <1>5, WriteAppendKeeps, Zenon
  <1>6. CASE Truncate \/ Flush
    BY <1>6, TruncateStep, FlushStep, Zenon
  <1>7. CASE Dump
    BY <1>7, DumpStep, Zenon
  <1>8. CASE Merge
    BY <1>8, MergeStep, Zenon
  <1>9. CASE Restart
    BY <1>9, RestartStep, Zenon
  <1>10. CASE UNCHANGED vars
    <2>1. UNCHANGED <<conf, size, kvpairs, pair, numEl>>
      BY <1>10, Zenon DEF vars, table
    <2>2. TableInv'
      BY <2>1, ValuesKept, Zenon DEF TableInv
    <2>3. UNCHANGED <<nRem, todo, call, rewriting, cursor, db, disk, pair, restarts>>
      BY <1>10, Zenon DEF vars, table, file
    <2>4. FileInv'
      BY <2>3, Zenon DEF FileInv, Stored
    <2> QED
      BY <2>2, <2>4, Zenon
  <1> QED
    BY <1>1, <1>2, <1>3, <1>4, <1>5, <1>6, <1>7, <1>8, <1>9, <1>10, Zenon DEF Next, Rewriter

(* The invariant holds in every reachable state. *)
LEMMA StoreInvariant == Spec => []StoreInv
  BY StoreInit, StoreNext, PTL DEF Spec

(* Every stored key is in the chain of its own bucket, once, and in no     *)
(* other chain, for every number of keys and every hash, across resizes,   *)
(* restarts and the rewriting thread: get and remove, which search one     *)
(* chain, find it.                                                         *)
THEOREM TableSound == Spec => []TableOK
  <1>1. ASSUME StoreInv PROVE TableOK
    <2>1. TableInv /\ FileInv
      BY <1>1, Zenon DEF StoreInv
    <2>2. TypeOK
      <3>1. \A k \in Stored : pair[k].val \in Seq(Vals) /\ pair[k].positions \in Seq(Nat)
        BY <2>1, Zenon DEF TableInv, Pairs
      <3>2. \A r \in ToSet(db) : r.key \in Keys /\ r.val \in Seq(Vals)
        <4>1. ASSUME NEW i \in DOMAIN db PROVE db[i].key \in Keys /\ db[i].val \in Seq(Vals)
          <5>1. db[i] \in Records
            <6> HIDE DEF Records
            <6> QED
              BY <2>1 DEF FileInv
          <5> QED
            BY <5>1, Zenon DEF Records
        <4> QED
          BY <4>1, Zenon DEF ToSet
      <3> QED
        BY <2>1, <3>1, <3>2, Zenon DEF TypeOK, TableInv, FileInv, InChains
    <2>3. KeysOnce
      <3> SUFFICES ASSUME NEW b \in 0 .. size - 1
                   PROVE  /\ ToSet(kvpairs[b]) = {k \in Stored : Slot(k, size) = b}
                          /\ Len(kvpairs[b]) = Cardinality(ToSet(kvpairs[b]))
        BY Zenon DEF KeysOnce
      <3>1. /\ kvpairs[b] \in Seq(Keys) /\ Distinct(kvpairs[b])
            /\ ToSet(kvpairs[b]) = {k \in Stored : Slot(k, size) = b}
        BY <2>1, Zenon DEF TableInv, InChains
      <3> QED
        BY <3>1, DistinctLength, Zenon
    <2> QED
      BY <2>2, <2>3, Zenon DEF TableOK
  <1> QED
    BY <1>1, StoreInvariant, PTL

(* get finds the value of every stored key. *)
LEMMA GetStored ==
    ASSUME TableInv
    PROVE  \A k \in Keys : Get(k) = IF k \in Stored THEN pair[k].val ELSE <<>>
  <1> SUFFICES ASSUME NEW k \in Keys
               PROVE  Get(k) = IF k \in Stored THEN pair[k].val ELSE <<>>
    BY Zenon
  <1>1. k \in ToSet(kvpairs[Slot(k, size)]) <=> k \in Stored
    BY SetupFacts, ChainHolds, Zenon DEF TableInv
  <1> QED
    BY <1>1, Zenon DEF Get

(* So does the next get, after any step. *)
LEMMA GetStoredLater ==
    ASSUME TableInv, TableInv', conf' = conf
    PROVE  \A k \in Keys : Get(k)' = IF k \in Stored' THEN pair'[k].val ELSE <<>>
  <1> SUFFICES ASSUME NEW k \in Keys
               PROVE  Get(k)' = IF k \in Stored' THEN pair'[k].val ELSE <<>>
    BY Zenon
  <1>1. InChains(kvpairs', size', Stored')
    BY Zenon DEF TableInv, InChains, Slot
  <1>2. conf.hash \in [Keys -> Nat] /\ size' \in Nat \ {0}
    BY SetupFacts, Zenon DEF TableInv
  <1>3. k \in ToSet(kvpairs'[Slot(k, size')]) <=> k \in Stored'
    BY <1>1, <1>2, ChainHolds, Zenon
  <1>4. Get(k)' = IF k \in ToSet(kvpairs'[Slot(k, size')]) THEN pair'[k].val ELSE <<>>
    BY Zenon DEF Get, Slot, ToSet
  <1> QED
    BY <1>3, <1>4, Zenon

(* Nothing happened to the map if every stored value stayed. *)
LEMMA MapStays ==
    ASSUME TableInv, TableInv', conf' = conf, Stored' = Stored,
           \A x \in Stored : pair'[x].val = pair[x].val
    PROVE  [k \in Keys |-> Get(k)]' = [k \in Keys |-> Get(k)]
  <1>1. \A k \in Keys : Get(k)' = Get(k)
    BY GetStored, GetStoredLater, Zenon
  <1> QED
    BY <1>1, Zenon

(* Through get, every request acts on the table as on a map, and nothing   *)
(* else that happens but a restart changes what get returns: not the       *)
(* second halves of put and append, nor the thread that rewrites the file  *)
(* and moves positions in the kvpairs without the lock.                    *)
THEOREM MapSound == Spec => ActsAsMap
  <1> DEFINE map == [k \in Keys |-> Get(k)]
  <1>1. ASSUME Init PROVE Promise!Init
    <2>1. TableInv
      BY <1>1, StoreInit, Zenon DEF StoreInv
    <2>2. Stored = {}
      BY <1>1 DEF Init, Stored
    <2>3. \A k \in Keys : Get(k) = <<>>
      BY <2>1, <2>2, GetStored, Zenon
    <2> QED
      BY <2>3, Zenon DEF Promise!Init
  <1>2. ASSUME StoreInv, [Next]_vars, restarts' = restarts
        PROVE  [Promise!Next]_<<map, call>>
    <2>1. TableInv /\ FileInv /\ TableInv'
      BY <1>2, StoreNext, Zenon DEF StoreInv
    <2>2. \A k \in Keys : Get(k) = IF k \in Stored THEN pair[k].val ELSE <<>>
      BY <2>1, GetStored, Zenon
    <2>3. conf' = conf => \A k \in Keys :
              Get(k)' = IF k \in Stored' THEN pair'[k].val ELSE <<>>
      BY <2>1, GetStoredLater, Zenon
    <2>4. conf.keys \subseteq Keys
      BY <2>1, SetupFacts, Zenon DEF TableInv
    <2>5. ASSUME NEW k \in conf.keys, NEW v \in Vals, Put(k, v) PROVE Promise!Next
      <3>1. conf' = conf /\ call' = Call("put", k, v) /\ k \in Keys
        BY <2>4, <2>5, Zenon DEF Put, Request
      <3>2. /\ Stored' = Stored \cup {k} /\ pair'[k].val = <<v>>
            /\ \A x \in Stored \ {k} : pair'[x].val = pair[x].val
        BY <2>1, <2>5, PutTable, Zenon
      <3>3. \A x \in Keys : Get(x)' = IF x = k THEN <<v>> ELSE Get(x)
        BY <2>2, <2>3, <3>1, <3>2, Zenon
      <3>4. map' = [map EXCEPT ![k] = <<v>>]
        BY <3>1, <3>3, Zenon
      <3>5. Promise!Put(k, v)
        BY <3>1, <3>4, Zenon DEF Promise!Put, Promise!Call, Call
      <3> QED
        BY <3>1, <3>5, Zenon DEF Promise!Next
    <2>6. ASSUME NEW k \in conf.keys, NEW v \in Vals, Extend(k, v) PROVE Promise!Next
      <3>1. conf' = conf /\ call' = Call("append", k, v) /\ k \in Keys
        BY <2>4, <2>6, Zenon DEF Extend, Request
      <3>2. /\ Stored' = Stored \cup {k}
            /\ pair'[k].val = IF k \in Stored THEN Append(pair[k].val, v) ELSE <<v>>
            /\ \A x \in Stored \ {k} : pair'[x].val = pair[x].val
        BY <2>1, <2>6, ExtendTable, Zenon
      <3>3. Append(<<>>, v) = <<v>>
        OBVIOUS
      <3>4. \A x \in Keys : Get(x)' = IF x = k THEN Append(Get(x), v) ELSE Get(x)
        BY <2>2, <2>3, <3>1, <3>2, <3>3, Zenon
      <3>5. map' = [map EXCEPT ![k] = Append(@, v)]
        BY <3>1, <3>4, Zenon
      <3>6. Promise!Extend(k, v)
        BY <3>1, <3>5, Zenon DEF Promise!Extend, Promise!Call, Call
      <3> QED
        BY <3>1, <3>6, Zenon DEF Promise!Next
    <2>7. ASSUME NEW k \in conf.keys, Delete(k) PROVE Promise!Next
      <3>1. conf' = conf /\ call' = Call("remove", k, k) /\ k \in Keys
        BY <2>4, <2>7, Zenon DEF Delete, Request
      <3>2. /\ Stored' = Stored \ {k}
            /\ \A x \in Stored \ {k} : pair'[x] = pair[x]
        BY <2>1, <2>7, DeleteTable, Zenon
      <3>3. \A x \in Keys : Get(x)' = IF x = k THEN <<>> ELSE Get(x)
        BY <2>2, <2>3, <3>1, <3>2, Zenon
      <3>4. map' = [map EXCEPT ![k] = <<>>]
        BY <3>1, <3>3, Zenon
      <3>5. Promise!Delete(k)
        BY <3>1, <3>4, Zenon DEF Promise!Delete, Promise!Call, Call
      <3> QED
        BY <3>1, <3>5, Zenon DEF Promise!Next
    <2>8. CASE WritePair \/ WriteAppend \/ Truncate \/ Flush \/ Dump \/ Merge
      <3>1. Stored' = Stored /\ \A x \in Stored : pair'[x].val = pair[x].val
        BY <2>1, <2>8, WritePairKeeps, WriteAppendKeeps, TruncateStep, FlushStep, DumpStep,
           MergeStep, Zenon
      <3>2. conf' = conf /\ call' = call
        BY <2>8, Zenon DEF WritePair, WriteAppend, Truncate, Flush, Dump, Merge
      <3> QED
        BY <2>1, <3>1, <3>2, MapStays, Zenon
    <2>9. CASE UNCHANGED vars
      <3>1. conf' = conf /\ call' = call /\ pair' = pair
        BY <2>9, Zenon DEF vars, table
      <3>2. Stored' = Stored
        BY <3>1, Zenon DEF Stored
      <3> QED
        BY <2>1, <3>1, <3>2, MapStays, Zenon
    <2>10. CASE Restart
      <3>1. restarts \in Nat /\ restarts' = restarts + 1
        BY <2>1, <2>10, Zenon DEF Restart, FileInv
      <3> QED
        BY <1>2, <3>1
    <2> QED
      BY <1>2, <2>5, <2>6, <2>7, <2>8, <2>9, <2>10, Zenon DEF Next, Rewriter
  <1>3. ASSUME StoreInv, [Next]_vars
        PROVE  [restarts' = restarts => [Promise!Next]_<<map, call>>]_vars
    BY <1>2, <1>3, Zenon
  <1>4. Init /\ []StoreInv /\ [][Next]_vars => ActsAsMap
    BY <1>1, <1>3, PTL DEF ActsAsMap
  <1> QED
    BY <1>4, StoreInvariant, PTL DEF Spec

(* put doubles the table only when it is as full as resizeNum says: numEl, *)
(* which a resize resets and remove goes on to decrement, never exceeds    *)
(* the number of stored keys.                                              *)
THEOREM GrowthSound == Spec => GrowsWhenFull
  <1>1. ASSUME StoreInv, [Next]_vars
        PROVE  [size' > size => Cardinality(Stored) * 100 >= size * conf.resizePercent]_vars
    <2> SUFFICES ASSUME size' > size
                 PROVE  Cardinality(Stored) * 100 >= size * conf.resizePercent
      BY Zenon
    <2>1. TableInv /\ FileInv
      BY <1>1, Zenon DEF StoreInv
    <2>2. /\ size \in Nat \ {0} /\ numEl \in Int /\ numEl <= Cardinality(Stored)
          /\ Cardinality(Stored) \in Nat /\ conf.resizePercent \in Nat
      <3>1. Cardinality(Stored) \in Nat
        BY <2>1, FS_CardinalityType, Zenon DEF TableInv
      <3>2. conf.resizePercent \in 0 .. 100
        BY <2>1, SetupFacts, Zenon DEF TableInv
      <3> QED
        BY <2>1, <3>1, <3>2 DEF TableInv
    <2>3. ASSUME Full PROVE Cardinality(Stored) * 100 >= size * conf.resizePercent
      <3>1. PICK x : x = size * conf.resizePercent
        BY Zenon
      <3>2. x \in Int
        BY <2>2, <3>1
      <3>3. numEl * 100 >= x
        BY <2>3, <3>1, Zenon DEF Full
      <3>4. Cardinality(Stored) * 100 >= x
        BY <2>2, <3>2, <3>3
      <3> QED
        BY <3>1, <3>4, Zenon
    <2>4. ASSUME NEW k \in conf.keys, NEW v \in Vals, Put(k, v), ~Full PROVE size' = size
      BY <2>4, Zenon DEF Put
    <2>5. ASSUME NEW k \in conf.keys, NEW v \in Vals, Extend(k, v) PROVE size' = size
      BY <2>5, Zenon DEF Extend
    <2>6. ASSUME NEW k \in conf.keys, Delete(k) PROVE size' = size
      BY <2>6, Zenon DEF Delete, table
    <2>7. CASE WritePair \/ WriteAppend \/ Truncate \/ Flush \/ Dump \/ Merge \/ UNCHANGED vars
      <3>1. size' = size
        BY <2>7, Zenon DEF WritePair, WriteAppend, Truncate, Flush, Dump, Merge, vars, table
      <3> QED
        BY <2>2, <3>1
    <2>8. CASE Restart
      <3>1. size' = conf.initSize /\ conf.initSize \in Nat /\ size >= conf.initSize
        BY <2>1, <2>8, SetupFacts, Zenon DEF Restart, Initialize, TableInv
      <3> QED
        BY <2>2, <3>1
    <2>9. size' = size => FALSE
      BY <2>2
    <2> QED
      BY <1>1, <2>3, <2>4, <2>5, <2>6, <2>7, <2>8, <2>9, Zenon DEF Next, Rewriter
  <1> QED
    BY <1>1, StoreInvariant, PTL DEF Spec, GrowsWhenFull

-----------------------------------------------------------------------------
(* The file of an undisturbed table. *)

(* Where the file has live records of a key. *)
LiveAt(f, k) == {i \in DOMAIN f : f[i].live /\ f[i].key = k}

(* What the file holds of a key, before and after the second half of a     *)
(* request for it.                                                         *)
KeyExact(k) ==
    /\ k \notin Stored \/ (todo = "write" /\ call.key = k) => LiveAt(db, k) = {}
    /\ k \in Stored /\ ~(todo = "write" /\ call.key = k) =>
         /\ LiveAt(db, k) = ToSet(pair[k].positions)
         /\ pair[k].val = IF todo = "append" /\ call.key = k THEN Replayed(db, k) \o <<call.val>>
                          ELSE Replayed(db, k)

(* No two keys share a chain of n buckets. *)
Apart(n) == \A j, k \in Keys : Slot(j, n) = Slot(k, n) => j = k

(* Until the rewrite that a new server starts with has ended there is      *)
(* nothing in the table; from then on the file holds what the table does.  *)
(* The removals stay below magicNumber, so that no other rewrite starts.   *)
Settled ==
    /\ ops \in Nat /\ ops <= conf.maxOps /\ nRem <= ops
    /\ Apart(size)
    /\ ~torn
    /\ rewriting => db = <<>> /\ Stored = {} /\ todo = "none"
    /\ ~rewriting => \A k \in Keys : KeyExact(k)

ExactInv == Undisturbed => Settled

(* The value after the first i records of f have been read. *)
Replay(a, f, k) ==
    /\ a[0] = <<>>
    /\ \A i \in 1 .. Len(f) :
         a[i] = IF f[i].live /\ f[i].key = k THEN a[i - 1] \o f[i].val ELSE a[i - 1]

(* The records are read one by one. *)
LEMMA ReplaySteps ==
    ASSUME NEW f \in Seq(Records), NEW k
    PROVE  \E a : Replay(a, f, k) /\ Replayed(f, k) = a[Len(f)]
  <1> DEFINE N == Len(f)
             V == Seq(Vals)
             Step(v, r) == IF r.live /\ r.key = k THEN v \o r.val ELSE v
             h == [p \in (1 .. N) \X V |-> Step(p[2], f[p[1]])]
             Fold(g) == g = [x \in SUBSET (DOMAIN f) |->
                               IF x = {} THEN <<>> ELSE Step(g[x \ {Max(x)}], f[Max(x)])]
             G == CHOOSE g : Fold(g)
  <1>1. N \in Nat /\ DOMAIN f = 1 .. N /\ \A i \in 1 .. N : f[i] \in Records
    <2> HIDE DEF Records
    <2> QED
      OBVIOUS
  <1>2. Replayed(f, k) = G[DOMAIN f]
    BY Zenon DEF Replayed, FoldLeft, MapThenFoldSet
  <1>3. ASSUME NEW v \in V, NEW r \in Records PROVE Step(v, r) \in V
    <2>1. r.val \in Seq(Vals)
      BY Zenon DEF Records
    <2> QED
      BY <2>1
  <1> HIDE DEF N
  <1>4. h \in [(1 .. N) \X V -> V]
    <2> HIDE DEF Step, V
    <2> QED
      BY <1>1, <1>3, Zenon
  <1>5. \A i \in 1 .. N : \A v \in V : h[<<i, v>>] = Step(v, f[i])
    <2> HIDE DEF Step, V
    <2> QED
      BY Zenon
  <1>6. <<>> \in V
    OBVIOUS
  <1> HIDE DEF V, h, Step
  <1>7. PICK g : IsFold(g, N, V, <<>>, h)
    BY <1>1, <1>4, <1>6, FoldExists, Zenon
  <1>8. ASSUME NEW x \in SUBSET (1 .. N), x # {}
        PROVE  g[x] = Step(g[x \ {Max(x)}], f[Max(x)])
    <2>1. Max(x) \in 1 .. N
      BY <1>1, <1>8, MaxIn, Zenon
    <2>2. g[x] = h[<<Max(x), g[x \ {Max(x)}]>>] /\ g[x \ {Max(x)}] \in V
      BY <1>7, <1>8, Zenon DEF IsFold
    <2> QED
      BY <1>5, <2>1, <2>2, Zenon
  <1>9. Fold(g)
    BY <1>1, <1>7, <1>8, Zenon DEF IsFold
  <1>10. Fold(G)
    <2> HIDE DEF Fold
    <2> QED
      BY <1>9, Zenon
  <1> DEFINE a == [i \in 0 .. N |-> G[1 .. i]]
  <1> HIDE DEF G
  <1>11. a[0] = <<>>
    <2>1. 1 .. 0 = {} /\ 0 \in 0 .. N
      BY <1>1
    <2> QED
      BY <1>10, <2>1, Zenon
  <1>12. ASSUME NEW i \in 1 .. N PROVE a[i] = Step(a[i - 1], f[i])
    <2>1. /\ 1 .. i \in SUBSET (1 .. N) /\ 1 .. i # {} /\ Max(1 .. i) = i
          /\ (1 .. i) \ {i} = 1 .. (i - 1)
      BY <1>1, FirstNumbers, Zenon
    <2>2. G[1 .. i] = Step(G[1 .. (i - 1)], f[i])
      BY <1>1, <1>10, <2>1, Zenon
    <2>3. i \in 0 .. N /\ i - 1 \in 0 .. N
      BY <1>1
    <2> QED
      BY <2>2, <2>3, Zenon
  <1>13. a[N] = G[DOMAIN f]
    BY <1>1
  <1> HIDE DEF a
  <1>14. Replay(a, f, k)
    BY <1>11, <1>12, Zenon DEF Replay, Step, N
  <1> QED
    BY <1>2, <1>13, <1>14, Zenon DEF N

(* Records that are the same, or both no live records of the key. *)
Alike(r, s, k) == r = s \/ (~(r.live /\ r.key = k) /\ ~(s.live /\ s.key = k))

(* Files that are alike up to n are read alike up to n. *)
LEMMA ReplayAlike ==
    ASSUME NEW f, NEW g, NEW k, NEW a, NEW b, Replay(a, f, k), Replay(b, g, k),
           Len(f) \in Nat, Len(g) \in Nat, NEW n \in Nat, n <= Len(f), n <= Len(g),
           \A i \in 1 .. n : Alike(f[i], g[i], k)
    PROVE  a[n] = b[n]
  <1> DEFINE Done == {i \in Nat : i <= n => a[i] = b[i]}
  <1>1. 0 \in Done
    BY Zenon DEF Replay
  <1>2. ASSUME NEW i \in Nat, i \in Done PROVE i + 1 \in Done
    <2> SUFFICES ASSUME i + 1 <= n PROVE a[i + 1] = b[i + 1]
      OBVIOUS
    <2>1. PICK j \in 1 .. n : j = i + 1 /\ j \in 1 .. Len(f) /\ j \in 1 .. Len(g)
      OBVIOUS
    <2>2. j - 1 = i /\ a[i] = b[i]
      BY <1>2, <2>1
    <2>3. PICK r, s : r = f[j] /\ s = g[j]
      BY Zenon
    <2>4. /\ a[j] = IF r.live /\ r.key = k THEN a[i] \o r.val ELSE a[i]
          /\ b[j] = IF s.live /\ s.key = k THEN b[i] \o s.val ELSE b[i]
      BY <2>1, <2>2, <2>3, Zenon DEF Replay
    <2>5. Alike(r, s, k)
      BY <2>1, <2>3, Zenon
    <2>6. a[j] = b[j]
      BY <2>2, <2>4, <2>5, Zenon DEF Alike
    <2> QED
      BY <2>1, <2>6, Zenon
  <1> HIDE DEF Done
  <1>3. n \in Done
    BY <1>1, <1>2, Induction, Zenon
  <1> QED
    BY <1>3 DEF Done

(* So a file is read like the beginning of one that is alike. *)
LEMMA ReplayPrefix ==
    ASSUME NEW f \in Seq(Records), NEW g \in Seq(Records), NEW k, NEW a, NEW b,
           Replay(a, f, k), Replay(b, g, k), Len(f) <= Len(g),
           \A i \in 1 .. Len(f) : Alike(f[i], g[i], k)
    PROVE  a[Len(f)] = b[Len(f)]
  <1>1. Len(f) \in Nat /\ Len(g) \in Nat /\ Len(f) <= Len(f)
    <2> HIDE DEF Records
    <2> QED
      OBVIOUS
  <1> QED
    BY <1>1, ReplayAlike

(* A file in which the key has no live record holds nothing of it. *)
LEMMA ReplayNothing ==
    ASSUME NEW f \in Seq(Records), NEW k, LiveAt(f, k) = {}
    PROVE  Replayed(f, k) = <<>>
  <1>1. PICK a : Replay(a, f, k) /\ Replayed(f, k) = a[Len(f)]
    BY ReplaySteps, Zenon
  <1>2. Len(f) \in Nat /\ DOMAIN f = 1 .. Len(f)
    <2> HIDE DEF Records
    <2> QED
      OBVIOUS
  <1>3. PICK n, V : n \in Nat /\ n = Len(f) /\ V = {<<>>}
    BY <1>2, Zenon
  <1>4. a[0] \in V
    BY <1>1, <1>3, Zenon DEF Replay
  <1>5. \A i \in 1 .. n : a[i - 1] \in V => a[i] \in V
    BY <1>1, <1>2, <1>3, Zenon DEF Replay, LiveAt
  <1>6. a[n] \in V
    <2>1. n \in Nat
      BY <1>3, Zenon
    <2> QED
      BY <1>4, <1>5, <2>1, FoldStays, Zenon
  <1> QED
    BY <1>1, <1>3, <1>6, Zenon

(* g is f with a record more. *)
Longer(g, f, j, v) == g = Append(f, Record(j, v))

(* What is read of k in g, which has a record of j more than f. *)
ReadsLonger(g, f, j, v, k) ==
    /\ Replayed(g, k) = IF k = j THEN Replayed(f, k) \o v ELSE Replayed(f, k)
    /\ LiveAt(g, k) = IF k = j THEN LiveAt(f, k) \cup {Len(f) + 1} ELSE LiveAt(f, k)

(* write and writeAppend: a record more is a piece more of its key only. *)
LEMMA ReplayWritten ==
    ASSUME NEW f \in Seq(Records), NEW j \in Keys, NEW v \in Seq(Vals),
           NEW g, Longer(g, f, j, v), NEW k
    PROVE  ReadsLonger(g, f, j, v, k)
  <1>1. PICK r : r = Record(j, v)
    BY Zenon
  <1>2. r \in Records /\ r.live /\ r.key = j /\ r.val = v
    BY <1>1, Zenon DEF Record, Records
  <1>3. /\ g \in Seq(Records) /\ Len(f) \in Nat /\ Len(g) = Len(f) + 1
        /\ DOMAIN f = 1 .. Len(f) /\ DOMAIN g = 1 .. (Len(f) + 1)
        /\ g[Len(f) + 1] = r /\ \A i \in 1 .. Len(f) : g[i] = f[i]
    <2> HIDE DEF Records
    <2> QED
      BY <1>1, <1>2 DEF Longer
  <1>4. PICK a : Replay(a, f, k) /\ Replayed(f, k) = a[Len(f)]
    BY ReplaySteps, Zenon
  <1>5. PICK b : Replay(b, g, k) /\ Replayed(g, k) = b[Len(g)]
    BY <1>3, ReplaySteps, Zenon
  <1>6. a[Len(f)] = b[Len(f)]
    <2>1. \A i \in 1 .. Len(f) : Alike(f[i], g[i], k)
      BY <1>3, Zenon DEF Alike
    <2>2. g \in Seq(Records) /\ Len(f) <= Len(g)
      BY <1>3
    <2>3. Replay(a, f, k) /\ Replay(b, g, k)
      BY <1>4, <1>5, Zenon
    <2> QED
      BY <2>1, <2>2, <2>3, ReplayPrefix
  <1>7. PICK n \in 1 .. Len(g) : n = Len(f) + 1 /\ n - 1 = Len(f) /\ n = Len(g)
    BY <1>3
  <1>8. g[n] = r
    BY <1>3, <1>7, Zenon
  <1>9. b[n] = IF r.live /\ r.key = k THEN b[Len(f)] \o r.val ELSE b[Len(f)]
    BY <1>5, <1>7, <1>8, Zenon DEF Replay
  <1>10. Replayed(g, k) = IF k = j THEN Replayed(f, k) \o v ELSE Replayed(f, k)
    BY <1>2, <1>4, <1>5, <1>6, <1>7, <1>9, Zenon
  <1>11. \A i \in DOMAIN g : (i \in DOMAIN f /\ g[i] = f[i]) \/ (i = Len(f) + 1 /\ g[i] = r /\ i \notin DOMAIN f)
    BY <1>3
  <1>12. DOMAIN f \subseteq DOMAIN g /\ Len(f) + 1 \in DOMAIN g /\ \A i \in DOMAIN f : g[i] = f[i]
    BY <1>3
  <1>13. LiveAt(g, k) = IF k = j THEN LiveAt(f, k) \cup {Len(f) + 1} ELSE LiveAt(f, k)
    BY <1>2, <1>3, <1>11, <1>12, Zenon DEF LiveAt
  <1> QED
    BY <1>10, <1>13, Zenon DEF ReadsLonger

(* mark: what is marked is no live record; what is not marked stays. *)
LEMMA ReplayMarked ==
    ASSUME NEW f \in Seq(Records), NEW plist, NEW g, g = Marked(f, plist), NEW k
    PROVE  /\ LiveAt(g, k) = LiveAt(f, k) \ ToSet(plist)
           /\ LiveAt(f, k) \cap ToSet(plist) = {} => Replayed(g, k) = Replayed(f, k)
  <1>1. /\ Len(f) \in Nat /\ DOMAIN f = 1 .. Len(f) /\ \A i \in 1 .. Len(f) : f[i] \in Records
    <2> HIDE DEF Records
    <2> QED
      OBVIOUS
  <1>2. DOMAIN g = DOMAIN f
    BY Zenon DEF Marked
  <1>3. \A r \in Records : /\ [r EXCEPT !.live = FALSE] \in Records
                           /\ [r EXCEPT !.live = FALSE].live = FALSE
                           /\ [r EXCEPT !.live = FALSE].key = r.key
    BY Zenon DEF Records
  <1>4. \A i \in DOMAIN f : /\ i \notin ToSet(plist) => g[i] = f[i]
                            /\ i \in ToSet(plist) => g[i].live = FALSE /\ g[i].key = f[i].key
                            /\ g[i] \in Records
    BY <1>1, <1>3, Zenon DEF Marked
  <1>5. LiveAt(g, k) = LiveAt(f, k) \ ToSet(plist)
    BY <1>2, <1>4, Zenon DEF LiveAt
  <1>6. g \in Seq(Records) /\ Len(g) = Len(f)
    <2> HIDE DEF Records
    <2>1. g \in [1 .. Len(f) -> Records]
      BY <1>1, <1>2, <1>4, Zenon DEF Marked
    <2> QED
      BY <1>1, <2>1
  <1>7. ASSUME LiveAt(f, k) \cap ToSet(plist) = {} PROVE Replayed(g, k) = Replayed(f, k)
    <2>1. PICK a : Replay(a, f, k) /\ Replayed(f, k) = a[Len(f)]
      BY ReplaySteps, Zenon
    <2>2. PICK b : Replay(b, g, k) /\ Replayed(g, k) = b[Len(g)]
      BY <1>6, ReplaySteps, Zenon
    <2>3. \A i \in 1 .. Len(f) : Alike(f[i], g[i], k)
      BY <1>1, <1>4, <1>7, Zenon DEF Alike, LiveAt
    <2>4. a[Len(f)] = b[Len(f)]
      BY <1>1, <1>6, <2>1, <2>2, <2>3, ReplayPrefix
    <2> QED
      BY <1>6, <2>1, <2>2, <2>4, Zenon
  <1> QED
    BY <1>5, <1>7, Zenon

(* What is left of a division is the only remainder there is. *)
LEMMA Remainder ==
    ASSUME NEW a \in Nat, NEW n \in Nat \ {0}, NEW q \in Int, NEW r \in 0 .. (n - 1), a = n * q + r
    PROVE  a % n = r
  OBVIOUS

(* Two hashes that share a slot of the table of twice the size shared one before it grew. *)
LEMMA Doubled ==
    ASSUME NEW a \in Nat, NEW b \in Nat, NEW n \in Nat \ {0}, a % (n * 2) = b % (n * 2)
    PROVE  a % n = b % n
  <1>1. PICK m : m = n * 2
    BY Zenon
  <1>2. m \in Nat \ {0} /\ a % m = b % m
    BY <1>1
  <1>3. PICK q, p, r : q = a \div m /\ p = b \div m /\ r = a % m
    BY Zenon
  <1>4. q \in Int /\ p \in Int /\ r \in 0 .. (m - 1)
    BY <1>2, <1>3
  <1>5. a = m * q + r
    BY <1>2, <1>3
  <1>6. b = m * p + r
    BY <1>2, <1>3
  <1>7. CASE r < n
    <2>1. r \in 0 .. (n - 1) /\ 2 * q \in Int /\ 2 * p \in Int
      BY <1>4, <1>7
    <2>2. a = n * (2 * q) + r /\ b = n * (2 * p) + r
      BY <1>1, <1>4, <1>5, <1>6
    <2> QED
      BY <2>1, <2>2, Remainder, Zenon
  <1>8. CASE r >= n
    <2>1. r - n \in 0 .. (n - 1) /\ 2 * q + 1 \in Int /\ 2 * p + 1 \in Int
      BY <1>1, <1>4, <1>8
    <2>2. a = n * (2 * q + 1) + (r - n) /\ b = n * (2 * p + 1) + (r - n)
      BY <1>1, <1>4, <1>5, <1>6
    <2> QED
      BY <2>1, <2>2, Remainder, Zenon
  <1> QED
    BY <1>4, <1>7, <1>8

(* The chains stay as short in a table of twice the size. *)
LEMMA StillApart ==
    ASSUME TableInv, Apart(size), NEW n \in {size, size * 2}
    PROVE  Apart(n)
  <1> SUFFICES ASSUME NEW j \in Keys, NEW k \in Keys, Slot(j, n) = Slot(k, n) PROVE j = k
    BY Zenon DEF Apart
  <1>1. PICK a, b : a = conf.hash[j] /\ b = conf.hash[k]
    BY Zenon
  <1>2. a \in Nat /\ b \in Nat /\ size \in Nat \ {0} /\ a % n = b % n
    BY <1>1, SetupFacts, Zenon DEF TableInv, Slot
  <1>3. a % size = b % size
    <2>1. CASE n = size
      BY <1>2, <2>1, Zenon
    <2>2. CASE n = size * 2
      <3>1. a % (size * 2) = b % (size * 2)
        BY <1>2, <2>2, Zenon
      <3> QED
        BY <1>2, <3>1, Doubled, Zenon
    <2> QED
      BY <2>1, <2>2, Zenon
  <1> QED
    BY <1>1, <1>3, Zenon DEF Apart, Slot

(* mark, between two rewrites: the records that carry the key are not live *)
(* any more, and no other key's value changes.                             *)
LEMMA MarkExact ==
    ASSUME conf.persistent, ~rewriting, ~torn, db \in Seq(Records), NEW k,
           NEW plist, Mark(plist), Stray \notin ToSet(plist)
    PROVE  /\ ~torn'
           /\ LiveAt(db', k) = LiveAt(db, k) \ ToSet(plist)
           /\ LiveAt(db, k) \cap ToSet(plist) = {} => Replayed(db', k) = Replayed(db, k)
  <1>1. CASE plist = <<>>
    <2>1. db' = db /\ torn' = torn
      BY <1>1, Zenon DEF Mark, file
    <2>2. ToSet(plist) = {}
      BY <1>1 DEF ToSet
    <2> QED
      BY <2>1, <2>2, Zenon
  <1>2. CASE plist # <<>>
    <2>1. db' = Marked(db, plist) /\ torn' = torn
      BY <1>2, Zenon DEF Mark
    <2> QED
      BY <2>1, ReplayMarked
  <1> QED
    BY <1>1, <1>2, Zenon

(* The places of records are not stray. *)
LEMMA LiveNotStray ==
    ASSUME db \in Seq(Records), NEW k
    PROVE  Stray \notin LiveAt(db, k)
  <1>1. 0 \notin DOMAIN db
    OBVIOUS
  <1> QED
    BY <1>1, Zenon DEF LiveAt, Stray

(* A record is of one key. *)
LEMMA LiveOnce ==
    ASSUME NEW f, NEW j, NEW k, j # k
    PROVE  LiveAt(f, k) \cap LiveAt(f, j) = {}
  BY Zenon DEF LiveAt

(* What a step leaves alone stays exact. *)
LEMMA OthersExact ==
    ASSUME NEW k, KeyExact(k),
           todo = "none" \/ call.key # k, todo' = "none" \/ call'.key # k,
           LiveAt(db', k) = LiveAt(db, k), Replayed(db', k) = Replayed(db, k),
           k \in Stored' <=> k \in Stored, k \in Stored => pair'[k] = pair[k]
    PROVE  KeyExact(k)'
  BY Zenon DEF KeyExact

(* What a request finds, and what it changes of the counters. *)
LEMMA RequestFacts ==
    ASSUME StoreInv, Undisturbed, Settled, NEW c, Request(c)
    PROVE  /\ ~rewriting /\ ~torn /\ todo = "none" /\ conf.persistent /\ conf' = conf
           /\ ops' \in Nat /\ ops' <= conf'.maxOps /\ nRem <= ops' /\ nRem + 1 <= ops'
           /\ nRem + 1 # conf.magicNumber
           /\ \A k \in Keys : KeyExact(k)
  <1>1. conf.maxOps \in Nat /\ conf.magicNumber \in Int /\ nRem \in Nat
    BY NoVoHTAssumption, Zenon DEF StoreInv, TableInv, FileInv, Setup
  <1>2. /\ ~rewriting /\ ~torn /\ todo = "none" /\ conf.persistent /\ conf' = conf
        /\ ops' = ops + 1 /\ ops < conf.maxOps /\ conf.maxOps < conf.magicNumber
        /\ ops \in Nat /\ nRem <= ops /\ \A k \in Keys : KeyExact(k)
    BY Zenon DEF Request, Undisturbed, Settled
  <1>3. /\ ops' \in Nat /\ ops' <= conf'.maxOps /\ nRem <= ops' /\ nRem + 1 <= ops'
        /\ nRem + 1 # conf.magicNumber
    BY <1>1, <1>2
  <1> QED
    BY <1>2, <1>3, Zenon

(* The chain that put searches. *)
LEMMA PutSearches ==
    ASSUME TableInv, NEW k \in Keys, NEW n, n = IF Full THEN size * 2 ELSE size,
           NEW c, c = IF Full THEN Resized(n) ELSE kvpairs
    PROVE  k \in ToSet(c[Slot(k, n)]) <=> k \in Stored
  <1>1. conf.hash \in [Keys -> Nat] /\ n \in Nat \ {0}
    BY SetupFacts DEF TableInv
  <1>2. CASE Full
    <2>1. InOrder \in Seq(Keys) /\ Distinct(InOrder) /\ ToSet(InOrder) = Stored
      BY <1>1, InOrderElements, Zenon DEF TableInv
    <2>2. InChains(Resized(n), n, ToSet(InOrder))
      BY <1>1, <2>1, ResizedChains, Zenon
    <2> QED
      BY <1>1, <1>2, <2>1, <2>2, ChainHolds, Zenon
  <1>3. CASE ~Full
    BY <1>1, <1>3, ChainHolds, Zenon DEF TableInv
  <1> QED
    BY <1>2, <1>3, Zenon

(* The first half of put: the records of the value that it replaces are    *)
(* marked, all of them and no others.                                      *)
LEMMA PutExact ==
    ASSUME StoreInv, Undisturbed, Settled, NEW k \in conf.keys, NEW v \in Vals, Put(k, v)
    PROVE  Settled'
  <1>1. TableInv /\ FileInv /\ k \in Keys /\ db \in Seq(Records)
    BY SetupFacts, Zenon DEF StoreInv, TableInv, FileInv
  <1>2. Request(Call("put", k, v))
    BY Zenon DEF Put
  <1>3. /\ ~rewriting /\ ~torn /\ todo = "none" /\ conf.persistent /\ conf' = conf
        /\ ops' \in Nat /\ ops' <= conf'.maxOps /\ nRem <= ops'
        /\ \A x \in Keys : KeyExact(x)
    BY <1>2, RequestFacts, Zenon
  <1>4. todo' = "write" /\ call'.key = k /\ nRem' = nRem /\ rewriting' = rewriting
    BY <1>3, Zenon DEF Put, Later, Request, Call
  <1>5. Stored' = Stored \cup {k}
    BY <1>1, PutTable, Zenon
  <1>6. PICK n : n = IF Full THEN size * 2 ELSE size
    BY Zenon
  <1>7. PICK c : c = IF Full THEN Resized(n) ELSE kvpairs
    BY Zenon
  <1>8. /\ size' = n
        /\ IF k \in ToSet(c[Slot(k, n)])
           THEN NewVal(k, v) /\ Mark(pair[k].positions)
           ELSE (\E diff \in BOOLEAN : NewPair(k, v, diff)) /\ UNCHANGED file
    BY <1>6, <1>7, Zenon DEF Put
  <1>9. k \in ToSet(c[Slot(k, n)]) <=> k \in Stored
    BY <1>1, <1>6, <1>7, PutSearches, Zenon
  <1>10. Apart(size)'
    <2>1. Apart(n)
      BY <1>1, <1>6, StillApart, Zenon DEF Settled
    <2> QED
      BY <1>3, <1>8, <2>1, Zenon DEF Apart, Slot
  <1>11. /\ k \notin Stored => db' = db /\ torn' = torn
         /\ k \in Stored => Mark(pair[k].positions)
         /\ \A y \in Stored \ {k} : pair'[y] = pair[y]
    BY <1>1, <1>8, <1>9, Zenon DEF NewVal, NewPair, file, TableInv
  <1>12. k \in Stored => /\ LiveAt(db, k) = ToSet(pair[k].positions)
                         /\ Stray \notin ToSet(pair[k].positions)
    BY <1>1, <1>3, LiveNotStray, Zenon DEF KeyExact
  <1>13. ~torn'
    BY <1>1, <1>3, <1>11, <1>12, MarkExact, Zenon
  <1>14. ASSUME NEW x \in Keys PROVE KeyExact(x)'
    <2>3. k \notin Stored => LiveAt(db, k) = {}
      BY <1>1, <1>3, Zenon DEF KeyExact
    <2>4. CASE x = k
      <3>1. LiveAt(db', k) = {}
        BY <1>1, <1>3, <1>11, <1>12, <2>3, MarkExact
      <3> QED
        BY <1>4, <2>4, <3>1, Zenon DEF KeyExact
    <2>5. CASE x # k
      <3>1. LiveAt(db', x) = LiveAt(db, x) /\ Replayed(db', x) = Replayed(db, x)
        <4>1. CASE k \in Stored
          <5>1. PICK plist : plist = pair[k].positions
            BY Zenon
          <5>2. /\ Mark(plist) /\ Stray \notin ToSet(plist)
                /\ LiveAt(db, x) \cap ToSet(plist) = {}
            BY <1>11, <1>12, <2>5, <4>1, <5>1, LiveOnce, Zenon
          <5>3. LiveAt(db', x) = LiveAt(db, x) \ ToSet(plist) /\ Replayed(db', x) = Replayed(db, x)
            BY <1>1, <1>3, <5>2, MarkExact, Zenon
          <5> QED
            BY <5>2, <5>3, Zenon
        <4>2. CASE k \notin Stored
          BY <1>11, <4>2, Zenon
        <4> QED
          BY <4>1, <4>2, Zenon
      <3>2. (x \in Stored' <=> x \in Stored) /\ (x \in Stored => pair'[x] = pair[x])
        BY <1>5, <1>11, <2>5, Zenon
      <3>3. todo = "none" /\ call'.key # x /\ KeyExact(x)
        BY <1>3, <1>4, <2>5, Zenon
      <3> QED
        BY <3>1, <3>2, <3>3, OthersExact, Zenon
    <2> QED
      BY <2>4, <2>5, Zenon
  <1> QED
    BY <1>3, <1>4, <1>10, <1>13, <1>14, Zenon DEF Settled

(* The first half of append: the file keeps what it has of the value. *)
LEMMA ExtendExact ==
    ASSUME StoreInv, Undisturbed, Settled, NEW k \in conf.keys, NEW v \in Vals, Extend(k, v)
    PROVE  Settled'
  <1>1. TableInv /\ FileInv /\ k \in Keys /\ db \in Seq(Records)
    BY SetupFacts, Zenon DEF StoreInv, TableInv, FileInv
  <1>2. Request(Call("append", k, v))
    BY Zenon DEF Extend
  <1>3. /\ ~rewriting /\ ~torn /\ todo = "none" /\ conf.persistent /\ conf' = conf
        /\ ops' \in Nat /\ ops' <= conf'.maxOps /\ nRem <= ops'
        /\ \A x \in Keys : KeyExact(x)
    BY <1>2, RequestFacts, Zenon
  <1>4. /\ call'.key = k /\ call'.val = v /\ nRem' = nRem /\ rewriting' = rewriting
        /\ db' = db /\ torn' = torn /\ size' = size
    BY <1>3, Zenon DEF Extend, Request, Call, file
  <1>5. Stored' = Stored \cup {k}
    BY <1>1, ExtendTable, Zenon
  <1>6. k \in ToSet(kvpairs[Slot(k, size)]) <=> k \in Stored
    BY <1>1, SetupFacts, ChainHolds, Zenon DEF TableInv
  <1>7. Apart(size)'
    BY <1>3, <1>4, Zenon DEF Apart, Slot, Settled
  <1>8. /\ k \in Stored => pair' = [pair EXCEPT ![k].val = Append(@, v)] /\ todo' = "append"
        /\ k \notin Stored => (\E diff \in BOOLEAN : NewPair(k, v, diff)) /\ todo' = "write"
    BY <1>3, <1>6, Zenon DEF Extend, Later
  <1>9. ASSUME NEW x \in Keys PROVE KeyExact(x)'
    <2>1. CASE x = k /\ k \in Stored
      <3>1. PICK w : w = pair[k].val
        BY Zenon
      <3>2. w \in Seq(Vals) /\ w = Replayed(db, k) /\ LiveAt(db, k) = ToSet(pair[k].positions)
        BY <1>1, <1>3, <2>1, <3>1, Zenon DEF KeyExact, TableInv, Pairs
      <3>3. PICK u : u = Append(w, v)
        BY Zenon
      <3>4. u = w \o <<v>>
        BY <3>2, <3>3
      <3>5. pair' = [pair EXCEPT ![k].val = u]
        BY <1>8, <2>1, <3>1, <3>3, Zenon
      <3>6. pair'[k].val = u /\ pair'[k].positions = pair[k].positions
        BY <1>1, <2>1, <3>5, Zenon DEF TableInv, Pairs
      <3>7. pair'[k].val = Replayed(db, k) \o <<call'.val>>
        BY <1>4, <3>2, <3>4, <3>6, Zenon
      <3>8. todo' = "append" /\ k \in Stored' /\ todo' # "write"
        BY <1>5, <1>8, <2>1, Zenon
      <3> QED
        BY <1>4, <2>1, <3>2, <3>6, <3>7, <3>8, Zenon DEF KeyExact
    <2>2. CASE x = k /\ k \notin Stored
      <3>1. LiveAt(db, k) = {} /\ todo' = "write"
        BY <1>1, <1>3, <1>8, <2>2, Zenon DEF KeyExact
      <3> QED
        BY <1>4, <2>2, <3>1, Zenon DEF KeyExact
    <2>3. CASE x # k
      <3>1. LiveAt(db', x) = LiveAt(db, x) /\ Replayed(db', x) = Replayed(db, x)
        BY <1>4, Zenon
      <3>2. (x \in Stored' <=> x \in Stored) /\ (x \in Stored => pair'[x] = pair[x])
        BY <1>1, <1>5, <1>8, <2>3, Zenon DEF NewPair, TableInv
      <3>3. todo = "none" /\ call'.key # x /\ KeyExact(x)
        BY <1>3, <1>4, <2>3, Zenon
      <3> QED
        BY <3>1, <3>2, <3>3, OthersExact, Zenon
    <2> QED
      BY <2>1, <2>2, <2>3, Zenon
  <1> QED
    BY <1>3, <1>4, <1>7, <1>9, Zenon DEF Settled

(* remove, where every chain has one pair: the positions of the chain's    *)
(* first pair are the key's own, and the count of removals stays below the *)
(* one that starts a rewrite.                                              *)
LEMMA DeleteExact ==
    ASSUME StoreInv, Undisturbed, Settled, NEW k \in conf.keys, Delete(k)
    PROVE  Settled'
  <1>1. TableInv /\ FileInv /\ k \in Keys /\ db \in Seq(Records)
    BY SetupFacts, Zenon DEF StoreInv, TableInv, FileInv
  <1>2. Request(Call("remove", k, k))
    BY Zenon DEF Delete
  <1>3. /\ ~rewriting /\ ~torn /\ todo = "none" /\ conf.persistent /\ conf' = conf
        /\ ops' \in Nat /\ ops' <= conf'.maxOps /\ nRem <= ops' /\ nRem + 1 <= ops'
        /\ nRem + 1 # conf.magicNumber
        /\ \A x \in Keys : KeyExact(x)
    BY <1>2, RequestFacts, Zenon
  <1>4. todo' = "none" /\ size' = size
    BY <1>3, Zenon DEF Delete, table
  <1>5. Apart(size)'
    BY <1>3, <1>4, Zenon DEF Apart, Slot, Settled
  <1>6. k \in ToSet(kvpairs[Slot(k, size)]) <=> k \in Stored
    BY <1>1, SetupFacts, ChainHolds, Zenon DEF TableInv
  <1>7. CASE k \notin Stored
    <2>1. db' = db /\ torn' = torn /\ pair' = pair /\ nRem' = nRem /\ rewriting' = rewriting
      BY <1>6, <1>7, Zenon DEF Delete, table, file
    <2>2. ASSUME NEW x \in Keys PROVE KeyExact(x)'
      BY <1>3, <1>4, <2>1, Zenon DEF KeyExact, Stored
    <2> QED
      BY <1>3, <1>5, <2>1, <2>2, Zenon DEF Settled
  <1>8. CASE k \in Stored
    <2>1. /\ pair' = [x \in Stored \ {k} |-> pair[x]] /\ Mark(ToRemove(k))
          /\ nRem' = nRem + 1 /\ rewriting' = rewriting
      BY <1>3, <1>6, <1>8, Zenon DEF Delete
    <2>2. Stored' = Stored \ {k}
      BY <2>1, Zenon DEF Stored
    <2>3. PICK plist : plist = pair[k].positions
      BY Zenon
    <2>4. Mark(plist)
      <3>1. PICK c : c = kvpairs[Slot(k, size)]
        BY Zenon
      <3>2. Slot(k, size) \in 0 .. size - 1
        BY <1>1, SetupFacts, SlotIsBucket, Zenon DEF TableInv
      <3>3. /\ c \in Seq(Keys) /\ k \in ToSet(c)
            /\ \A x \in ToSet(c) : x \in Keys /\ Slot(x, size) = Slot(k, size)
        BY <1>1, <1>6, <1>8, <3>1, <3>2, Zenon DEF TableInv, InChains
      <3>4. Head(c) \in ToSet(c)
        BY <3>3 DEF ToSet
      <3>5. Head(c) = k
        BY <1>1, <3>3, <3>4, Zenon DEF Settled, Apart
      <3> QED
        BY <2>1, <2>3, <3>1, <3>5, Zenon DEF ToRemove
    <2>5. LiveAt(db, k) = ToSet(plist) /\ Stray \notin ToSet(plist)
      BY <1>1, <1>3, <1>8, <2>3, LiveNotStray, Zenon DEF KeyExact
    <2>6. ASSUME NEW x \in Keys PROVE KeyExact(x)'
      <3>1. /\ LiveAt(db', x) = LiveAt(db, x) \ ToSet(plist)
            /\ LiveAt(db, x) \cap ToSet(plist) = {} => Replayed(db', x) = Replayed(db, x)
        BY <1>1, <1>3, <2>4, <2>5, MarkExact, Zenon
      <3>2. CASE x = k
        <4>1. LiveAt(db', x) = {} /\ x \notin Stored'
          BY <2>2, <2>5, <3>1, <3>2, Zenon
        <4> QED
          BY <4>1, Zenon DEF KeyExact
      <3>3. CASE x # k
        <4>1. LiveAt(db, x) \cap ToSet(plist) = {}
          BY <2>5, <3>3, LiveOnce, Zenon
        <4>2. LiveAt(db', x) = LiveAt(db, x) /\ Replayed(db', x) = Replayed(db, x)
          BY <3>1, <4>1, Zenon
        <4>3. (x \in Stored' <=> x \in Stored) /\ (x \in Stored => pair'[x] = pair[x])
          BY <2>1, <2>2, <3>3, Zenon
        <4>4. todo = "none" /\ todo' = "none" /\ KeyExact(x)
          BY <1>3, <1>4, Zenon
        <4> QED
          BY <4>2, <4>3, <4>4, OthersExact, Zenon
      <3> QED
        BY <3>2, <3>3, Zenon
    <2>7. ~torn'
      BY <1>1, <1>3, <2>4, <2>5, MarkExact, Zenon
    <2> QED
      BY <1>3, <1>5, <2>1, <2>6, <2>7, Zenon DEF Settled
  <1> QED
    BY <1>7, <1>8, Zenon

(* The second half of put, and of append for a new key: the whole value is *)
(* one record.                                                             *)
LEMMA WritePairExact ==
    ASSUME StoreInv, Undisturbed, Settled, WritePair
    PROVE  Settled'
  <1>1. /\ TableInv /\ FileInv /\ db \in Seq(Records) /\ todo = "write" /\ todo' = "none"
        /\ ~rewriting /\ rewriting' = rewriting /\ conf' = conf /\ size' = size
        /\ ops' = ops /\ nRem' = nRem /\ call' = call
        /\ ~torn /\ \A x \in Keys : KeyExact(x)
    BY Zenon DEF WritePair, Settled, StoreInv, FileInv
  <1>2. PICK k : k = call.key
    BY Zenon
  <1>3. PICK w : w = pair[k].val
    BY Zenon
  <1>4. k \in Stored /\ k \in Keys /\ w \in Seq(Vals)
    BY <1>1, <1>2, <1>3, Zenon DEF FileInv, TableInv, Pairs
  <1>5. Longer(db', db, k, w) /\ EndPosition = Len(db) + 1 /\ ~torn'
    BY <1>1, <1>2, <1>3, Zenon DEF WritePair, Written, Longer, EndPosition
  <1>6. PICK e : e = Len(db) + 1
    BY Zenon
  <1>7. pair' = [pair EXCEPT ![k].positions = <<e>>]
    BY <1>2, <1>5, <1>6, Zenon DEF WritePair
  <1>8. Stored' = Stored
    BY <1>7, Zenon DEF Stored
  <1>9. Apart(size)'
    BY <1>1, Zenon DEF Apart, Slot, Settled
  <1>10. ASSUME NEW x \in Keys PROVE KeyExact(x)'
    <2>1. /\ Replayed(db', x) = IF x = k THEN Replayed(db, x) \o w ELSE Replayed(db, x)
          /\ LiveAt(db', x) = IF x = k THEN LiveAt(db, x) \cup {e} ELSE LiveAt(db, x)
      <3>1. db \in Seq(Records) /\ k \in Keys /\ w \in Seq(Vals) /\ Longer(db', db, k, w)
        BY <1>1, <1>4, <1>5, Zenon
      <3>2. ReadsLonger(db', db, k, w, x)
        BY <3>1, ReplayWritten, Zenon
      <3> QED
        BY <1>6, <3>2, Zenon DEF ReadsLonger
    <2>2. CASE x = k
      <3>1. LiveAt(db, k) = {}
        BY <1>1, <1>2, <1>4, Zenon DEF KeyExact
      <3>2. Replayed(db, k) = <<>>
        BY <1>1, <3>1, ReplayNothing, Zenon
      <3>3. Replayed(db', k) = w /\ LiveAt(db', k) = {e}
        BY <1>4, <2>1, <2>2, <3>1, <3>2
      <3>4. pair'[k].val = w /\ pair'[k].positions = <<e>>
        BY <1>1, <1>3, <1>4, <1>7, Zenon DEF TableInv, Pairs
      <3>5. ToSet(<<e>>) = {e}
        BY DEF ToSet
      <3> QED
        BY <1>1, <1>4, <1>8, <2>2, <3>3, <3>4, <3>5, Zenon DEF KeyExact
    <2>3. CASE x # k
      <3>1. x \in Stored => pair'[x] = pair[x]
        BY <1>1, <1>7, <2>3, Zenon DEF TableInv
      <3>2. LiveAt(db', x) = LiveAt(db, x) /\ Replayed(db', x) = Replayed(db, x)
        BY <2>1, <2>3, Zenon
      <3>3. call.key # x /\ todo' = "none" /\ KeyExact(x) /\ Stored' = Stored
        BY <1>1, <1>2, <1>8, <2>3, Zenon
      <3> QED
        BY <3>1, <3>2, <3>3, OthersExact, Zenon
    <2> QED
      BY <2>2, <2>3, Zenon
  <1> QED
    BY <1>1, <1>5, <1>9, <1>10, Zenon DEF Settled

(* A position that append puts before the others of the key. *)
LEMMA OneInFront ==
    ASSUME NEW e \in Nat, NEW p \in Seq(Nat)
    PROVE  ToSet(<<e>> \o p) = ToSet(p) \cup {e}
  <1>1. <<e>> \in Seq(Nat) /\ ToSet(<<e>>) = {e}
    BY DEF ToSet
  <1>2. PICK s, K : s = <<e>> /\ K = Nat
    BY Zenon
  <1>3. s \in Seq(K) /\ p \in Seq(K)
    BY <1>1, <1>2, Zenon
  <1>4. ToSet(s \o p) = ToSet(s) \cup ToSet(p)
    BY <1>3, ConcatElements
  <1> QED
    BY <1>1, <1>2, <1>4, Zenon

(* The second half of append for a stored key: the piece is one record     *)
(* more, behind the others.                                                *)
LEMMA WriteAppendExact ==
    ASSUME StoreInv, Undisturbed, Settled, WriteAppend
    PROVE  Settled'
  <1>1. /\ TableInv /\ FileInv /\ db \in Seq(Records) /\ todo = "append" /\ todo' = "none"
        /\ ~rewriting /\ rewriting' = rewriting /\ conf' = conf /\ size' = size
        /\ ops' = ops /\ nRem' = nRem /\ call' = call
        /\ ~torn /\ \A x \in Keys : KeyExact(x)
    BY Zenon DEF WriteAppend, Settled, StoreInv, FileInv
  <1>2. PICK k : k = call.key
    BY Zenon
  <1>3. PICK w : w = <<call.val>>
    BY Zenon
  <1>4. k \in Stored /\ k \in Keys /\ w \in Seq(Vals)
    BY <1>1, <1>2, <1>3 DEF FileInv, TableInv
  <1>5. Longer(db', db, k, w) /\ EndPosition = Len(db) + 1 /\ ~torn'
    BY <1>1, <1>2, <1>3, Zenon DEF WriteAppend, Written, Longer, EndPosition
  <1>6. PICK e : e = Len(db) + 1
    BY Zenon
  <1>7. PICK p : p = pair[k].positions
    BY Zenon
  <1>8. PICK q : q = <<e>> \o p
    BY Zenon
  <1>9. pair' = [pair EXCEPT ![k].positions = q]
    BY <1>2, <1>5, <1>6, <1>7, <1>8, Zenon DEF WriteAppend
  <1>10. Stored' = Stored
    BY <1>9, Zenon DEF Stored
  <1>11. Apart(size)'
    BY <1>1, Zenon DEF Apart, Slot, Settled
  <1>12. ASSUME NEW x \in Keys PROVE KeyExact(x)'
    <2>1. /\ Replayed(db', x) = IF x = k THEN Replayed(db, x) \o w ELSE Replayed(db, x)
          /\ LiveAt(db', x) = IF x = k THEN LiveAt(db, x) \cup {e} ELSE LiveAt(db, x)
      <3>1. db \in Seq(Records) /\ k \in Keys /\ w \in Seq(Vals) /\ Longer(db', db, k, w)
        BY <1>1, <1>4, <1>5, Zenon
      <3>2. ReadsLonger(db', db, k, w, x)
        BY <3>1, ReplayWritten, Zenon
      <3> QED
        BY <1>6, <3>2, Zenon DEF ReadsLonger
    <2>2. CASE x = k
      <3>1. LiveAt(db, k) = ToSet(p) /\ pair[k].val = Replayed(db, k) \o w
        <4>1. todo # "write" /\ KeyExact(k)
          BY <1>1, <1>4, Zenon
        <4> QED
          BY <1>1, <1>2, <1>3, <1>4, <1>7, <4>1, Zenon DEF KeyExact
      <3>2. Replayed(db', k) = pair[k].val /\ LiveAt(db', k) = ToSet(p) \cup {e}
        BY <2>1, <2>2, <3>1, Zenon
      <3>3. pair'[k].val = pair[k].val /\ pair'[k].positions = q
        BY <1>1, <1>4, <1>9, Zenon DEF TableInv, Pairs
      <3>4. ToSet(q) = ToSet(p) \cup {e}
        <4>1. Len(db) \in Nat
          <5> HIDE DEF Records
          <5> QED
            BY <1>1
        <4>2. p \in Seq(Nat)
          BY <1>1, <1>4, <1>7, Zenon DEF TableInv, Pairs
        <4>3. e \in Nat
          BY <1>6, <4>1
        <4> QED
          BY <1>8, <4>2, <4>3, OneInFront, Zenon
      <3> QED
        BY <1>1, <1>4, <1>10, <2>2, <3>2, <3>3, <3>4, Zenon DEF KeyExact
    <2>3. CASE x # k
      <3>1. x \in Stored => pair'[x] = pair[x]
        BY <1>1, <1>9, <2>3, Zenon DEF TableInv
      <3>2. LiveAt(db', x) = LiveAt(db, x) /\ Replayed(db', x) = Replayed(db, x)
        BY <2>1, <2>3, Zenon
      <3>3. call.key # x /\ todo' = "none" /\ KeyExact(x) /\ Stored' = Stored
        BY <1>1, <1>2, <1>10, <2>3, Zenon
      <3> QED
        BY <3>1, <3>2, <3>3, OthersExact, Zenon
    <2> QED
      BY <2>2, <2>3, Zenon
  <1> QED
    BY <1>1, <1>5, <1>11, <1>12, Zenon DEF Settled

(* Nothing is written of an empty chain. *)
LEMMA NothingDumped ==
    ASSUME NEW st
    PROVE  FoldLeft(Dumped, st, <<>>) = st
  <1> DEFINE Fold(g) == g = [x \in SUBSET (DOMAIN <<>>) |->
                               IF x = {} THEN st ELSE Dumped(g[x \ {Max(x)}], <<>>[Max(x)])]
             G == CHOOSE g : Fold(g)
             E == [x \in {{}} |-> st]
  <1>1. FoldLeft(Dumped, st, <<>>) = G[DOMAIN <<>>]
    BY Zenon DEF FoldLeft, MapThenFoldSet
  <1>2. DOMAIN <<>> = {} /\ SUBSET {} = {{}}
    OBVIOUS
  <1>3. Fold(E)
    BY <1>2, Zenon
  <1>4. Fold(G)
    <2> HIDE DEF Fold, E
    <2> QED
      BY <1>3, Zenon
  <1> HIDE DEF G
  <1>5. G[{}] = st
    BY <1>2, <1>4, Zenon
  <1> QED
    BY <1>1, <1>2, <1>5, Zenon

(* The rewrite that a new server starts with goes over an empty table. *)
LEMMA RewriterExact ==
    ASSUME StoreInv, Undisturbed, Settled, Rewriter
    PROVE  Settled'
  <1>1. /\ TableInv /\ FileInv /\ conf' = conf /\ size' = size /\ ops' = ops /\ nRem' = nRem
        /\ todo' = todo
    BY Zenon DEF Rewriter, Truncate, Dump, Merge, StoreInv, table
  <1>2. Apart(size)'
    BY <1>1, Zenon DEF Apart, Slot, Settled
  <1>3. cursor # Off
    <2>1. cursor = Start \/ cursor \in 0 .. size - 1 \/ cursor >= size
      BY Zenon DEF Rewriter, Truncate, Dump, Merge
    <2> QED
      BY <1>1, <2>1 DEF TableInv, Start, Off
  <1>4. rewriting /\ ~torn /\ db = <<>> /\ Stored = {} /\ todo = "none"
    BY <1>1, <1>3, Zenon DEF FileInv, Settled
  <1>5. CASE Truncate
    <2>1. Stored' = Stored
      BY <1>1, <1>5, TruncateStep, Zenon
    <2>2. db' = <<>> /\ ~torn' /\ rewriting' = rewriting
      BY <1>5, Zenon DEF Truncate
    <2> QED
      BY <1>1, <1>2, <1>4, <2>1, <2>2, Zenon DEF Settled
  <1>6. CASE Dump
    <2>1. Stored' = Stored
      BY <1>1, <1>6, DumpStep, Zenon
    <2>2. kvpairs[cursor] = <<>>
      <3>1. kvpairs[cursor] \in Seq(Keys) /\ ToSet(kvpairs[cursor]) \subseteq Stored
        BY <1>1, <1>6, Zenon DEF Dump, TableInv, InChains
      <3>2. ASSUME kvpairs[cursor] # <<>> PROVE FALSE
        <4>1. 1 \in DOMAIN kvpairs[cursor]
          BY <3>1, <3>2
        <4> QED
          BY <1>4, <3>1, <4>1, Zenon DEF ToSet
      <3> QED
        BY <3>2, Zenon
    <2>3. PICK st : st = [db |-> db, pair |-> pair]
      BY Zenon
    <2>4. db' = FoldLeft(Dumped, st, <<>>).db
      BY <1>6, <2>2, <2>3, Zenon DEF Dump
    <2>5. db' = db
      BY <2>3, <2>4, NothingDumped
    <2>6. torn' = torn /\ rewriting' = rewriting
      BY <1>6, Zenon DEF Dump
    <2> QED
      BY <1>1, <1>2, <1>4, <2>1, <2>5, <2>6, Zenon DEF Settled
  <1>7. CASE Merge
    <2>1. Stored' = Stored
      BY <1>1, <1>7, MergeStep, Zenon
    <2>2. rewriting' = FALSE /\ db' = db /\ torn' = torn
      BY <1>7, Zenon DEF Merge, file
    <2>3. ASSUME NEW x \in Keys PROVE KeyExact(x)'
      <3>1. LiveAt(db', x) = {}
        BY <1>4, <2>2 DEF LiveAt
      <3> QED
        BY <1>4, <2>1, <3>1, Zenon DEF KeyExact
    <2> QED
      BY <1>1, <1>2, <1>4, <2>2, <2>3, Zenon DEF Settled
  <1> QED
    BY <1>5, <1>6, <1>7, Zenon DEF Rewriter

(* A server starts with nothing in its table and its file. *)
LEMMA ExactInit == Init => ExactInv
  <1> SUFFICES ASSUME Init, Undisturbed PROVE Settled
    BY Zenon DEF ExactInv
  <1>1. conf.maxOps \in Nat
    BY NoVoHTAssumption, Zenon DEF Init, Setup
  <1>2. Apart(size)
    BY Zenon DEF Init, Undisturbed, Apart
  <1>3. rewriting /\ ~torn /\ db = <<>> /\ todo = "none" /\ ops = 0 /\ nRem = 0
    BY Zenon DEF Init, Undisturbed
  <1>4. Stored = {}
    BY DEF Init, Stored
  <1> QED
    BY <1>1, <1>2, <1>3, <1>4 DEF Settled

(* The file stays exact: one step per operation.  A restart ends what the  *)
(* statement is about.                                                     *)
LEMMA ExactNext ==
    ASSUME StoreInv, ExactInv, [Next]_vars
    PROVE  ExactInv'
  <1> SUFFICES ASSUME Undisturbed' PROVE Settled'
    BY Zenon DEF ExactInv
  <1>1. restarts \in Nat
    BY Zenon DEF StoreInv, FileInv
  <1>2. conf' = conf
    BY Zenon DEF Next, Put, Extend, Delete, Request, WritePair, WriteAppend, Rewriter, Truncate, Dump,
           Merge, Flush, Restart, vars
  <1>3. CASE Restart
    <2>1. restarts' = restarts + 1 /\ restarts' = 0
      BY <1>3, Zenon DEF Restart, Undisturbed
    <2> QED
      BY <1>1, <2>1
  <1>4. ASSUME restarts' = restarts PROVE Undisturbed /\ Settled
    BY <1>2, <1>4, Zenon DEF Undisturbed, Slot, ExactInv
  <1>5. ASSUME NEW k \in conf.keys, NEW v \in Vals, Put(k, v) PROVE Settled'
    <2>1. restarts' = restarts
      BY <1>5, Zenon DEF Put, Request
    <2> QED
      BY <1>4, <1>5, <2>1, PutExact, Zenon
  <1>6. ASSUME NEW k \in conf.keys, NEW v \in Vals, Extend(k, v) PROVE Settled'
    <2>1. restarts' = restarts
      BY <1>6, Zenon DEF Extend, Request
    <2> QED
      BY <1>4, <1>6, <2>1, ExtendExact, Zenon
  <1>7. ASSUME NEW k \in conf.keys, Delete(k) PROVE Settled'
    <2>1. restarts' = restarts
      BY <1>7, Zenon DEF Delete, Request
    <2> QED
      BY <1>4, <1>7, <2>1, DeleteExact, Zenon
  <1>8. CASE WritePair
    BY <1>4, <1>8, WritePairExact, Zenon DEF WritePair
  <1>9. CASE WriteAppend
    BY <1>4, <1>9, WriteAppendExact, Zenon DEF WriteAppend
  <1>10. CASE Rewriter
    <2>1. restarts' = restarts
      BY <1>10, Zenon DEF Rewriter, Truncate, Dump, Merge
    <2> QED
      BY <1>4, <1>10, <2>1, RewriterExact, Zenon
  <1>11. CASE Flush \/ UNCHANGED vars
    <2>1. UNCHANGED <<size, pair, nRem, todo, rewriting, db, torn, call, ops, restarts>>
      BY <1>11, Zenon DEF Flush, vars, table, file
    <2>2. Settled
      BY <1>4, <2>1, Zenon
    <2>3. ASSUME NEW x \in Keys, KeyExact(x) PROVE KeyExact(x)'
      BY <2>1, <2>3, Zenon DEF KeyExact, Stored
    <2> QED
      BY <1>2, <2>1, <2>2, <2>3, Zenon DEF Settled, Apart, Slot, Stored
  <1> QED
    BY <1>3, <1>5, <1>6, <1>7, <1>8, <1>9, <1>10, <1>11, Zenon DEF Next

(* Between requests the file holds exactly the table, for every number of  *)
(* keys, requests and resizes: put marks all the records of the value that *)
(* it replaces, append leaves them, remove marks all of them, and the      *)
(* records are in the order in which append joined the pieces.             *)
THEOREM FileSound == Spec => []FileExact
  <1>1. ASSUME StoreInv, ExactInv PROVE FileExact
    <2> SUFFICES ASSUME Undisturbed, todo = "none", ~rewriting, NEW k \in Keys
                 PROVE  Replayed(db, k) = Get(k)
      BY Zenon DEF FileExact
    <2>1. TableInv /\ db \in Seq(Records) /\ KeyExact(k)
      BY <1>1, Zenon DEF StoreInv, FileInv, ExactInv, Settled
    <2>2. Get(k) = IF k \in Stored THEN pair[k].val ELSE <<>>
      BY <2>1, GetStored, Zenon
    <2>3. CASE k \in Stored
      BY <2>1, <2>2, <2>3, Zenon DEF KeyExact
    <2>4. CASE k \notin Stored
      <3>1. LiveAt(db, k) = {}
        BY <2>1, <2>4, Zenon DEF KeyExact
      <3> QED
        BY <2>1, <2>2, <2>4, <3>1, ReplayNothing, Zenon
    <2> QED
      BY <2>3, <2>4, Zenon
  <1> QED
    BY <1>1, ExactInit, ExactNext, StoreInvariant, PTL DEF Spec
=============================================================================
