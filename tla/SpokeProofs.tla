---------------------------- MODULE SpokeProofs ----------------------------
(***************************************************************************)
(* What a sealed shard contains, for every configuration of the daemon     *)
(* and every interleaving of its steps with those of compile_session.      *)
(*                                                                         *)
(* The spoke reads the tables one after the other, so what it holds is     *)
(* compared with the tables as they are now: the packets it read are       *)
(* still there, and no fault or quote at their numbers can have been       *)
(* added since, because the packetizer files new ones past the packets     *)
(* it has stored.                                                          *)
(***************************************************************************)
EXTENDS Spoke, PacketizerProofs, DataLemmas, FiniteSetTheorems

\* The order of the SELECT statements.
Ordered(table, p) ==
    \A k, l \in DOMAIN p : k < l =>
        \/ table[p[k]].seq < table[p[l]].seq
        \/ table[p[k]].seq = table[p[l]].seq /\ p[k] < p[l]

\* Of any rows there is one that comes first.
LEMMA FirstRow ==
    ASSUME NEW table, NEW ids \in SUBSET Nat, ids # {},
           \A i \in ids : table[i].seq \in Nat
    PROVE  \E i \in ids : \A j \in ids : j # i =>
               table[i].seq < table[j].seq \/ (table[i].seq = table[j].seq /\ i < j)
<1> DEFINE seqs == {table[i].seq : i \in ids}
<1>1. PICK s \in seqs : \A x \in seqs : s <= x
  <2>1. seqs \in SUBSET Nat /\ seqs # {}
    OBVIOUS
  <2> HIDE DEF seqs
  <2> QED BY <2>1, LeastNatural
<1> DEFINE T == {i \in ids : table[i].seq = s}
<1>2. PICK i \in T : \A j \in T : i <= j
  <2>1. T \in SUBSET Nat /\ T # {}
    BY <1>1
  <2> HIDE DEF T
  <2> QED BY <2>1, LeastNatural
<1>3. ASSUME NEW j \in ids, j # i
      PROVE  table[i].seq < table[j].seq \/ (table[i].seq = table[j].seq /\ i < j)
  <2>1. s <= table[j].seq /\ table[i].seq = s /\ s \in Nat /\ table[j].seq \in Nat
    BY <1>1, <1>2
  <2>2. CASE table[j].seq = s
    <3>1. i <= j /\ i \in Nat /\ j \in Nat /\ j # i
      BY <1>2, <1>3, <2>2
    <3>2. i < j
      BY <3>1
    <3> QED BY <2>1, <2>2, <3>2
  <2>3. CASE table[j].seq # s
    BY <2>1, <2>3
  <2> QED BY <2>2, <2>3
<1> QED BY <1>2, <1>3

\* Rows can be ordered.
LEMMA OrderExists ==
    ASSUME NEW table
    PROVE  \A n \in Nat : \A ids \in SUBSET Nat :
              IsFiniteSet(ids) /\ Cardinality(ids) = n /\ (\A i \in ids : table[i].seq \in Nat) =>
                 \E p \in [1 .. n -> ids] : Ordered(table, p)
<1> DEFINE S == {n \in Nat : \A ids \in SUBSET Nat :
              IsFiniteSet(ids) /\ Cardinality(ids) = n /\ (\A i \in ids : table[i].seq \in Nat) =>
                 \E p \in [1 .. n -> ids] : Ordered(table, p)}
<1>1. 0 \in S
  <2> SUFFICES ASSUME NEW ids \in SUBSET Nat PROVE \E p \in [1 .. 0 -> ids] : Ordered(table, p)
    OBVIOUS
  <2> DEFINE p == [k \in 1 .. 0 |-> 0]
  <2>1. p \in [1 .. 0 -> ids] /\ DOMAIN p = {}
    OBVIOUS
  <2> HIDE DEF p
  <2>2. Ordered(table, p)
    BY <2>1 DEF Ordered
  <2> QED BY <2>1, <2>2
<1>2. ASSUME NEW n \in Nat, n \in S PROVE n + 1 \in S
  <2> SUFFICES ASSUME NEW ids \in SUBSET Nat, IsFiniteSet(ids), Cardinality(ids) = n + 1,
                      \A i \in ids : table[i].seq \in Nat
               PROVE  \E p \in [1 .. n + 1 -> ids] : Ordered(table, p)
    OBVIOUS
  <2>1. ids # {}
    BY FS_EmptySet
  <2>2. PICK i \in ids : \A j \in ids : j # i =>
               table[i].seq < table[j].seq \/ (table[i].seq = table[j].seq /\ i < j)
    BY <2>1, FirstRow
  <2> DEFINE rest == ids \ {i}
  <2>3. rest \in SUBSET Nat /\ IsFiniteSet(rest) /\ Cardinality(rest) = n
    <3>1. IsFiniteSet(rest) /\ Cardinality(rest) = Cardinality(ids) - 1
      BY FS_RemoveElement
    <3> QED BY <3>1
  <2>4. PICK p \in [1 .. n -> rest] : Ordered(table, p)
    <3>1. \A j \in rest : table[j].seq \in Nat
      OBVIOUS
    <3> HIDE DEF rest
    <3> QED BY <1>2, <2>3, <3>1
  <2> DEFINE q == [k \in 1 .. n + 1 |-> IF k = 1 THEN i ELSE p[k - 1]]
  <2>5. /\ DOMAIN q = 1 .. n + 1 /\ q[1] = i
        /\ \A k \in 2 .. n + 1 : q[k] = p[k - 1] /\ k - 1 \in 1 .. n /\ q[k] \in rest
    OBVIOUS
  <2>6. q \in [1 .. n + 1 -> ids]
    OBVIOUS
  <2> HIDE DEF q
  <2>7. ASSUME NEW k \in 1 .. n + 1, NEW l \in 1 .. n + 1, k < l
        PROVE  \/ table[q[k]].seq < table[q[l]].seq
               \/ table[q[k]].seq = table[q[l]].seq /\ q[k] < q[l]
    <3>1. l \in 2 .. n + 1
      BY <2>7
    <3>2. CASE k = 1
      <4>1. q[l] \in ids /\ q[l] # i /\ q[k] = i
        BY <2>5, <3>1, <3>2
      <4> QED BY <2>2, <4>1
    <3>3. CASE k # 1
      <4>1. k \in 2 .. n + 1 /\ k - 1 < l - 1
        BY <2>7, <3>3
      <4>2. q[k] = p[k - 1] /\ q[l] = p[l - 1] /\ k - 1 \in DOMAIN p /\ l - 1 \in DOMAIN p
        BY <2>5, <3>1, <4>1
      <4> QED BY <2>4, <4>1, <4>2 DEF Ordered
    <3> QED BY <3>2, <3>3
  <2>8. Ordered(table, q)
    BY <2>5, <2>7 DEF Ordered
  <2> QED BY <2>6, <2>8
<1> HIDE DEF S
<1>3. \A n \in Nat : n \in S
  BY <1>1, <1>2, SetInduction
<1> QED BY <1>3 DEF S

\* What a SELECT of some rows returns: those rows, each once, in the order of seq.
LEMMA Rows ==
    ASSUME NEW table, NEW ids \in SUBSET Nat, IsFiniteSet(ids),
           \A i \in ids : table[i].seq \in Nat
    PROVE  \E p \in [1 .. Cardinality(ids) -> ids] :
              /\ Cardinality(ids) \in Nat
              /\ InOrder(table, ids) = [k \in 1 .. Cardinality(ids) |-> table[p[k]]]
              /\ \A i \in ids : \E k \in 1 .. Cardinality(ids) : p[k] = i
              /\ \A k, l \in 1 .. Cardinality(ids) : k < l =>
                    p[k] # p[l] /\ table[p[k]].seq <= table[p[l]].seq
<1> DEFINE n == Cardinality(ids)
           p == CHOOSE p \in [1 .. n -> ids] :
                    \A k, l \in DOMAIN p : k < l =>
                        \/ table[p[k]].seq < table[p[l]].seq
                        \/ table[p[k]].seq = table[p[l]].seq /\ p[k] < p[l]
<1>1. n \in Nat
  BY FS_CardinalityType
<1>2. InOrder(table, ids) = [k \in DOMAIN p |-> table[p[k]]]
  BY DEF InOrder
<1> HIDE DEF n
<1>3. \E q \in [1 .. n -> ids] : Ordered(table, q)
  BY <1>1, OrderExists DEF n
<1>4. p \in [1 .. n -> ids] /\ Ordered(table, p)
  BY <1>3 DEF Ordered
<1> HIDE DEF p
<1>5. ASSUME NEW k \in 1 .. n, NEW l \in 1 .. n, k < l
      PROVE  p[k] # p[l] /\ table[p[k]].seq <= table[p[l]].seq
  <2>1. p[k] \in Nat /\ p[l] \in Nat /\ table[p[k]].seq \in Nat /\ table[p[l]].seq \in Nat
    BY <1>4
  <2>2. \/ table[p[k]].seq < table[p[l]].seq
        \/ table[p[k]].seq = table[p[l]].seq /\ p[k] < p[l]
    BY <1>4, <1>5 DEF Ordered
  <2> QED BY <2>1, <2>2
<1>6. p \in Injection(1 .. n, ids)
  <2>1. ASSUME NEW k \in 1 .. n, NEW l \in 1 .. n, p[k] = p[l] PROVE k = l
    <3>1. ~(k < l) /\ ~(l < k)
      BY <1>5, <2>1
    <3> QED BY <1>1, <3>1
  <2> QED BY <1>4, <2>1 DEF Injection, IsInjective
<1>7. Cardinality(1 .. n) = n
  <2>1. IF 1 > n THEN n = 0 ELSE n - 1 + 1 = n
    BY <1>1
  <2> QED BY <1>1, <2>1, FS_Interval
<1>8. p \in Surjection(1 .. n, ids)
  BY <1>6, <1>7, FS_Injection DEF n
<1>9. \A i \in ids : \E k \in 1 .. n : p[k] = i
  BY <1>8 DEF Surjection
<1>10. InOrder(table, ids) = [k \in 1 .. n |-> table[p[k]]]
  BY <1>2, <1>4
<1> QED BY <1>1, <1>4, <1>5, <1>9, <1>10 DEF n

-----------------------------------------------------------------------------
(***************************************************************************)
(* The files of a shard are its parts put together.                        *)
(***************************************************************************)
\* F[k] is the first k parts, put together, for k up to m.
Joins(parts, m, F) ==
    /\ F[0] = <<>>
    /\ \A k \in 1 .. m : F[k] = F[k - 1] \o parts[k]

\* Sequences put together are a sequence.
LEMMA Concat ==
    ASSUME NEW R, NEW a \in Seq(R), NEW b \in Seq(R)
    PROVE  \E c \in Seq(R) : c = a \o b
<1>1. a \o b \in Seq(R)
  OBVIOUS
<1> QED BY <1>1

\* The parts can be put together.
LEMMA JoinExists ==
    ASSUME NEW R, NEW parts \in Seq(Seq(R))
    PROVE  \E F \in [0 .. Len(parts) -> Seq(R)] : Joins(parts, Len(parts), F)
<1> DEFINE n == Len(parts)
           Part(m) == \E F \in [0 .. m -> Seq(R)] : Joins(parts, m, F)
           S == {m \in Nat : m <= n => Part(m)}
<1>0. n \in Nat
  OBVIOUS
<1>1. 0 \in S
  <2> DEFINE F == [k \in 0 .. 0 |-> <<>>]
  <2>1. <<>> \in Seq(R)
    OBVIOUS
  <2>2. F \in [0 .. 0 -> Seq(R)] /\ F[0] = <<>>
    BY <2>1
  <2> HIDE DEF F
  <2>3. Joins(parts, 0, F)
    BY <2>2 DEF Joins
  <2> QED BY <2>2, <2>3
<1>2. ASSUME NEW m \in Nat, m \in S PROVE m + 1 \in S
  <2> SUFFICES ASSUME m + 1 <= n PROVE \E F \in [0 .. m + 1 -> Seq(R)] : Joins(parts, m + 1, F)
    OBVIOUS
  <2>1. m <= n
    BY <1>0
  <2>2. PICK F \in [0 .. m -> Seq(R)] : Joins(parts, m, F)
    BY <1>2, <2>1
  <2>3. parts[m + 1] \in Seq(R) /\ F[m] \in Seq(R)
    <3>1. m + 1 \in 1 .. Len(parts) /\ m \in 0 .. m
      BY <1>0
    <3>2. \A k \in 1 .. Len(parts) : parts[k] \in Seq(R)
      OBVIOUS
    <3> QED BY <3>1, <3>2
  <2>4. PICK last \in Seq(R) : last = F[m] \o parts[m + 1]
    BY <2>3, Concat
  <2> DEFINE G == [k \in 0 .. m + 1 |-> IF k = m + 1 THEN last ELSE F[k]]
  <2>5. /\ G \in [0 .. m + 1 -> Seq(R)] /\ G[m + 1] = last
        /\ \A k \in 0 .. m : G[k] = F[k]
    BY <2>4
  <2> HIDE DEF G
  <2>6. G[0] = <<>>
    BY <2>2, <2>5 DEF Joins
  <2>7. ASSUME NEW k \in 1 .. m + 1 PROVE G[k] = G[k - 1] \o parts[k]
    <3>1. CASE k = m + 1
      <4>1. k - 1 = m /\ G[m] = F[m]
        BY <2>5, <3>1
      <4> QED BY <2>4, <2>5, <3>1, <4>1
    <3>2. CASE k # m + 1
      <4>1. k \in 1 .. m /\ k \in 0 .. m /\ k - 1 \in 0 .. m
        BY <3>2
      <4>2. G[k] = F[k] /\ G[k - 1] = F[k - 1]
        BY <2>5, <4>1
      <4> QED BY <2>2, <4>1, <4>2 DEF Joins
    <3> QED BY <3>1, <3>2
  <2>8. Joins(parts, m + 1, G)
    BY <2>6, <2>7 DEF Joins
  <2> QED BY <2>5, <2>8
<1> HIDE DEF S
<1>3. \A m \in Nat : m \in S
  BY <1>1, <1>2, SetInduction
<1>4. n \in S /\ n <= n
  BY <1>0, <1>3
<1> HIDE DEF Part, n
<1>5. Part(n)
  BY <1>4 DEF S
<1> QED BY <1>5 DEF Part, n

\* FlattenSeq puts the parts together.
LEMMA FlattenJoins ==
    ASSUME NEW R, NEW parts \in Seq(Seq(R)),
           NEW F \in [0 .. Len(parts) -> Seq(R)], Joins(parts, Len(parts), F)
    PROVE  FlattenSeq(parts) = F[Len(parts)]
<1> DEFINE n == Len(parts)
<1>0. n \in Nat
  OBVIOUS
<1>1. CASE n = 0
  <2>1. FlattenSeq(parts) = parts /\ parts = <<>>
    BY <1>1 DEF FlattenSeq
  <2> QED BY <1>1, <2>1 DEF Joins
<1>2. CASE n # 0
  <2> DEFINE flatten == CHOOSE f : f = [i \in 1 .. n |-> IF i = 1 THEN parts[i]
                                                          ELSE f[i - 1] \o parts[i]]
             f == [i \in 1 .. n |-> F[i]]
  <2>1. FlattenSeq(parts) = flatten[n]
    BY <1>2 DEF FlattenSeq
  <2>2. ASSUME NEW i \in 1 .. n
        PROVE  f[i] = IF i = 1 THEN parts[i] ELSE f[i - 1] \o parts[i]
    <3>1. F[i] = F[i - 1] \o parts[i] /\ f[i] = F[i]
      BY DEF Joins
    <3>2. CASE i = 1
      <4>1. F[i - 1] = <<>> /\ parts[i] \in Seq(R)
        BY <3>2 DEF Joins
      <4> QED BY <3>1, <3>2, <4>1
    <3>3. CASE i # 1
      <4>1. i - 1 \in 1 .. n
        BY <1>0, <3>3
      <4>2. f[i - 1] = F[i - 1]
        BY <4>1
      <4> QED BY <3>1, <3>3, <4>2
    <3> QED BY <3>2, <3>3
  <2>3. DOMAIN f = 1 .. n /\ f = [i \in 1 .. n |-> f[i]]
    OBVIOUS
  <2> HIDE DEF f
  <2>4. f = [i \in 1 .. n |-> IF i = 1 THEN parts[i] ELSE f[i - 1] \o parts[i]]
    BY <2>2, <2>3
  <2>5. flatten = [i \in 1 .. n |-> IF i = 1 THEN parts[i] ELSE flatten[i - 1] \o parts[i]]
    BY <2>4
  <2> HIDE DEF flatten
  <2> DEFINE S == {m \in Nat : m + 1 \in 1 .. n => flatten[m + 1] = f[m + 1]}
  <2>6. 0 \in S
    <3>1. 0 + 1 = 1
      OBVIOUS
    <3>2. ASSUME 1 \in 1 .. n PROVE flatten[1] = f[1]
      BY <2>4, <2>5, <3>2
    <3> QED BY <3>1, <3>2
  <2>7. ASSUME NEW m \in Nat, m \in S PROVE m + 1 \in S
    <3> SUFFICES ASSUME m + 1 + 1 \in 1 .. n PROVE flatten[m + 1 + 1] = f[m + 1 + 1]
      OBVIOUS
    <3>1. m + 1 \in 1 .. n /\ m + 1 + 1 # 1 /\ m + 1 + 1 - 1 = m + 1
      BY <1>0
    <3>2. flatten[m + 1] = f[m + 1]
      BY <2>7, <3>1
    <3> HIDE DEF S
    <3>3. PICK i \in 1 .. n : i = m + 1 + 1
      OBVIOUS
    <3>4. i # 1 /\ i - 1 = m + 1
      BY <3>1, <3>3
    <3>5. flatten[i] = flatten[i - 1] \o parts[i]
      BY <2>5, <3>4
    <3>6. f[i] = f[i - 1] \o parts[i]
      BY <2>4, <3>4
    <3> QED BY <3>2, <3>3, <3>4, <3>5, <3>6
  <2> HIDE DEF S
  <2>8. \A m \in Nat : m \in S
    BY <2>6, <2>7, SetInduction
  <2>9. n - 1 \in Nat /\ n - 1 + 1 = n /\ n \in 1 .. n
    BY <1>0, <1>2
  <2>10. flatten[n] = f[n]
    BY <2>8, <2>9 DEF S
  <2>11. f[n] = F[n]
    BY <2>9 DEF f
  <2> QED BY <2>1, <2>10, <2>11
<1> QED BY <1>1, <1>2

\* The types of what is put together.
LEMMA JoinTypes ==
    ASSUME NEW R, NEW parts \in Seq(Seq(R)), NEW F \in [0 .. Len(parts) -> Seq(R)]
    PROVE  /\ Len(parts) \in Nat
           /\ \A k \in 1 .. Len(parts) : parts[k] \in Seq(R)
           /\ \A k \in 0 .. Len(parts) : F[k] \in Seq(R)
OBVIOUS

\* Where the second of two joined sequences is.
LEMMA ConcatRight ==
    ASSUME NEW R, NEW a \in Seq(R), NEW b \in Seq(R), NEW i \in 1 .. Len(b)
    PROVE  (a \o b)[Len(a) + i] = b[i]
OBVIOUS

\* The elements of a slice.
LEMMA SliceAt ==
    ASSUME NEW R, NEW s \in Seq(R), NEW off \in Nat, NEW m \in Nat, off + m <= Len(s),
           NEW i \in 1 .. m
    PROVE  SubSeq(s, off + 1, off + m)[i] = s[off + i]
OBVIOUS

\* Each part is added to what is there.
Steps(R, parts, F) ==
    \A k \in 1 .. Len(parts) :
        F[k - 1] \in Seq(R) /\ parts[k] \in Seq(R) /\ F[k] = F[k - 1] \o parts[k]

\* One more part.
LEMMA JoinStep ==
    ASSUME NEW R, NEW parts \in Seq(Seq(R)),
           NEW F \in [0 .. Len(parts) -> Seq(R)], Joins(parts, Len(parts), F)
    PROVE  Steps(R, parts, F)
<1> SUFFICES ASSUME NEW k \in 1 .. Len(parts)
             PROVE  F[k - 1] \in Seq(R) /\ parts[k] \in Seq(R) /\ F[k] = F[k - 1] \o parts[k]
  BY DEF Steps
<1>1. parts[k] \in Seq(R)
  BY JoinTypes
<1>2. F[k - 1] \in Seq(R)
  <2>1. Len(parts) \in Nat
    BY JoinTypes
  <2>2. k - 1 \in 0 .. Len(parts)
    BY <2>1
  <2> QED BY <2>2
<1>3. F[k] = F[k - 1] \o parts[k]
  BY DEF Joins
<1> QED BY <1>1, <1>2, <1>3

\* What comes first in a file stays where it is.
Grows(parts, F) ==
    \A k \in 0 .. Len(parts) : \A l \in Nat : l \in k .. Len(parts) =>
        /\ Len(F[k]) <= Len(F[l])
        /\ \A i \in 1 .. Len(F[k]) : F[l][i] = F[k][i]

\* Adding a part leaves what is there where it is.
LEMMA JoinGrows ==
    ASSUME NEW R, NEW parts \in Seq(Seq(R)),
           NEW F \in [0 .. Len(parts) -> Seq(R)], Joins(parts, Len(parts), F)
    PROVE  Grows(parts, F)
<1>s. ASSUME NEW j \in 1 .. Len(parts)
      PROVE  F[j - 1] \in Seq(R) /\ parts[j] \in Seq(R) /\ F[j] = F[j - 1] \o parts[j]
  <2>1. Steps(R, parts, F)
    BY JoinStep
  <2> QED BY <2>1 DEF Steps
<1> SUFFICES ASSUME NEW k \in 0 .. Len(parts)
             PROVE  \A l \in Nat : l \in k .. Len(parts) =>
                       /\ Len(F[k]) <= Len(F[l])
                       /\ \A i \in 1 .. Len(F[k]) : F[l][i] = F[k][i]
  BY DEF Grows
<1> DEFINE n == Len(parts)
           Grown(l) == /\ Len(F[k]) <= Len(F[l])
                       /\ \A i \in 1 .. Len(F[k]) : F[l][i] = F[k][i]
           S == {l \in Nat : l \in k .. n => Grown(l)}
<1>0. n \in Nat /\ k \in Nat
  OBVIOUS
<1>1. Grown(k)
  <2>1. F[k] \in Seq(R)
    OBVIOUS
  <2> QED BY <2>1
<1>2. 0 \in S
  <2>1. 0 \in k .. n => k = 0
    BY <1>0
  <2> HIDE DEF Grown
  <2> QED BY <1>1, <2>1
<1>3. ASSUME NEW l \in Nat, l \in S PROVE l + 1 \in S
  <2> HIDE DEF Grown
  <2> SUFFICES ASSUME l + 1 \in k .. n PROVE Grown(l + 1)
    OBVIOUS
  <2>1. CASE l + 1 = k
    BY <1>1, <2>1
  <2>2. CASE l + 1 # k
    <3>1. l \in k .. n /\ l + 1 \in 1 .. n /\ l + 1 - 1 = l /\ l \in 0 .. n
      BY <1>0, <2>2
    <3>2. Grown(l)
      BY <1>3, <3>1
    <3> HIDE DEF S
    <3>3. PICK j \in 1 .. Len(parts) : j = l + 1
      BY <3>1
    <3>4. PICK a \in Seq(R), b \in Seq(R) : a = F[j - 1] /\ b = parts[j] /\ F[j] = a \o b
      <4>1. F[j - 1] \in Seq(R) /\ parts[j] \in Seq(R) /\ F[j] = F[j - 1] \o parts[j]
        BY <1>s
      <4> QED BY <4>1
    <3>a. j - 1 = l
      BY <3>3
    <3>5. PICK c \in Seq(R) : c = F[k]
      OBVIOUS
    <3>6. Len(c) <= Len(a) /\ \A i \in 1 .. Len(c) : a[i] = c[i]
      BY <3>2, <3>4, <3>5, <3>a DEF Grown
    <3>7. Len(c) <= Len(a \o b) /\ \A i \in 1 .. Len(c) : (a \o b)[i] = c[i]
      BY <3>6
    <3> QED BY <3>3, <3>4, <3>5, <3>7 DEF Grown
  <2> QED BY <2>1, <2>2
<1> HIDE DEF S
<1>4. \A l \in Nat : l \in S
  BY <1>2, <1>3, SetInduction
<1> QED BY <1>4 DEF S

\* The place of a part in the file.
LEMMA PartPlace ==
    ASSUME NEW R, NEW parts \in Seq(Seq(R)), NEW k \in 1 .. Len(parts)
    PROVE  /\ FlattenSeq(parts) \in Seq(R) /\ parts[k] \in Seq(R) /\ Offset(parts, k) \in Nat
           /\ Offset(parts, k) + Len(parts[k]) <= Len(FlattenSeq(parts))
           /\ \A i \in 1 .. Len(parts[k]) :
                 FlattenSeq(parts)[Offset(parts, k) + i] = parts[k][i]
<1>1. PICK F \in [0 .. Len(parts) -> Seq(R)] : Joins(parts, Len(parts), F)
  BY JoinExists
<1>2. PICK n \in Nat : n = Len(parts)
  OBVIOUS
<1>3. k - 1 \in 0 .. n /\ k \in 0 .. n /\ n \in 0 .. n /\ n \in k .. n
  BY <1>2
<1>4. Offset(parts, k) = Len(F[k - 1])
  <2>1. PICK m \in 0 .. n : m = k - 1
    BY <1>3
  <2> DEFINE first == SubSeq(parts, 1, m)
             G == [i \in 0 .. m |-> F[i]]
  <2>2. first \in Seq(Seq(R)) /\ Len(first) = m /\ \A i \in 1 .. m : first[i] = parts[i]
    BY <1>2
  <2>3. \A i \in 0 .. m : i \in 0 .. n
    OBVIOUS
  <2>4. G \in [0 .. m -> Seq(R)] /\ \A i \in 0 .. m : G[i] = F[i]
    BY <1>2, <2>3
  <2> HIDE DEF first, G
  <2>5. G[0] = <<>>
    BY <1>1, <2>4 DEF Joins
  <2>6. ASSUME NEW i \in 1 .. m PROVE G[i] = G[i - 1] \o first[i]
    <3>1. i \in 1 .. n /\ i \in 0 .. m /\ i - 1 \in 0 .. m
      OBVIOUS
    <3>2. F[i] = F[i - 1] \o parts[i]
      BY <1>1, <1>2, <3>1 DEF Joins
    <3> QED BY <2>2, <2>4, <3>1, <3>2
  <2>7. Joins(first, Len(first), G)
    BY <2>2, <2>5, <2>6 DEF Joins
  <2>8. FlattenSeq(first) = G[m]
    BY <2>2, <2>4, <2>7, FlattenJoins
  <2>9. G[m] = F[k - 1]
    BY <2>1, <2>4
  <2> QED BY <2>1, <2>8, <2>9 DEF Offset, first
<1>5. PICK a \in Seq(R), b \in Seq(R) : a = F[k - 1] /\ b = parts[k] /\ F[k] = a \o b
  <2>0. Steps(R, parts, F)
    BY <1>1, JoinStep
  <2>1. F[k - 1] \in Seq(R) /\ parts[k] \in Seq(R) /\ F[k] = F[k - 1] \o parts[k]
    BY <2>0 DEF Steps
  <2> QED BY <2>1
<1>6. PICK c \in Seq(R) : c = F[k] /\ c = a \o b
  BY <1>5, Concat
<1>7. PICK d \in Seq(R) : d = F[n]
  BY <1>2, <1>3, JoinTypes
<1>8. d = FlattenSeq(parts)
  BY <1>1, <1>2, <1>7, FlattenJoins
<1>9. Len(c) <= Len(d) /\ \A i \in 1 .. Len(c) : d[i] = c[i]
  <2>1. k \in 0 .. Len(parts)
    BY <1>2, <1>3
  <2>2. n \in Nat /\ n \in k .. Len(parts)
    BY <1>2, <1>3
  <2>3. Grows(parts, F)
    BY <1>1, JoinGrows
  <2>4. /\ Len(F[k]) <= Len(F[n])
        /\ \A i \in 1 .. Len(F[k]) : F[n][i] = F[k][i]
    BY <2>1, <2>2, <2>3 DEF Grows
  <2> QED BY <1>6, <1>7, <2>4
<1>10. /\ Len(a) + Len(b) <= Len(d)
       /\ \A i \in 1 .. Len(b) : d[Len(a) + i] = b[i]
  <2>1. Len(c) = Len(a) + Len(b)
    BY <1>6
  <2>2. ASSUME NEW i \in 1 .. Len(b) PROVE d[Len(a) + i] = b[i]
    <3>1. Len(a) + i \in 1 .. Len(c)
      BY <2>1
    <3>2. c[Len(a) + i] = b[i]
      BY <1>6, ConcatRight
    <3> QED BY <1>9, <3>1, <3>2
  <2> QED BY <1>9, <2>1, <2>2
<1>11. PICK off \in Nat : off = Len(a)
  OBVIOUS
<1>12. off = Offset(parts, k)
  BY <1>4, <1>5, <1>11
<1> QED BY <1>5, <1>8, <1>10, <1>11, <1>12

\* The slice an index locates for a part is that part.
LEMMA Located ==
    ASSUME NEW R, NEW parts \in Seq(Seq(R)), NEW k \in 1 .. Len(parts)
    PROVE  SubSeq(FlattenSeq(parts), Offset(parts, k) + 1,
                  Min({Len(FlattenSeq(parts)), Offset(parts, k) + Len(parts[k])})) = parts[k]
<1>1. PICK file \in Seq(R), part \in Seq(R), off \in Nat :
            /\ file = FlattenSeq(parts) /\ part = parts[k] /\ off = Offset(parts, k)
            /\ off + Len(part) <= Len(file)
            /\ \A i \in 1 .. Len(part) : file[off + i] = part[i]
  <2>1. /\ FlattenSeq(parts) \in Seq(R) /\ parts[k] \in Seq(R) /\ Offset(parts, k) \in Nat
        /\ Offset(parts, k) + Len(parts[k]) <= Len(FlattenSeq(parts))
        /\ \A i \in 1 .. Len(parts[k]) :
              FlattenSeq(parts)[Offset(parts, k) + i] = parts[k][i]
    BY PartPlace
  <2> QED BY <2>1
<1>2. Min({Len(file), off + Len(part)}) = off + Len(part)
  <2> DEFINE end == off + Len(part)
  <2>1. end \in Nat /\ Len(file) \in Nat /\ end <= Len(file)
    BY <1>1
  <2> HIDE DEF end
  <2>2. Min({Len(file), end}) = CHOOSE x \in {Len(file), end} : \A y \in {Len(file), end} : x <= y
    BY DEF Min
  <2>3. \A x \in {Len(file), end} : (\A y \in {Len(file), end} : x <= y) => x = end
    BY <2>1
  <2>4. \E x \in {Len(file), end} : \A y \in {Len(file), end} : x <= y
    BY <2>1
  <2>5. Min({Len(file), end}) = end
    BY <2>2, <2>3, <2>4
  <2> QED BY <2>5 DEF end
<1>3. SubSeq(file, off + 1, off + Len(part)) = part
  <2> DEFINE s == SubSeq(file, off + 1, off + Len(part))
  <2>1. s \in Seq(R) /\ Len(s) = Len(part) /\ \A i \in 1 .. Len(s) : s[i] = file[off + i]
    <3>1. PICK m \in Nat : m = Len(part)
      OBVIOUS
    <3>2. off + m <= Len(file)
      BY <1>1, <3>1
    <3>3. SubSeq(file, off + 1, off + m) \in Seq(R)
      BY <3>2
    <3>4. Len(SubSeq(file, off + 1, off + m)) = m
      BY <3>2
    <3>5. \A i \in 1 .. m : SubSeq(file, off + 1, off + m)[i] = file[off + i]
      BY <3>2, SliceAt
    <3> QED BY <3>1, <3>3, <3>4, <3>5
  <2> HIDE DEF s
  <2>2. s = part
    BY <1>1, <2>1, SameElements
  <2> QED BY <2>2 DEF s
<1> QED BY <1>1, <1>2, <1>3

\* The elements of a file are those of its parts.
LEMMA Members ==
    ASSUME NEW R, NEW parts \in Seq(Seq(R))
    PROVE  /\ FlattenSeq(parts) \in Seq(R)
           /\ \A i \in 1 .. Len(FlattenSeq(parts)) : \E k \in 1 .. Len(parts) :
                 \E m \in 1 .. Len(parts[k]) : FlattenSeq(parts)[i] = parts[k][m]
           /\ \A k \in 1 .. Len(parts) : \A m \in 1 .. Len(parts[k]) :
                 \E i \in 1 .. Len(FlattenSeq(parts)) : FlattenSeq(parts)[i] = parts[k][m]
<1>1. PICK F \in [0 .. Len(parts) -> Seq(R)] : Joins(parts, Len(parts), F)
  BY JoinExists
<1>2. FlattenSeq(parts) = F[Len(parts)]
  BY <1>1, FlattenJoins
<1> DEFINE n == Len(parts)
           From(l) == \A i \in 1 .. Len(F[l]) : \E k \in 1 .. n :
                          \E m \in 1 .. Len(parts[k]) : F[l][i] = parts[k][m]
           S == {l \in Nat : l \in 0 .. n => From(l)}
<1>3. 0 \in S
  <2>1. Len(F[0]) = 0
    BY <1>1 DEF Joins
  <2> QED BY <2>1
<1>4. ASSUME NEW l \in Nat, l \in S PROVE l + 1 \in S
  <2> HIDE DEF From
  <2> SUFFICES ASSUME l + 1 \in 0 .. n PROVE From(l + 1)
    OBVIOUS
  <2>1. l \in 0 .. n /\ l + 1 \in 1 .. n /\ l + 1 - 1 = l
    OBVIOUS
  <2>2. From(l)
    BY <1>4, <2>1
  <2> HIDE DEF S
  <2>3. PICK j \in 1 .. Len(parts) : j = l + 1
    BY <2>1
  <2>4. PICK a \in Seq(R), b \in Seq(R) : a = F[j - 1] /\ b = parts[j] /\ F[j] = a \o b
    <3>0. Steps(R, parts, F)
      BY <1>1, JoinStep
    <3>1. F[j - 1] \in Seq(R) /\ parts[j] \in Seq(R) /\ F[j] = F[j - 1] \o parts[j]
      BY <3>0 DEF Steps
    <3> QED BY <3>1
  <2>a. j - 1 = l
    BY <2>3
  <2>b. PICK c \in Seq(R) : c = F[j] /\ c = a \o b
    BY <2>4, Concat
  <2>5. ASSUME NEW i \in 1 .. Len(c)
        PROVE  \E k \in 1 .. n : \E m \in 1 .. Len(parts[k]) : c[i] = parts[k][m]
    <3>1. CASE i <= Len(a)
      <4>1. i \in 1 .. Len(a) /\ c[i] = a[i]
        BY <2>b, <3>1
      <4> QED BY <2>2, <2>4, <2>a, <4>1 DEF From
    <3>2. CASE ~(i <= Len(a))
      <4>1. i - Len(a) \in 1 .. Len(b) /\ c[i] = b[i - Len(a)]
        BY <2>b, <3>2
      <4> QED BY <2>4, <4>1
    <3> QED BY <3>1, <3>2
  <2>6. From(j)
    <3> SUFFICES ASSUME NEW i \in 1 .. Len(F[j])
                 PROVE  \E k \in 1 .. n : \E m \in 1 .. Len(parts[k]) : F[j][i] = parts[k][m]
      BY DEF From
    <3>1. F[j] = c
      BY <2>b
    <3> QED BY <2>5, <3>1
  <2> QED BY <2>3, <2>6
<1> HIDE DEF S
<1>5. \A l \in Nat : l \in S
  BY <1>3, <1>4, SetInduction
<1>6. From(n)
  BY <1>5 DEF S
<1>7. ASSUME NEW k \in 1 .. Len(parts), NEW m \in 1 .. Len(parts[k])
      PROVE  \E i \in 1 .. Len(F[n]) : F[n][i] = parts[k][m]
  <2>1. PICK file \in Seq(R), part \in Seq(R), off \in Nat :
              /\ file = FlattenSeq(parts) /\ part = parts[k] /\ off = Offset(parts, k)
              /\ off + Len(part) <= Len(file)
              /\ \A i \in 1 .. Len(part) : file[off + i] = part[i]
    <3>1. /\ FlattenSeq(parts) \in Seq(R) /\ parts[k] \in Seq(R) /\ Offset(parts, k) \in Nat
          /\ Offset(parts, k) + Len(parts[k]) <= Len(FlattenSeq(parts))
          /\ \A i \in 1 .. Len(parts[k]) :
                FlattenSeq(parts)[Offset(parts, k) + i] = parts[k][i]
      BY PartPlace
    <3> QED BY <3>1
  <2>3. m \in 1 .. Len(part) /\ off + m \in 1 .. Len(file)
    BY <2>1
  <2> QED BY <1>2, <2>1, <2>3
<1>8. F[n] \in Seq(R)
  OBVIOUS
<1> QED BY <1>2, <1>6, <1>7, <1>8

-----------------------------------------------------------------------------
(***************************************************************************)
(* load_session                                                            *)
(***************************************************************************)
\* The rows are those of the session sid, each once, in the order of seq; p says
\* where in the table they are.
Reads(table, sid, rows, p) ==
    /\ p \in [1 .. Len(rows) -> DOMAIN table]
    /\ \A k \in 1 .. Len(rows) : rows[k] = table[p[k]] /\ table[p[k]].session_id = sid
    /\ \A i \in DOMAIN table :
          table[i].session_id = sid => \E k \in 1 .. Len(rows) : p[k] = i
    /\ \A k, l \in 1 .. Len(rows) :
          k < l => p[k] # p[l] /\ table[p[k]].seq <= table[p[l]].seq

\* What Select returns.
LEMMA Selected ==
    ASSUME NEW R, NEW table \in Seq(R), NEW sid,
           \A i \in DOMAIN table : table[i].seq \in Nat
    PROVE  \E rows \in Seq(R) : \E p : rows = Select(table, sid) /\ Reads(table, sid, rows, p)
<1> DEFINE ids == {i \in DOMAIN table : table[i].session_id = sid}
<1>1. DOMAIN table = 1 .. Len(table) /\ Len(table) \in Nat
  OBVIOUS
<1>2. IsFiniteSet(ids)
  <2>1. IsFiniteSet(1 .. Len(table))
    BY <1>1, FS_Interval
  <2>2. ids \subseteq 1 .. Len(table)
    BY <1>1
  <2> HIDE DEF ids
  <2> QED BY <2>1, <2>2, FS_Subset
<1>3. ids \in SUBSET Nat /\ \A i \in ids : table[i].seq \in Nat
  BY <1>1
<1>4. \A i : i \in ids <=> i \in DOMAIN table /\ table[i].session_id = sid
  OBVIOUS
<1>5. Select(table, sid) = InOrder(table, ids)
  BY DEF Select
<1> HIDE DEF ids
<1>6. PICK p \in [1 .. Cardinality(ids) -> ids] :
              /\ Cardinality(ids) \in Nat
              /\ InOrder(table, ids) = [k \in 1 .. Cardinality(ids) |-> table[p[k]]]
              /\ \A i \in ids : \E k \in 1 .. Cardinality(ids) : p[k] = i
              /\ \A k, l \in 1 .. Cardinality(ids) : k < l =>
                    p[k] # p[l] /\ table[p[k]].seq <= table[p[l]].seq
  BY <1>2, <1>3, Rows
<1>7. PICK n \in Nat : n = Cardinality(ids)
  BY <1>6
<1>8. PICK rows : rows = [k \in 1 .. n |-> table[p[k]]]
  OBVIOUS
<1>9. ASSUME NEW k \in 1 .. n PROVE table[p[k]] \in R
  <2>1. p[k] \in DOMAIN table
    BY <1>4, <1>6, <1>7
  <2> QED BY <2>1
<1>10. rows \in [1 .. n -> R]
  BY <1>8, <1>9
<1>11. rows \in Seq(R) /\ Len(rows) = n
  BY <1>10, FunctionIsSequence
<1>12. p \in [1 .. n -> DOMAIN table]
  BY <1>4, <1>6, <1>7
<1>13. \A k \in 1 .. n : rows[k] = table[p[k]] /\ table[p[k]].session_id = sid
  BY <1>4, <1>6, <1>7, <1>8
<1>14. Reads(table, sid, rows, p)
  BY <1>4, <1>6, <1>7, <1>11, <1>12, <1>13 DEF Reads
<1>15. rows = Select(table, sid)
  BY <1>5, <1>6, <1>7, <1>8
<1> QED BY <1>11, <1>14, <1>15

\* No two rows of the buffer have the same session and number.
UniqueRows ==
    \A i, j \in DOMAIN packets :
        (packets[i].session_id = packets[j].session_id /\ packets[i].seq = packets[j].seq) => i = j

\* The hash that the k-th packet of a session has to name.
Prev(rows, k) == IF k = 1 THEN Nil ELSE rows[k - 1].packet_blake3

\* The packets of a session are read as a chain without a gap: the k-th has the
\* number k - 1 and names the one before it.
LEMMA ReadsChain ==
    ASSUME packets \in Seq(PacketRows), ChainLinked, UniqueRows,
           NEW sid, NEW rows \in Seq(PacketRows), NEW p, Reads(packets, sid, rows, p)
    PROVE  \A k \in 1 .. Len(rows) : /\ rows[k].seq = k - 1
                                     /\ rows[k].prev_packet_blake3 = Prev(rows, k)
<1>1. PICK n \in Nat : n = Len(rows)
  OBVIOUS
<1>2. ASSUME NEW k \in 1 .. n
      PROVE  p[k] \in DOMAIN packets /\ rows[k] = packets[p[k]]
             /\ rows[k].session_id = sid /\ rows[k].seq \in Nat
  <2>1. p[k] \in DOMAIN packets /\ rows[k] = packets[p[k]] /\ rows[k].session_id = sid
    BY <1>1 DEF Reads
  <2>2. rows[k] \in PacketRows
    BY <1>1
  <2> QED BY <2>1, <2>2 DEF PacketRows
<1>3. ASSUME NEW k \in 1 .. n, NEW l \in 1 .. n, k < l PROVE rows[k].seq < rows[l].seq
  <2>1. p[k] # p[l] /\ rows[k].seq <= rows[l].seq
    BY <1>1, <1>2, <1>3 DEF Reads
  <2>2. PICK i \in DOMAIN packets, j \in DOMAIN packets :
              i = p[k] /\ j = p[l] /\ rows[k] = packets[i] /\ rows[l] = packets[j]
    BY <1>2
  <2>3. packets[i].session_id = packets[j].session_id
    BY <1>2, <2>2
  <2>4. rows[k].seq # rows[l].seq
    BY <2>1, <2>2, <2>3 DEF UniqueRows
  <2> QED BY <1>2, <2>1, <2>4
<1>4. ASSUME NEW k \in 1 .. n, rows[k].seq # 0
      PROVE  \E l \in 1 .. n : /\ rows[k].seq = rows[l].seq + 1
                               /\ rows[k].prev_packet_blake3 = rows[l].packet_blake3
  <2>0. PICK i \in DOMAIN packets : rows[k] = packets[i]
    BY <1>2
  <2>1. PICK j \in DOMAIN packets :
              /\ packets[j].session_id = rows[k].session_id
              /\ rows[k].seq = packets[j].seq + 1
              /\ rows[k].prev_packet_blake3 = packets[j].packet_blake3
    BY <1>2, <1>4, <2>0 DEF ChainLinked, Precedes
  <2>2. PICK l \in 1 .. n : p[l] = j
    BY <1>1, <1>2, <2>1 DEF Reads
  <2> QED BY <1>2, <2>1, <2>2
<1>5. ASSUME NEW k \in 1 .. n, rows[k].seq = 0 PROVE rows[k].prev_packet_blake3 = Nil
  BY <1>2, <1>5 DEF ChainLinked
<1> DEFINE Good(k) == rows[k].seq = k - 1 /\ rows[k].prev_packet_blake3 = Prev(rows, k)
           S == {m \in Nat : m + 1 \in 1 .. n => Good(m + 1)}
<1>6. ASSUME NEW m \in Nat, \A x \in 0 .. m - 1 : x \in S PROVE m \in S
  <2> HIDE DEF Good
  <2> SUFFICES ASSUME m + 1 \in 1 .. n PROVE Good(m + 1)
    OBVIOUS
  <2>1. PICK k \in 1 .. n : k = m + 1
    OBVIOUS
  <2>2. ASSUME NEW l \in 1 .. n, l < k PROVE rows[l].seq = l - 1
    <3>1. l - 1 \in 0 .. m - 1 /\ l - 1 + 1 = l /\ l - 1 \in Nat
      BY <2>1, <2>2
    <3>2. l - 1 \in S
      BY <1>6, <3>1
    <3>3. Good(l)
      BY <3>1, <3>2
    <3> QED BY <3>3 DEF Good
  <2> HIDE DEF S
  <2>3. CASE rows[k].seq = 0
    <3>1. k = 1
      <4> SUFFICES ASSUME k # 1 PROVE FALSE
        OBVIOUS
      <4>1. 1 \in 1 .. n /\ 1 < k
        OBVIOUS
      <4>2. rows[1].seq < rows[k].seq /\ rows[1].seq \in Nat
        BY <1>2, <1>3, <4>1
      <4> QED BY <2>3, <4>2
    <3>2. rows[k].prev_packet_blake3 = Nil
      BY <1>5, <2>3
    <3> QED BY <2>1, <2>3, <3>1, <3>2 DEF Good, Prev
  <2>4. CASE rows[k].seq # 0
    <3>1. PICK l \in 1 .. n : /\ rows[k].seq = rows[l].seq + 1
                              /\ rows[k].prev_packet_blake3 = rows[l].packet_blake3
      BY <1>4, <2>4
    <3>2. rows[l].seq \in Nat /\ rows[k].seq \in Nat
      BY <1>2
    <3>3. l < k
      <4>1. ~(k < l)
        BY <1>3, <3>1, <3>2
      <4>2. l # k
        BY <3>1, <3>2
      <4> QED BY <4>1, <4>2
    <3>4. rows[l].seq = l - 1
      BY <2>2, <3>3
    <3>5. l = k - 1
      <4> SUFFICES ASSUME l + 1 < k PROVE FALSE
        BY <3>3
      <4>1. PICK x \in 1 .. n : x = l + 1
        OBVIOUS
      <4>2. rows[x].seq = x - 1
        BY <2>2, <4>1
      <4>3. rows[x].seq < rows[k].seq
        BY <1>3, <4>1
      <4> QED BY <3>1, <3>4, <4>1, <4>2, <4>3
    <3>6. rows[k].seq = k - 1
      BY <3>1, <3>4, <3>5
    <3>7. Prev(rows, k) = rows[l].packet_blake3
      BY <3>5 DEF Prev
    <3> QED BY <2>1, <3>1, <3>6, <3>7 DEF Good
  <2> QED BY <2>3, <2>4
<1> HIDE DEF S, Good
<1>7. \A m \in Nat : m \in S
  BY <1>6, StrongInduction
<1>8. ASSUME NEW k \in 1 .. n PROVE Good(k)
  <2>1. k - 1 \in Nat /\ k - 1 + 1 = k
    OBVIOUS
  <2> QED BY <1>7, <2>1 DEF S
<1> QED BY <1>1, <1>8 DEF Good

-----------------------------------------------------------------------------
(***************************************************************************)
(* What the files of a shard hold.                                         *)
(***************************************************************************)
Roles == {"sign_pub", "ak_pub"}

SessionDatas ==
    [session_id : Nat, packets : Seq(PacketRows), faults : Seq(FaultRows),
     quotes : Seq(QuoteRows), keys : SUBSET Roles]

\* The arguments of _put.
Puts == [kind : {"packet_sig", "quote"} \cup Roles, seq : Nat,
         field : {"signature", "attest", "nonce", "public"}, data : Bytes]

Unsigned(d) == \A k \in 1 .. Len(d.packets) : d.packets[k].tpm_sig = Nil

\* The three files of a quote.
QuotePuts(q) ==
    <<[kind |-> "quote", seq |-> q.seq, field |-> "signature", data |-> <<2>> \o q.nonce],
      [kind |-> "quote", seq |-> q.seq, field |-> "attest", data |-> <<1>> \o q.nonce],
      [kind |-> "quote", seq |-> q.seq, field |-> "nonce", data |-> q.nonce]>>

\* The types of the three files.
LEMMA QuotePutsType ==
    ASSUME NEW q \in QuoteRows
    PROVE  /\ QuotePuts(q) \in Seq(Puts) /\ Len(QuotePuts(q)) = 3
           /\ \A m \in 1 .. 3 : /\ QuotePuts(q)[m].kind = "quote"
                                /\ QuotePuts(q)[m].seq = q.seq
                                /\ QuotePuts(q)[m].field = "nonce" =>
                                      QuotePuts(q)[m].data = q.nonce
<1>1. q.seq \in Nat /\ q.nonce \in Seq(Nat)
  BY DEF QuoteRows, Bytes
<1>2. <<2>> \o q.nonce \in Seq(Nat) /\ <<1>> \o q.nonce \in Seq(Nat)
  BY <1>1
<1>3. PICK a \in Bytes, b \in Bytes : a = <<2>> \o q.nonce /\ b = <<1>> \o q.nonce
  BY <1>2 DEF Bytes
<1> DEFINE x == [kind |-> "quote", seq |-> q.seq, field |-> "signature", data |-> a]
           y == [kind |-> "quote", seq |-> q.seq, field |-> "attest", data |-> b]
           z == [kind |-> "quote", seq |-> q.seq, field |-> "nonce", data |-> q.nonce]
<1>4. x \in Puts /\ y \in Puts /\ z \in Puts
  BY <1>1, <1>3 DEF Puts, Bytes
<1>5. /\ x.kind = "quote" /\ x.seq = q.seq /\ x.field # "nonce"
      /\ y.kind = "quote" /\ y.seq = q.seq /\ y.field # "nonce"
      /\ z.kind = "quote" /\ z.seq = q.seq /\ z.data = q.nonce
  OBVIOUS
<1>6. QuotePuts(q) = <<x, y, z>>
  BY <1>3 DEF QuotePuts
<1> HIDE DEF x, y, z
<1>7. <<x, y, z>> \in Seq(Puts) /\ Len(<<x, y, z>>) = 3
  BY <1>4
<1>8. <<x, y, z>>[1] = x /\ <<x, y, z>>[2] = y /\ <<x, y, z>>[3] = z
  OBVIOUS
<1>9. \A m \in 1 .. 3 : m = 1 \/ m = 2 \/ m = 3
  OBVIOUS
<1> QED BY <1>5, <1>6, <1>7, <1>8, <1>9

\* What is attested of a session without a packet signature: its quotes, each of
\* them, and its keys.
LEMMA EvidenceOf ==
    ASSUME NEW d \in SessionDatas, Unsigned(d)
    PROVE  /\ Evidence(d) \in Seq(Puts)
           /\ \A i \in 1 .. Len(Evidence(d)) :
                 /\ Evidence(d)[i].kind = "quote" => d.quotes # <<>>
                 /\ Evidence(d)[i].kind # "quote" => d.keys # {}
                 /\ (Evidence(d)[i].kind = "quote" /\ Evidence(d)[i].field = "nonce") =>
                       \E q \in 1 .. Len(d.quotes) : /\ Evidence(d)[i].seq = d.quotes[q].seq
                                                     /\ Evidence(d)[i].data = d.quotes[q].nonce
           /\ \A q \in 1 .. Len(d.quotes) : \E i \in 1 .. Len(Evidence(d)) :
                 Evidence(d)[i].kind = "quote" /\ Evidence(d)[i].seq = d.quotes[q].seq
<1> DEFINE signed == [k \in DOMAIN d.packets |->
                    LET p == d.packets[k] IN
                    IF p.tpm_sig = Nil THEN <<>>
                    ELSE <<[kind |-> "packet_sig", seq |-> p.seq,
                            field |-> "signature", data |-> p.tpm_sig]>>]
           quoted == [k \in DOMAIN d.quotes |-> QuotePuts(d.quotes[k])]
           roles == SetToSeq(d.keys)
           keys == [k \in DOMAIN roles |->
                    [kind |-> roles[k], seq |-> 0, field |-> "public", data |-> <<3>>]]
<1>1. Evidence(d) = FlattenSeq(signed) \o FlattenSeq(quoted) \o keys
  BY DEF Evidence, QuotePuts
<1>2. /\ d.packets \in Seq(PacketRows) /\ DOMAIN d.packets = 1 .. Len(d.packets)
      /\ d.quotes \in Seq(QuoteRows) /\ DOMAIN d.quotes = 1 .. Len(d.quotes)
      /\ Len(d.packets) \in Nat /\ Len(d.quotes) \in Nat /\ d.keys \in SUBSET Roles
  BY DEF SessionDatas
<1>3. PICK s \in Seq(Puts) : s = FlattenSeq(signed) /\ Len(s) = 0
  <2>1. \A k \in 1 .. Len(d.packets) : signed[k] = <<>>
    BY <1>2 DEF Unsigned
  <2>2. <<>> \in Seq(Puts) /\ Len(<<>>) = 0
    OBVIOUS
  <2>3. signed \in [1 .. Len(d.packets) -> Seq(Puts)]
    <3>1. signed = [k \in 1 .. Len(d.packets) |-> signed[k]]
      BY <1>2
    <3> HIDE DEF signed
    <3> QED BY <2>1, <2>2, <3>1
  <2> HIDE DEF signed
  <2>4. signed \in Seq(Seq(Puts)) /\ Len(signed) = Len(d.packets)
    BY <1>2, <2>3, FunctionIsSequence
  <2>5. /\ FlattenSeq(signed) \in Seq(Puts)
        /\ \A i \in 1 .. Len(FlattenSeq(signed)) : \E k \in 1 .. Len(signed) :
              \E m \in 1 .. Len(signed[k]) : FlattenSeq(signed)[i] = signed[k][m]
    BY <2>4, Members
  <2>6. PICK s \in Seq(Puts) : s = FlattenSeq(signed)
    BY <2>5
  <2>7. ASSUME NEW i \in 1 .. Len(s) PROVE FALSE
    <3>1. PICK k \in 1 .. Len(signed) : \E m \in 1 .. Len(signed[k]) : TRUE
      BY <2>5, <2>6
    <3>2. Len(signed[k]) = 0
      BY <2>1, <2>2, <2>4
    <3> QED BY <3>1, <3>2
  <2>8. Len(s) = 0
    BY <2>7
  <2> QED BY <2>6, <2>8
<1>4. PICK t \in Seq(Puts) :
            /\ t = FlattenSeq(quoted)
            /\ \A i \in 1 .. Len(t) : \E q \in 1 .. Len(d.quotes) :
                  \E m \in 1 .. 3 : t[i] = QuotePuts(d.quotes[q])[m]
            /\ \A q \in 1 .. Len(d.quotes) : \E i \in 1 .. Len(t) :
                  t[i] = QuotePuts(d.quotes[q])[1]
  <2>1. \A k \in 1 .. Len(d.quotes) : /\ quoted[k] = QuotePuts(d.quotes[k])
                                      /\ d.quotes[k] \in QuoteRows
    BY <1>2
  <2>2. \A k \in 1 .. Len(d.quotes) : quoted[k] \in Seq(Puts) /\ Len(quoted[k]) = 3
    <3> HIDE DEF quoted
    <3> SUFFICES ASSUME NEW k \in 1 .. Len(d.quotes)
                 PROVE  quoted[k] \in Seq(Puts) /\ Len(quoted[k]) = 3
      OBVIOUS
    <3>1. PICK q \in QuoteRows : quoted[k] = QuotePuts(q)
      BY <2>1
    <3>2. QuotePuts(q) \in Seq(Puts) /\ Len(QuotePuts(q)) = 3
      BY QuotePutsType
    <3> QED BY <3>1, <3>2
  <2>3. quoted \in [1 .. Len(d.quotes) -> Seq(Puts)]
    <3>1. quoted = [k \in 1 .. Len(d.quotes) |-> quoted[k]]
      BY <1>2
    <3> HIDE DEF quoted
    <3> QED BY <2>2, <3>1
  <2> HIDE DEF quoted
  <2>4. quoted \in Seq(Seq(Puts)) /\ Len(quoted) = Len(d.quotes)
    BY <1>2, <2>3, FunctionIsSequence
  <2>5. /\ FlattenSeq(quoted) \in Seq(Puts)
        /\ \A i \in 1 .. Len(FlattenSeq(quoted)) : \E k \in 1 .. Len(quoted) :
              \E m \in 1 .. Len(quoted[k]) : FlattenSeq(quoted)[i] = quoted[k][m]
        /\ \A k \in 1 .. Len(quoted) : \A m \in 1 .. Len(quoted[k]) :
              \E i \in 1 .. Len(FlattenSeq(quoted)) : FlattenSeq(quoted)[i] = quoted[k][m]
    BY <2>4, Members
  <2>6. PICK t \in Seq(Puts) : t = FlattenSeq(quoted)
    BY <2>5
  <2>7. ASSUME NEW i \in 1 .. Len(t)
        PROVE  \E q \in 1 .. Len(d.quotes) : \E m \in 1 .. 3 : t[i] = QuotePuts(d.quotes[q])[m]
    <3>1. PICK k \in 1 .. Len(quoted) : \E m \in 1 .. Len(quoted[k]) : t[i] = quoted[k][m]
      BY <2>5, <2>6
    <3>2. k \in 1 .. Len(d.quotes)
      BY <2>4
    <3> QED BY <2>1, <2>2, <3>1, <3>2
  <2>8. ASSUME NEW q \in 1 .. Len(d.quotes)
        PROVE  \E i \in 1 .. Len(t) : t[i] = QuotePuts(d.quotes[q])[1]
    <3>1. q \in 1 .. Len(quoted) /\ 1 \in 1 .. Len(quoted[q])
      <4>1. Len(quoted[q]) = 3 /\ 1 \in 1 .. 3
        BY <2>2
      <4> QED BY <2>4, <4>1
    <3>2. \E i \in 1 .. Len(t) : t[i] = quoted[q][1]
      BY <2>5, <2>6, <3>1
    <3> QED BY <2>1, <3>2
  <2> QED BY <2>6, <2>7, <2>8
<1>5. PICK u \in Seq(Puts) :
            u = keys /\ \A i \in 1 .. Len(u) : u[i].kind \in Roles /\ d.keys # {}
  <2>1. roles \in [1 .. Cardinality(d.keys) -> d.keys] /\ Cardinality(d.keys) \in Nat
    <3>1. IsFiniteSet(d.keys)
      <4>1. IsFiniteSet(Roles)
        <5>1. IsFiniteSet({"sign_pub"}) /\ Roles = {"sign_pub"} \cup {"ak_pub"}
          BY FS_Singleton DEF Roles
        <5> QED BY <5>1, FS_AddElement
      <4> QED BY <1>2, <4>1, FS_Subset
    <3>2. \E f \in [1 .. Cardinality(d.keys) -> d.keys] : IsInjective(f)
      <4>1. PICK f : f \in Bijection(1 .. Cardinality(d.keys), d.keys)
        BY <3>1, FS_CardinalityType DEF ExistsBijection
      <4> QED BY <4>1 DEF Bijection, Injection, IsInjective
    <3>3. Cardinality(d.keys) \in Nat
      BY <3>1, FS_CardinalityType
    <3> QED BY <3>2, <3>3 DEF SetToSeq
  <2> HIDE DEF roles
  <2>2. PICK n \in Nat : n = Cardinality(d.keys)
    BY <2>1
  <2>3. DOMAIN roles = 1 .. n /\ \A k \in 1 .. n : roles[k] \in Roles /\ d.keys # {}
    BY <1>2, <2>1, <2>2
  <2>4. <<3>> \in Bytes
    BY DEF Bytes
  <2>5. ASSUME NEW k \in 1 .. n
        PROVE  keys[k] \in Puts /\ keys[k].kind \in Roles /\ d.keys # {}
    BY <2>3, <2>4 DEF Puts
  <2>6. keys = [k \in 1 .. n |-> keys[k]]
    BY <2>3
  <2> HIDE DEF keys
  <2>7. keys \in [1 .. n -> Puts]
    BY <2>5, <2>6
  <2>8. keys \in Seq(Puts) /\ Len(keys) = n
    BY <2>7, FunctionIsSequence
  <2> QED BY <2>5, <2>8
<1> HIDE DEF signed, quoted, keys
<1>6. PICK e \in Seq(Puts) :
            /\ e = Evidence(d)
            /\ \A i \in 1 .. Len(e) : \/ \E j \in 1 .. Len(t) : e[i] = t[j]
                                      \/ \E j \in 1 .. Len(u) : e[i] = u[j]
            /\ \A j \in 1 .. Len(t) : \E i \in 1 .. Len(e) : e[i] = t[j]
  <2>1. PICK v \in Seq(Puts) : v = s \o t /\ Len(v) = Len(t) /\ \A j \in 1 .. Len(t) : v[j] = t[j]
    <3>1. s \o t \in Seq(Puts) /\ Len(s \o t) = Len(t)
      BY <1>3
    <3>2. \A j \in 1 .. Len(t) : (s \o t)[j] = t[j]
      BY <1>3
    <3> QED BY <3>1, <3>2
  <2>2. PICK e \in Seq(Puts) : e = v \o u
    BY Concat
  <2>3. /\ Len(e) = Len(v) + Len(u)
        /\ \A j \in 1 .. Len(v) : e[j] = v[j]
        /\ \A i \in Len(v) + 1 .. Len(e) : e[i] = u[i - Len(v)] /\ i - Len(v) \in 1 .. Len(u)
    BY <2>2
  <2>4. ASSUME NEW i \in 1 .. Len(e)
        PROVE  (\E j \in 1 .. Len(t) : e[i] = t[j]) \/ \E j \in 1 .. Len(u) : e[i] = u[j]
    <3>1. CASE i <= Len(v)
      <4>1. i \in 1 .. Len(v)
        BY <3>1
      <4> QED BY <2>1, <2>3, <4>1
    <3>2. CASE ~(i <= Len(v))
      <4>1. i \in Len(v) + 1 .. Len(e)
        BY <3>2
      <4> QED BY <2>3, <4>1
    <3> QED BY <3>1, <3>2
  <2>5. ASSUME NEW j \in 1 .. Len(t) PROVE \E i \in 1 .. Len(e) : e[i] = t[j]
    <3>1. j \in 1 .. Len(v) /\ j \in 1 .. Len(e)
      BY <2>1, <2>3
    <3> QED BY <2>1, <2>3, <3>1
  <2>6. e = Evidence(d)
    BY <1>1, <1>3, <1>4, <1>5, <2>1, <2>2
  <2> QED BY <2>4, <2>5, <2>6
<1>7. ASSUME NEW q \in 1 .. Len(d.quotes), NEW m \in 1 .. 3
      PROVE  LET r == QuotePuts(d.quotes[q])[m] IN
             /\ r.kind = "quote" /\ r.seq = d.quotes[q].seq
             /\ r.field = "nonce" => r.data = d.quotes[q].nonce
  <2>1. d.quotes[q] \in QuoteRows
    BY <1>2
  <2> QED BY <2>1, QuotePutsType
<1>8. "packet_sig" \notin Roles /\ "quote" \notin Roles /\ "packet_sig" # "quote"
  BY DEF Roles
<1>9. ASSUME NEW i \in 1 .. Len(e)
      PROVE  /\ e[i].kind = "quote" => d.quotes # <<>>
             /\ e[i].kind # "quote" => d.keys # {}
             /\ (e[i].kind = "quote" /\ e[i].field = "nonce") =>
                   \E q \in 1 .. Len(d.quotes) : /\ e[i].seq = d.quotes[q].seq
                                                 /\ e[i].data = d.quotes[q].nonce
  <2>1. CASE \E j \in 1 .. Len(t) : e[i] = t[j]
    <3>1. PICK q \in 1 .. Len(d.quotes) : \E m \in 1 .. 3 : e[i] = QuotePuts(d.quotes[q])[m]
      BY <1>4, <2>1
    <3>2. PICK m \in 1 .. 3 : e[i] = QuotePuts(d.quotes[q])[m]
      BY <3>1
    <3>3. d.quotes # <<>>
      BY <1>2
    <3> QED BY <1>7, <1>8, <3>2, <3>3
  <2>2. CASE \E j \in 1 .. Len(u) : e[i] = u[j]
    BY <1>5, <1>8, <2>2
  <2> QED BY <1>6, <2>1, <2>2
<1>10. ASSUME NEW q \in 1 .. Len(d.quotes)
       PROVE  \E i \in 1 .. Len(e) : e[i].kind = "quote" /\ e[i].seq = d.quotes[q].seq
  <2>1. PICK j \in 1 .. Len(t) : t[j] = QuotePuts(d.quotes[q])[1]
    BY <1>4
  <2>2. PICK i \in 1 .. Len(e) : e[i] = t[j]
    BY <1>6
  <2>3. PICK m \in 1 .. 3 : m = 1
    OBVIOUS
  <2>4. e[i] = QuotePuts(d.quotes[q])[m]
    BY <2>1, <2>2, <2>3
  <2>5. e[i].kind = "quote" /\ e[i].seq = d.quotes[q].seq
    BY <1>7, <2>4
  <2> QED BY <2>5
<1> QED BY <1>6, <1>9, <1>10

\* The record stream of a shard, and its index.
LEMMA StreamOf ==
    ASSUME NEW d \in SessionDatas, NEW shard, shard = Shard(d)
    PROVE  /\ shard.session_id = d.session_id /\ shard.faults = d.faults
           /\ DOMAIN shard.stream = 1 .. Len(d.packets) /\ Len(shard.stream) = Len(d.packets)
           /\ \A k \in 1 .. Len(d.packets) :
                 /\ shard.stream[k].frame_id = d.packets[k].seq
                 /\ shard.stream[k].packet_blake3 = d.packets[k].packet_blake3
                 /\ shard.stream[k].packet_sha256 = d.packets[k].packet_sha256
                 /\ shard.locators[k].frame_id = d.packets[k].seq
                 /\ shard.locators[k].offset = 4 + (k - 1) * 269
<1>1. d.packets \in Seq(PacketRows) /\ Len(d.packets) \in Nat /\ DOMAIN d.packets = 1 .. Len(d.packets)
  BY DEF SessionDatas
<1>2. /\ shard.session_id = d.session_id /\ shard.faults = d.faults
      /\ shard.stream = build_axlf_stream(d.packets, d.keys)
      /\ shard.locators = build_streams_rows(d.packets)
  BY DEF Shard
<1>3. shard.stream = [k \in 1 .. Len(d.packets) |-> _pack_payload(d.packets[k], d.keys)]
  BY <1>1, <1>2 DEF build_axlf_stream
<1>4. DOMAIN shard.stream = 1 .. Len(d.packets) /\ Len(shard.stream) = Len(d.packets)
  <2>1. PICK n \in Nat : n = Len(d.packets)
    BY <1>1
  <2> DEFINE f == shard.stream
  <2> DEFINE T == {_pack_payload(d.packets[k], d.keys) : k \in 1 .. n}
  <2>2. f \in [1 .. n -> T]
    BY <1>3, <2>1
  <2> HIDE DEF T
  <2>3. Len(f) = n
    BY <2>2, FunctionIsSequence
  <2> QED BY <1>3, <2>1, <2>3
<1>5. ASSUME NEW k \in 1 .. Len(d.packets)
      PROVE  /\ shard.stream[k].frame_id = d.packets[k].seq
             /\ shard.stream[k].packet_blake3 = d.packets[k].packet_blake3
             /\ shard.stream[k].packet_sha256 = d.packets[k].packet_sha256
  BY <1>3 DEF _pack_payload
<1>6. ASSUME NEW k \in 1 .. Len(d.packets)
      PROVE  /\ shard.locators[k].frame_id = d.packets[k].seq
             /\ shard.locators[k].offset = 4 + (k - 1) * 269
  <2>1. shard.locators[k] =
          [frame_id |-> d.packets[k].seq, offset |-> FILE_HEADER_LEN + (k - 1) * LATENT_REC_LEN,
           content_hash |-> d.packets[k].packet_blake3]
    BY <1>1, <1>2 DEF build_streams_rows
  <2> QED BY <2>1 DEF FILE_HEADER_LEN, LATENT_REC_LEN
<1> QED BY <1>2, <1>4, <1>5, <1>6

\* The slices of packets.bin are the packets.
LEMMA PacketSlices ==
    ASSUME NEW d \in SessionDatas, NEW shard, shard = Shard(d), NEW k \in 1 .. Len(d.packets)
    PROVE  /\ k \in DOMAIN shard.packets.rows
           /\ shard.packets.rows[k].seq = d.packets[k].seq
           /\ Slice(shard.packets, k) = d.packets[k].telemetry_json
<1>1. d.packets \in Seq(PacketRows) /\ Len(d.packets) \in Nat /\ DOMAIN d.packets = 1 .. Len(d.packets)
  BY DEF SessionDatas
<1> DEFINE parts == [i \in DOMAIN d.packets |-> d.packets[i].telemetry_json]
<1>2. shard.packets = build_packets(d.packets)
  BY DEF Shard
<1>3. /\ shard.packets.blob = FlattenSeq(parts)
      /\ DOMAIN shard.packets.rows = DOMAIN d.packets
      /\ shard.packets.rows[k] =
            [seq |-> d.packets[k].seq, offset |-> Offset(parts, k),
             length |-> Len(parts[k]), packet_sha256 |-> Sha256(parts[k])]
  BY <1>1, <1>2 DEF build_packets
<1>4. parts[k] = d.packets[k].telemetry_json
  BY <1>1
<1>5. parts \in Seq(Seq(Nat)) /\ Len(parts) = Len(d.packets)
  <2>1. ASSUME NEW i \in 1 .. Len(d.packets) PROVE parts[i] \in Seq(Nat)
    <3>1. d.packets[i] \in PacketRows
      BY <1>1
    <3> QED BY <1>1, <3>1 DEF PacketRows, Bytes
  <2>2. parts = [i \in 1 .. Len(d.packets) |-> parts[i]]
    BY <1>1
  <2> HIDE DEF parts
  <2>3. parts \in [1 .. Len(d.packets) -> Seq(Nat)]
    BY <2>1, <2>2
  <2> QED BY <1>1, <2>3, FunctionIsSequence
<1> HIDE DEF parts
<1>6. SubSeq(FlattenSeq(parts), Offset(parts, k) + 1,
             Min({Len(FlattenSeq(parts)), Offset(parts, k) + Len(parts[k])})) = parts[k]
  BY <1>5, Located
<1>7. /\ shard.packets.rows[k].seq = d.packets[k].seq
      /\ shard.packets.rows[k].offset = Offset(parts, k)
      /\ shard.packets.rows[k].length = Len(parts[k])
  BY <1>3
<1>8. Slice(shard.packets, k) = parts[k]
  BY <1>3, <1>6, <1>7 DEF Slice
<1> QED BY <1>1, <1>3, <1>4, <1>7, <1>8

\* The slices of the attestation file are what was put in it.
LEMMA EvidenceSlices ==
    ASSUME NEW d \in SessionDatas, Unsigned(d), NEW shard, shard = Shard(d)
    PROVE  /\ DOMAIN shard.attestation.rows = 1 .. Len(Evidence(d))
           /\ \A r \in 1 .. Len(Evidence(d)) :
                 /\ shard.attestation.rows[r].kind = Evidence(d)[r].kind
                 /\ shard.attestation.rows[r].field = Evidence(d)[r].field
                 /\ shard.attestation.rows[r].seq = Evidence(d)[r].seq
                 /\ Slice(shard.attestation, r) = Evidence(d)[r].data
<1>1. PICK puts \in Seq(Puts) : puts = Evidence(d)
  BY EvidenceOf
<1>2. Len(puts) \in Nat /\ DOMAIN puts = 1 .. Len(puts)
  OBVIOUS
<1> DEFINE parts == [i \in DOMAIN puts |-> puts[i].data]
<1>3. shard.attestation = build_tpm_attestation(d)
  BY DEF Shard
<1>4. /\ shard.attestation.blob = FlattenSeq(parts)
      /\ DOMAIN shard.attestation.rows = DOMAIN puts
      /\ \A r \in DOMAIN puts : shard.attestation.rows[r] =
            [kind |-> puts[r].kind, seq |-> puts[r].seq, field |-> puts[r].field,
             offset |-> Offset(parts, r), length |-> Len(parts[r])]
  BY <1>1, <1>2, <1>3 DEF build_tpm_attestation
<1>5. \A r \in 1 .. Len(puts) : parts[r] = puts[r].data
  BY <1>2
<1>6. parts \in Seq(Seq(Nat)) /\ Len(parts) = Len(puts)
  <2>1. ASSUME NEW i \in 1 .. Len(puts) PROVE parts[i] \in Seq(Nat)
    <3>1. puts[i] \in Puts
      BY <1>2
    <3> QED BY <1>2, <3>1 DEF Puts, Bytes
  <2>2. parts = [i \in 1 .. Len(puts) |-> parts[i]]
    BY <1>2
  <2> HIDE DEF parts
  <2>3. parts \in [1 .. Len(puts) -> Seq(Nat)]
    BY <2>1, <2>2
  <2> QED BY <1>2, <2>3, FunctionIsSequence
<1> HIDE DEF parts
<1>7. ASSUME NEW r \in 1 .. Len(puts)
      PROVE  /\ shard.attestation.rows[r].kind = puts[r].kind
             /\ shard.attestation.rows[r].field = puts[r].field
             /\ shard.attestation.rows[r].seq = puts[r].seq
             /\ Slice(shard.attestation, r) = puts[r].data
  <2>1. SubSeq(FlattenSeq(parts), Offset(parts, r) + 1,
               Min({Len(FlattenSeq(parts)), Offset(parts, r) + Len(parts[r])})) = parts[r]
    <3>1. r \in 1 .. Len(parts)
      BY <1>6
    <3> QED BY <1>6, <3>1, Located
  <2>2. shard.attestation.rows[r] =
            [kind |-> puts[r].kind, seq |-> puts[r].seq, field |-> puts[r].field,
             offset |-> Offset(parts, r), length |-> Len(parts[r])]
    BY <1>2, <1>4
  <2>3. /\ shard.attestation.rows[r].kind = puts[r].kind
        /\ shard.attestation.rows[r].field = puts[r].field
        /\ shard.attestation.rows[r].seq = puts[r].seq
        /\ shard.attestation.rows[r].offset = Offset(parts, r)
        /\ shard.attestation.rows[r].length = Len(parts[r])
    BY <2>2
  <2>4. Slice(shard.attestation, r) = parts[r]
    BY <1>4, <2>1, <2>3 DEF Slice
  <2> QED BY <1>5, <2>3, <2>4
<1> QED BY <1>1, <1>2, <1>4, <1>7

-----------------------------------------------------------------------------
(***************************************************************************)
(* What is true of the data compile_session holds, and of the tables it    *)
(* was read from, whatever was written to them since.                      *)
(***************************************************************************)
\* Every packet a quote is taken for is stored.
PacketsStored == "write" \notin MayFail

\* The row is in the packets table.
Stored(row, P) ==
    \E i \in DOMAIN P : /\ P[i].session_id = row.session_id
                        /\ P[i].seq = row.seq
                        /\ P[i].packet_blake3 = row.packet_blake3
                        /\ P[i].packet_sha256 = row.packet_sha256
                        /\ P[i].prev_packet_blake3 = row.prev_packet_blake3

\* The chain hash of the row was computed over this signature.
Covers(row, sig) ==
    row.packet_blake3 =
        computePacketBLAKE3(row.seq, row.session_id, row.telemetry_json, sig,
                            row.prev_packet_blake3)

\* Data without a trace of a TPM.
SoftwareData(d) ==
    /\ d.quotes = <<>> /\ d.keys = {}
    /\ \A k \in 1 .. Len(d.packets) : Covers(d.packets[k], Nil)

\* The packets are the beginning of a session that has no stored signature there.
PacketsRead(d, P) ==
    /\ Unsigned(d)
    /\ \A k \in 1 .. Len(d.packets) :
          /\ d.packets[k].session_id = d.session_id
          /\ d.packets[k].seq = k - 1
          /\ d.packets[k].prev_packet_blake3 = Prev(d.packets, k)
          /\ Stored(d.packets[k], P)

\* Every row of a table that belongs to a packet was read.
RowsRead(d, rows, T) ==
    \A i \in DOMAIN T :
        (T[i].session_id = d.session_id /\ T[i].seq < Len(d.packets))
            => \E k \in 1 .. Len(rows) : rows[k].seq = T[i].seq

QuotesBound(d) ==
    \A q \in 1 .. Len(d.quotes), k \in 1 .. Len(d.packets) :
        d.quotes[q].seq = k - 1 =>
            d.quotes[q].nonce = DeriveQuoteNonce(d.session_id, d.packets[k].packet_sha256,
                                                 d.packets[k].prev_packet_blake3, k - 1)

\* The error of the SELECT was passed over.
NoQuotes(d) == "quotes" \in LoadMayFail /\ d.quotes = <<>>

QuotesRead(d, Q) == /\ RowsRead(d, d.quotes, Q) \/ NoQuotes(d)
                    /\ PacketsStored => QuotesBound(d)

HashesMatch(d) == \A k \in 1 .. Len(d.packets) : ~HashMismatch(d.packets[k])

\* What holds of the data of a sealed shard.
Sealed(d) == /\ PacketsRead(d, packets)
             /\ RowsRead(d, d.faults, faults)
             /\ QuotesRead(d, quotes)
             /\ HashesMatch(d)
             /\ attestation_keys = {} => SoftwareData(d)

SealedInv == \A n \in DOMAIN shards : \E d \in SessionDatas : shards[n] = Shard(d) /\ Sealed(d)

\* The sealed records are numbered as the packets are.
LEMMA SealedSeqsOf ==
    ASSUME NEW d \in SessionDatas, Sealed(d), NEW shard, shard = Shard(d)
    PROVE  \A x : x \in SealedSeqs(shard) <=> x \in Nat /\ x < Len(d.packets)
<1>1. Len(d.packets) \in Nat
  BY DEF SessionDatas
<1>2. DOMAIN shard.stream = 1 .. Len(d.packets)
  BY StreamOf
<1>3. \A k \in 1 .. Len(d.packets) : shard.stream[k].frame_id = k - 1
  BY StreamOf DEF Sealed, PacketsRead
<1>4. ASSUME NEW x \in SealedSeqs(shard) PROVE x \in Nat /\ x < Len(d.packets)
  <2>1. PICK k \in 1 .. Len(d.packets) : x = shard.stream[k].frame_id
    BY <1>2 DEF SealedSeqs
  <2> QED BY <1>1, <1>3, <2>1
<1>5. ASSUME NEW x \in Nat, x < Len(d.packets) PROVE x \in SealedSeqs(shard)
  <2>1. PICK k \in 1 .. Len(d.packets) : k = x + 1
    BY <1>1, <1>5
  <2>2. shard.stream[k].frame_id = x
    BY <1>3, <2>1
  <2> QED BY <1>2, <2>2 DEF SealedSeqs
<1> QED BY <1>4, <1>5

\* The shards are prefixes of their sessions.
LEMMA PrefixOf == SealedInv => ShardIsPrefix
<1> SUFFICES ASSUME SealedInv, NEW n \in DOMAIN shards, NEW k \in DOMAIN shards[n].stream
             PROVE  /\ shards[n].stream[k].frame_id = k - 1
                    /\ shards[n].locators[k].frame_id = k - 1
                    /\ shards[n].locators[k].offset = 4 + shards[n].stream[k].frame_id * 269
                    /\ \E i \in DOMAIN packets :
                          /\ packets[i].session_id = shards[n].session_id
                          /\ packets[i].seq = shards[n].stream[k].frame_id
                          /\ packets[i].packet_blake3 = shards[n].stream[k].packet_blake3
  BY DEF ShardIsPrefix
<1>1. PICK d \in SessionDatas : shards[n] = Shard(d) /\ Sealed(d)
  BY DEF SealedInv
<1>2. PICK shard : shard = shards[n]
  OBVIOUS
<1>3. /\ shard.session_id = d.session_id
      /\ DOMAIN shard.stream = 1 .. Len(d.packets)
      /\ \A j \in 1 .. Len(d.packets) :
                 /\ shard.stream[j].frame_id = d.packets[j].seq
                 /\ shard.stream[j].packet_blake3 = d.packets[j].packet_blake3
                 /\ shard.locators[j].frame_id = d.packets[j].seq
                 /\ shard.locators[j].offset = 4 + (j - 1) * 269
  BY <1>1, <1>2, StreamOf
<1>4. k \in 1 .. Len(d.packets)
  BY <1>2, <1>3
<1>5. /\ d.packets[k].session_id = d.session_id /\ d.packets[k].seq = k - 1
      /\ Stored(d.packets[k], packets)
  BY <1>1, <1>4 DEF Sealed, PacketsRead
<1>6. shard.stream[k].frame_id = k - 1
  BY <1>3, <1>4, <1>5
<1>7. shard.locators[k].frame_id = k - 1
  BY <1>3, <1>4, <1>5
<1>8. shard.locators[k].offset = 4 + shard.stream[k].frame_id * 269
  BY <1>3, <1>4, <1>6
<1>9. \E i \in DOMAIN packets : /\ packets[i].session_id = shard.session_id
                                /\ packets[i].seq = shard.stream[k].frame_id
                                /\ packets[i].packet_blake3 = shard.stream[k].packet_blake3
  BY <1>3, <1>4, <1>5 DEF Stored
<1> QED BY <1>2, <1>6, <1>7, <1>8, <1>9

\* The shards are complete.
LEMMA CompleteOf == SealedInv => ShardComplete
<1> SUFFICES ASSUME SealedInv, NEW n \in DOMAIN shards, NEW shard, shard = shards[n]
             PROVE  /\ \A f \in DOMAIN faults :
                         (faults[f].session_id = shard.session_id /\ faults[f].seq \in SealedSeqs(shard))
                            => \E k \in DOMAIN shard.faults : shard.faults[k].seq = faults[f].seq
                    /\ \/ "quotes" \in LoadMayFail /\ QuoteRowsOf(shard) = {}
                       \/ \A q \in DOMAIN quotes :
                            (quotes[q].session_id = shard.session_id /\ quotes[q].seq \in SealedSeqs(shard))
                               => \E k \in QuoteRowsOf(shard) :
                                    shard.attestation.rows[k].seq = quotes[q].seq
  BY DEF ShardComplete
<1>1. PICK d \in SessionDatas : shard = Shard(d) /\ Sealed(d)
  BY DEF SealedInv
<1>2. shard.session_id = d.session_id /\ shard.faults = d.faults
  BY <1>1, StreamOf
<1>3. \A x : x \in SealedSeqs(shard) => x < Len(d.packets)
  BY <1>1, SealedSeqsOf
<1>4. ASSUME NEW f \in DOMAIN faults, faults[f].session_id = shard.session_id,
             faults[f].seq \in SealedSeqs(shard)
      PROVE  \E k \in DOMAIN shard.faults : shard.faults[k].seq = faults[f].seq
  <2>1. \E k \in 1 .. Len(d.faults) : d.faults[k].seq = faults[f].seq
    BY <1>1, <1>2, <1>3, <1>4 DEF Sealed, RowsRead
  <2>2. DOMAIN d.faults = 1 .. Len(d.faults)
    BY DEF SessionDatas
  <2> QED BY <1>2, <2>1, <2>2
<1>u. Unsigned(d)
  BY <1>1 DEF Sealed, PacketsRead
<1>5. ASSUME RowsRead(d, d.quotes, quotes), NEW q \in DOMAIN quotes,
             quotes[q].session_id = shard.session_id, quotes[q].seq \in SealedSeqs(shard)
      PROVE  \E k \in QuoteRowsOf(shard) : shard.attestation.rows[k].seq = quotes[q].seq
  <2>1. PICK x \in 1 .. Len(d.quotes) : d.quotes[x].seq = quotes[q].seq
    BY <1>2, <1>3, <1>5 DEF RowsRead
  <2>3. PICK r \in 1 .. Len(Evidence(d)) :
              Evidence(d)[r].kind = "quote" /\ Evidence(d)[r].seq = d.quotes[x].seq
    BY <1>u, EvidenceOf
  <2>4. /\ DOMAIN shard.attestation.rows = 1 .. Len(Evidence(d))
        /\ shard.attestation.rows[r].kind = Evidence(d)[r].kind
        /\ shard.attestation.rows[r].seq = Evidence(d)[r].seq
    BY <1>1, <1>u, EvidenceSlices
  <2> QED BY <2>1, <2>3, <2>4 DEF QuoteRowsOf
<1>6. ASSUME NoQuotes(d) PROVE "quotes" \in LoadMayFail /\ QuoteRowsOf(shard) = {}
  <2>1. \A r \in 1 .. Len(Evidence(d)) : Evidence(d)[r].kind # "quote"
    BY <1>6, <1>u, EvidenceOf DEF NoQuotes
  <2>2. /\ DOMAIN shard.attestation.rows = 1 .. Len(Evidence(d))
        /\ \A r \in 1 .. Len(Evidence(d)) : shard.attestation.rows[r].kind = Evidence(d)[r].kind
    BY <1>1, <1>u, EvidenceSlices
  <2> QED BY <1>6, <2>1, <2>2 DEF QuoteRowsOf, NoQuotes
<1>7. RowsRead(d, d.quotes, quotes) \/ NoQuotes(d)
  BY <1>1 DEF Sealed, QuotesRead
<1> QED BY <1>4, <1>5, <1>6, <1>7

\* The slices of the packets hash to the records.
LEMMA SlicesOf == SealedInv => SlicesHash
<1> SUFFICES ASSUME SealedInv, NEW n \in DOMAIN shards, NEW shard, shard = shards[n],
                    NEW k \in DOMAIN shard.stream
             PROVE  \E r \in DOMAIN shard.packets.rows :
                      /\ shard.packets.rows[r].seq = shard.stream[k].frame_id
                      /\ Sha256(Slice(shard.packets, r)) = shard.stream[k].packet_sha256
  BY DEF SlicesHash
<1>1. PICK d \in SessionDatas : shard = Shard(d) /\ Sealed(d)
  BY DEF SealedInv
<1>2. /\ DOMAIN shard.stream = 1 .. Len(d.packets)
      /\ \A j \in 1 .. Len(d.packets) :
                 /\ shard.stream[j].frame_id = d.packets[j].seq
                 /\ shard.stream[j].packet_sha256 = d.packets[j].packet_sha256
  BY <1>1, StreamOf
<1>3. k \in 1 .. Len(d.packets)
  BY <1>2
<1>4. /\ k \in DOMAIN shard.packets.rows
      /\ shard.packets.rows[k].seq = d.packets[k].seq
      /\ Slice(shard.packets, k) = d.packets[k].telemetry_json
  BY <1>1, <1>3, PacketSlices
<1>5. Sha256(d.packets[k].telemetry_json) = d.packets[k].packet_sha256
  BY <1>1, <1>3 DEF Sealed, HashesMatch, HashMismatch
<1> QED BY <1>2, <1>3, <1>4, <1>5

\* The hash before a record of the shard is the one its packet names.
LEMMA PrevOf ==
    ASSUME NEW d \in SessionDatas, Sealed(d), NEW shard, shard = Shard(d),
           NEW k \in 1 .. Len(d.packets)
    PROVE  PrevInShard(shard, k - 1) = d.packets[k].prev_packet_blake3
<1>1. d.packets[k].prev_packet_blake3 = Prev(d.packets, k)
  BY DEF Sealed, PacketsRead
<1>2. CASE k = 1
  BY <1>1, <1>2 DEF Prev, PrevInShard
<1>3. CASE k # 1
  <2>1. PICK j \in 1 .. Len(d.packets) : j = k - 1 /\ j # 0
    <3>1. Len(d.packets) \in Nat
      BY DEF SessionDatas
    <3> QED BY <1>3, <3>1
  <2>2. shard.stream[j].packet_blake3 = d.packets[j].packet_blake3
    BY StreamOf
  <2> QED BY <1>1, <1>3, <2>1, <2>2 DEF Prev, PrevInShard
<1> QED BY <1>2, <1>3

\* The chain is recomputed from the shard.
LEMMA ChainOf == SealedInv => SoftwareChainFromShard
<1> SUFFICES ASSUME SealedInv, attestation_keys = {},
                    NEW n \in DOMAIN shards, NEW shard, shard = shards[n]
             PROVE  /\ shard.attestation.rows = <<>>
                    /\ \A k \in DOMAIN shard.stream :
                         shard.stream[k].packet_blake3 =
                             computePacketBLAKE3(k - 1, shard.session_id, Slice(shard.packets, k),
                                                 Nil, PrevInShard(shard, k - 1))
  BY DEF SoftwareChainFromShard
<1>1. PICK d \in SessionDatas : shard = Shard(d) /\ Sealed(d)
  BY DEF SealedInv
<1>2. /\ shard.session_id = d.session_id
      /\ DOMAIN shard.stream = 1 .. Len(d.packets)
      /\ \A j \in 1 .. Len(d.packets) : shard.stream[j].packet_blake3 = d.packets[j].packet_blake3
  BY <1>1, StreamOf
<1>3. SoftwareData(d)
  BY <1>1 DEF Sealed
<1>4. shard.attestation.rows = <<>>
  <2>1. Unsigned(d) /\ d.quotes = <<>> /\ d.keys = {}
    BY <1>1, <1>3 DEF Sealed, PacketsRead, SoftwareData
  <2>2. /\ Len(Evidence(d)) \in Nat
        /\ \A r \in 1 .. Len(Evidence(d)) : FALSE
    BY <2>1, EvidenceOf
  <2>3. Len(Evidence(d)) = 0
    BY <2>2
  <2>4. PICK puts : puts = Evidence(d) /\ DOMAIN puts = {}
    <3>1. Evidence(d) \in Seq(Puts)
      BY <2>1, EvidenceOf
    <3> QED BY <2>3, <3>1
  <2>5. shard.attestation.rows =
          [k \in DOMAIN puts |->
             [kind |-> puts[k].kind, seq |-> puts[k].seq, field |-> puts[k].field,
              offset |-> Offset([j \in DOMAIN puts |-> puts[j].data], k),
              length |-> Len([j \in DOMAIN puts |-> puts[j].data][k])]]
    BY <1>1, <2>4 DEF Shard, build_tpm_attestation
  <2>6. PICK rows : rows = shard.attestation.rows
    OBVIOUS
  <2>7. rows \in [1 .. 0 -> Puts]
    BY <2>4, <2>5, <2>6
  <2> QED BY <2>6, <2>7
<1>5. ASSUME NEW k \in DOMAIN shard.stream
      PROVE  shard.stream[k].packet_blake3 =
               computePacketBLAKE3(k - 1, shard.session_id, Slice(shard.packets, k),
                                   Nil, PrevInShard(shard, k - 1))
  <2>1. k \in 1 .. Len(d.packets)
    BY <1>2
  <2>2. Slice(shard.packets, k) = d.packets[k].telemetry_json
    BY <1>1, <2>1, PacketSlices
  <2>3. PrevInShard(shard, k - 1) = d.packets[k].prev_packet_blake3
    BY <1>1, <2>1, PrevOf
  <2>4. d.packets[k].session_id = d.session_id /\ d.packets[k].seq = k - 1
    BY <1>1, <2>1 DEF Sealed, PacketsRead
  <2>5. Covers(d.packets[k], Nil)
    BY <1>3, <2>1 DEF SoftwareData
  <2> QED BY <1>2, <2>1, <2>2, <2>3, <2>4, <2>5 DEF Covers
<1> QED BY <1>4, <1>5

\* The sealed quotes are bound to the sealed packets.
LEMMA QuotesOf == ASSUME PacketsStored PROVE SealedInv => SealedQuotesBind
<1> SUFFICES ASSUME SealedInv, NEW n \in DOMAIN shards, NEW shard, shard = shards[n],
                    NEW seq \in SealedSeqs(shard),
                    NEW nonce \in SealedEvidence(shard, "quote", "nonce", seq)
             PROVE  nonce = DeriveQuoteNonce(shard.session_id, shard.stream[seq + 1].packet_sha256,
                                             PrevInShard(shard, seq), seq)
  BY DEF SealedQuotesBind
<1>1. PICK d \in SessionDatas : shard = Shard(d) /\ Sealed(d)
  BY DEF SealedInv
<1>2. seq \in Nat /\ seq < Len(d.packets)
  BY <1>1, SealedSeqsOf
<1>3. PICK k \in 1 .. Len(d.packets) : k = seq + 1 /\ k - 1 = seq
  BY <1>2 DEF SessionDatas
<1>4. shard.session_id = d.session_id /\ shard.stream[k].packet_sha256 = d.packets[k].packet_sha256
  BY <1>1, StreamOf
<1>5. PrevInShard(shard, k - 1) = d.packets[k].prev_packet_blake3
  BY <1>1, PrevOf
<1>6. Unsigned(d)
  BY <1>1 DEF Sealed, PacketsRead
<1>7. PICK r \in DOMAIN shard.attestation.rows :
            /\ nonce = Slice(shard.attestation, r)
            /\ shard.attestation.rows[r].kind = "quote"
            /\ shard.attestation.rows[r].field = "nonce"
            /\ shard.attestation.rows[r].seq = seq
  BY DEF SealedEvidence
<1>8. /\ r \in 1 .. Len(Evidence(d)) /\ nonce = Evidence(d)[r].data
      /\ Evidence(d)[r].kind = "quote" /\ Evidence(d)[r].field = "nonce"
      /\ Evidence(d)[r].seq = seq
  BY <1>1, <1>6, <1>7, EvidenceSlices
<1>9. PICK q \in 1 .. Len(d.quotes) :
            Evidence(d)[r].seq = d.quotes[q].seq /\ Evidence(d)[r].data = d.quotes[q].nonce
  BY <1>6, <1>8, EvidenceOf
<1>10. d.quotes[q].seq = k - 1
  BY <1>3, <1>8, <1>9
<1>11. d.quotes[q].nonce = DeriveQuoteNonce(d.session_id, d.packets[k].packet_sha256,
                                            d.packets[k].prev_packet_blake3, k - 1)
  BY <1>1, <1>10 DEF Sealed, QuotesRead, QuotesBound
<1> QED BY <1>3, <1>4, <1>5, <1>8, <1>9, <1>11

-----------------------------------------------------------------------------
(***************************************************************************)
(* What a step of the daemon does to the tables the spoke reads.           *)
(***************************************************************************)
\* A row is filed for the packet that the packetizer stores next, or for the
\* first of a new session.
NewRowAhead(row) ==
    \/ row.session_id = session.id /\ row.seq = session.seq /\ pc # "setsig"
    \/ row.session_id = started + 1

\* Faults and quotes are filed ahead of the packets.
LEMMA LogStep ==
    ASSUME TypeOK, [PacketizerNext]_packetizerVars
    PROVE  /\ faults' = faults \/ \E row \in FaultRows : faults' = Append(faults, row) /\ NewRowAhead(row)
           /\ quotes' = quotes \/ \E row \in QuoteRows : quotes' = Append(quotes, row) /\ NewRowAhead(row)
<1>0. session \in Sessions /\ session.id \in Nat /\ session.seq \in Nat
  BY DEF TypeOK, Sessions
<1>1. CASE BeginTick
  <2>1. quotes' = quotes /\ pc = "select"
    BY <1>1 DEF BeginTick
  <2>2. faults' = faults \/ faults' = Append(faults, [session_id |-> TickSession.id, seq |-> TickSession.seq])
    BY <1>1 DEF BeginTick, RecordProvenanceFault
  <2> DEFINE row == [session_id |-> TickSession.id, seq |-> TickSession.seq]
  <2>3. /\ TickSession.id \in Nat /\ TickSession.seq \in Nat
        /\ \/ TickSession.id = session.id /\ TickSession.seq = session.seq
           \/ TickSession.id = started + 1
    BY <1>0 DEF TickSession, startNewSession, NewSession, TypeOK
  <2>4. row \in FaultRows /\ NewRowAhead(row)
    BY <2>1, <2>3 DEF FaultRows, NewRowAhead
  <2> HIDE DEF row
  <2>5. faults' = faults \/ faults' = Append(faults, row)
    BY <2>2 DEF row
  <2> QED BY <2>1, <2>4, <2>5
<1>2. CASE TakeQuote
  <2>1. faults' = faults /\ pc = "quote"
    BY <1>2 DEF TakeQuote
  <2> DEFINE nonce == DeriveQuoteNonce(session.id, Sha256(pkt.canonical),
                                       session.prevBlake3, session.seq)
             row == [session_id |-> session.id, seq |-> session.seq, nonce |-> nonce]
  <2>2. quotes' = Append(quotes, row)
    BY <1>2 DEF TakeQuote, WriteQuote
  <2>3. nonce \in Bytes
    BY <1>0, BytesTypes DEF TypeOK, Sessions, Packets
  <2> HIDE DEF nonce
  <2>4. row \in QuoteRows /\ NewRowAhead(row)
    BY <1>0, <2>1, <2>3 DEF QuoteRows, NewRowAhead
  <2> QED BY <2>1, <2>2, <2>4
<1>3. ASSUME NEW state \in PrintStates, ApplyDelta(state) PROVE faults' = faults /\ quotes' = quotes
  BY <1>3 DEF ApplyDelta, bufferVars
<1>4. ASSUME NEW sig \in Signatures, StorePacket(sig) PROVE faults' = faults /\ quotes' = quotes
  BY <1>4 DEF StorePacket
<1>5. CASE TickerFires \/ TickIdle \/ SkipQuote \/ QuoteFails \/ StoreFails
  BY <1>5 DEF TickerFires, TickIdle, SkipQuote, QuoteFails, StoreFails, bufferVars
<1>6. CASE BackfillSig \/ BackfillFails \/ Crash \/ Restart \/ UNCHANGED packetizerVars
  BY <1>6 DEF BackfillSig, BackfillFails, Crash, Dies, Restart, packetizerVars, bufferVars
<1> QED BY <1>1, <1>2, <1>3, <1>4, <1>5, <1>6 DEF PacketizerNext, onTick

\* Stored packets stay, with their number and their hashes.
LEMMA StaysStored ==
    ASSUME ChainInv, [PacketizerNext]_packetizerVars, NEW row, Stored(row, packets)
    PROVE  Stored(row, packets')
<1>1. PICK i \in DOMAIN packets : /\ packets[i].session_id = row.session_id
                                  /\ packets[i].seq = row.seq
                                  /\ packets[i].packet_blake3 = row.packet_blake3
                                  /\ packets[i].packet_sha256 = row.packet_sha256
                                  /\ packets[i].prev_packet_blake3 = row.prev_packet_blake3
  BY DEF Stored
<1>2. packets \in Seq(PacketRows) /\ packets[i] \in PacketRows
  BY RowTypes DEF ChainInv, TypeOK, BufferTypeOK
<1>3. CASE packets' = packets
  BY <1>1, <1>3 DEF Stored
<1>4. ASSUME NEW r, packets' = Append(packets, r) PROVE Stored(row, packets')
  <2>1. i \in DOMAIN packets' /\ packets'[i] = packets[i]
    BY <1>2, <1>4, InsertedRow
  <2> QED BY <1>1, <2>1 DEF Stored
<1>5. ASSUME DOMAIN packets' = DOMAIN packets, packets'[i] = packets[i] \/ OnlySignature(i)
      PROVE  Stored(row, packets')
  <2>1. /\ packets'[i].session_id = packets[i].session_id
        /\ packets'[i].seq = packets[i].seq
        /\ packets'[i].packet_blake3 = packets[i].packet_blake3
        /\ packets'[i].packet_sha256 = packets[i].packet_sha256
        /\ packets'[i].prev_packet_blake3 = packets[i].prev_packet_blake3
    BY <1>2, <1>5 DEF OnlySignature, PacketRows
  <2> QED BY <1>1, <1>5, <2>1 DEF Stored
<1> QED BY <1>3, <1>4, <1>5, TableStep

\* What was read of the packets stays true.
LEMMA PacketsStay ==
    ASSUME ChainInv, [PacketizerNext]_packetizerVars, NEW d, PacketsRead(d, packets)
    PROVE  PacketsRead(d, packets')
<1>1. ASSUME NEW k \in 1 .. Len(d.packets) PROVE Stored(d.packets[k], packets')
  BY StaysStored DEF PacketsRead
<1> QED BY <1>1 DEF PacketsRead

\* A row that is filed later belongs to none of the packets read.
LEMMA AheadOfRead ==
    ASSUME ChainInv, NEW d \in SessionDatas, PacketsRead(d, packets), NEW row, row.seq \in Nat,
           NewRowAhead(row)
    PROVE  ~(row.session_id = d.session_id /\ row.seq < Len(d.packets))
<1> SUFFICES ASSUME row.session_id = d.session_id, row.seq < Len(d.packets) PROVE FALSE
  OBVIOUS
<1>1. PICK n \in Nat : n = Len(d.packets) /\ n # 0
  BY DEF SessionDatas
<1>2. PICK k \in 1 .. Len(d.packets) : k = n
  BY <1>1
<1>3. /\ d.packets[k].session_id = d.session_id /\ d.packets[k].seq = n - 1
      /\ Stored(d.packets[k], packets)
  BY <1>2 DEF PacketsRead
<1>4. PICK i \in DOMAIN packets : packets[i].session_id = d.session_id /\ packets[i].seq = n - 1
  BY <1>3 DEF Stored
<1>5. started \in Nat /\ session.seq \in Nat /\ packets[i].session_id \in 1 .. started
  BY DEF ChainInv, TypeOK, Sessions, ChainMemory
<1>6. CASE row.session_id = started + 1
  BY <1>4, <1>5, <1>6
<1>7. CASE row.session_id = session.id /\ row.seq = session.seq /\ pc # "setsig"
  <2>1. packets[i].seq < session.seq
    BY <1>4, <1>7 DEF ChainInv, ChainMemory, Settled
  <2>2. n - 1 < session.seq /\ session.seq < n
    BY <1>1, <1>4, <1>7, <2>1
  <2> QED BY <1>1, <1>5, <2>2
<1> QED BY <1>6, <1>7 DEF NewRowAhead

\* So what was read of another table stays complete.
LEMMA RowsStay ==
    ASSUME ChainInv, NEW d \in SessionDatas, PacketsRead(d, packets),
           NEW rows, NEW R, NEW T \in Seq(R), NEW row, row.seq \in Nat, NewRowAhead(row),
           RowsRead(d, rows, T)
    PROVE  RowsRead(d, rows, Append(T, row))
<1>1. ~(row.session_id = d.session_id /\ row.seq < Len(d.packets))
  BY AheadOfRead
<1>2. /\ DOMAIN Append(T, row) = DOMAIN T \cup {Len(T) + 1}
      /\ \A i \in DOMAIN T : Append(T, row)[i] = T[i]
      /\ Append(T, row)[Len(T) + 1] = row
  BY InsertedRow
<1>3. PICK U : U = Append(T, row)
  OBVIOUS
<1>4. ASSUME NEW i \in DOMAIN U, U[i].session_id = d.session_id, U[i].seq < Len(d.packets)
      PROVE  \E k \in 1 .. Len(rows) : rows[k].seq = U[i].seq
  <2>1. U[i] # row
    BY <1>1, <1>4
  <2>2. i \in DOMAIN T /\ U[i] = T[i]
    BY <1>2, <1>3, <2>1
  <2> QED BY <1>4, <2>2 DEF RowsRead
<1> QED BY <1>3, <1>4 DEF RowsRead

\* A step of the daemon leaves everything that was read true.
LEMMA ReadStays ==
    ASSUME ChainInv, [PacketizerNext]_packetizerVars,
           NEW d \in SessionDatas, PacketsRead(d, packets)
    PROVE  /\ PacketsRead(d, packets')
           /\ RowsRead(d, d.faults, faults) => RowsRead(d, d.faults, faults')
           /\ QuotesRead(d, quotes) => QuotesRead(d, quotes')
<1>1. PacketsRead(d, packets')
  BY PacketsStay
<1>2. TypeOK /\ faults \in Seq(FaultRows) /\ quotes \in Seq(QuoteRows)
  BY DEF ChainInv, TypeOK, BufferTypeOK
<1>3. ASSUME RowsRead(d, d.faults, faults) PROVE RowsRead(d, d.faults, faults')
  <2>1. CASE faults' = faults
    BY <1>3, <2>1
  <2>2. ASSUME NEW row \in FaultRows, faults' = Append(faults, row), NewRowAhead(row)
        PROVE  RowsRead(d, d.faults, faults')
    <3>1. row.seq \in Nat
      BY DEF FaultRows
    <3>2. RowsRead(d, d.faults, Append(faults, row))
      BY <1>2, <1>3, <2>2, <3>1, RowsStay
    <3> QED BY <2>2, <3>2
  <2> QED BY <1>2, <2>1, <2>2, LogStep
<1>4. ASSUME RowsRead(d, d.quotes, quotes) PROVE RowsRead(d, d.quotes, quotes')
  <2>1. CASE quotes' = quotes
    BY <1>4, <2>1
  <2>2. ASSUME NEW row \in QuoteRows, quotes' = Append(quotes, row), NewRowAhead(row)
        PROVE  RowsRead(d, d.quotes, quotes')
    <3>1. row.seq \in Nat
      BY DEF QuoteRows
    <3>2. RowsRead(d, d.quotes, Append(quotes, row))
      BY <1>2, <1>4, <2>2, <3>1, RowsStay
    <3> QED BY <2>2, <3>2
  <2> QED BY <1>2, <2>1, <2>2, LogStep
<1>5. ASSUME QuotesRead(d, quotes) PROVE QuotesRead(d, quotes')
  BY <1>4, <1>5 DEF QuotesRead
<1> QED BY <1>1, <1>3, <1>5

\* UNIQUE (session_id, seq) is what the INSERT checks.
LEMMA StepUnique ==
    ASSUME ChainInv, UniqueRows, [PacketizerNext]_packetizerVars PROVE UniqueRows'
<1>1. packets \in Seq(PacketRows)
  BY DEF ChainInv, TypeOK, BufferTypeOK
<1>2. CASE packets' = packets
  BY <1>2 DEF UniqueRows
<1>3. ASSUME NEW b3 \in Bytes, ~Duplicate(session.id, session.seq),
             packets' = Append(packets, NewRow(b3))
      PROVE  UniqueRows'
  <2> DEFINE n == Len(packets) + 1
  <2>1. /\ DOMAIN packets' = DOMAIN packets \cup {n}
        /\ \A i \in DOMAIN packets : packets'[i] = packets[i]
        /\ packets'[n] = NewRow(b3)
    BY <1>1, <1>3, InsertedRow
  <2>2. NewRow(b3).session_id = session.id /\ NewRow(b3).seq = session.seq
    BY DEF NewRow
  <2>3. \A i \in DOMAIN packets :
           ~(packets[i].session_id = session.id /\ packets[i].seq = session.seq)
    BY <1>3 DEF Duplicate
  <2> HIDE DEF n
  <2> QED BY <2>1, <2>2, <2>3 DEF UniqueRows
<1>4. ASSUME DOMAIN packets' = DOMAIN packets,
             \A i \in DOMAIN packets : packets'[i] = packets[i] \/ OnlySignature(i)
      PROVE  UniqueRows'
  <2>1. ASSUME NEW i \in DOMAIN packets
        PROVE  packets'[i].session_id = packets[i].session_id /\ packets'[i].seq = packets[i].seq
    <3>1. packets[i] \in PacketRows
      BY <1>1
    <3> QED BY <1>4, <3>1 DEF OnlySignature, PacketRows
  <2> QED BY <1>4, <2>1 DEF UniqueRows
<1> QED BY <1>2, <1>3, <1>4, TableStep

-----------------------------------------------------------------------------
(***************************************************************************)
(* A node that never opened a TPM: no key and no quote is stored, and the  *)
(* hash of every packet covers no signature.                               *)
(***************************************************************************)
SoftwareTables == /\ ~tpm /\ quotes = <<>>
                  /\ \A i \in DOMAIN packets : Covers(packets[i], Nil)

\* It stays so as long as no TPM is opened.
LEMMA StepSoftware ==
    ASSUME ChainInv, SoftwareTables, [PacketizerNext]_packetizerVars, ~tpm'
    PROVE  SoftwareTables'
<1>0. packets \in Seq(PacketRows) /\ Signatures = {Nil}
  BY DEF ChainInv, TypeOK, BufferTypeOK, SoftwareTables, Signatures
<1>1. ASSUME NEW sig \in Signatures, StorePacket(sig) PROVE SoftwareTables'
  <2> DEFINE b3 == computePacketBLAKE3(session.seq, session.id, pkt.canonical,
                                       Nil, session.prevBlake3)
  <2>n. PICK n : n = Len(packets) + 1
    OBVIOUS
  <2>1. packets' = Append(packets, NewRow(b3)) /\ quotes' = quotes
    BY <1>0, <1>1 DEF StorePacket, WritePacket, NewRow
  <2>2. /\ DOMAIN packets' = DOMAIN packets \cup {n}
        /\ \A i \in DOMAIN packets : packets'[i] = packets[i]
        /\ packets'[n] = NewRow(b3)
    BY <1>0, <2>1, <2>n, InsertedRow
  <2>3. /\ NewRow(b3).seq = session.seq /\ NewRow(b3).session_id = session.id
        /\ NewRow(b3).telemetry_json = pkt.canonical
        /\ NewRow(b3).prev_packet_blake3 = session.prevBlake3
        /\ NewRow(b3).packet_blake3 = b3
    BY DEF NewRow
  <2>4. Covers(packets'[n], Nil)
    BY <2>2, <2>3 DEF Covers
  <2> HIDE DEF b3
  <2> QED BY <2>1, <2>2, <2>4 DEF SoftwareTables
<1>2. CASE BackfillSig
  <2>1. /\ quotes' = quotes
        /\ packets' = [i \in DOMAIN packets |->
                         IF i = pkt.rowID
                         THEN [packets[i] EXCEPT !.tpm_sig = pkt.sig,
                                                 !.quote_ref = session.lastQuoteID]
                         ELSE packets[i]]
    BY <1>2 DEF BackfillSig, SetTPMSig
  <2>2. ASSUME NEW i \in DOMAIN packets PROVE Covers(packets'[i], Nil)
    <3>1. packets[i] \in PacketRows /\ Covers(packets[i], Nil)
      BY <1>0 DEF SoftwareTables
    <3>2. /\ packets'[i].session_id = packets[i].session_id
          /\ packets'[i].seq = packets[i].seq
          /\ packets'[i].telemetry_json = packets[i].telemetry_json
          /\ packets'[i].packet_blake3 = packets[i].packet_blake3
          /\ packets'[i].prev_packet_blake3 = packets[i].prev_packet_blake3
      BY <2>1, <3>1 DEF PacketRows
    <3> QED BY <3>1, <3>2 DEF Covers
  <2>3. DOMAIN packets' = DOMAIN packets
    BY <2>1
  <2> QED BY <2>1, <2>2, <2>3 DEF SoftwareTables
<1>3. ~TakeQuote
  BY DEF TakeQuote, SoftwareTables
<1>4. ASSUME UNCHANGED <<packets, quotes>> PROVE SoftwareTables'
  BY <1>4 DEF SoftwareTables
<1>5. ASSUME NEW state \in PrintStates, ApplyDelta(state) PROVE UNCHANGED <<packets, quotes>>
  BY <1>5 DEF ApplyDelta, bufferVars
<1>6. CASE BeginTick \/ SkipQuote \/ QuoteFails \/ StoreFails \/ BackfillFails
  BY <1>4, <1>6 DEF BeginTick, SkipQuote, QuoteFails, StoreFails, BackfillFails, bufferVars
<1>7. CASE TickerFires \/ TickIdle \/ Crash \/ Restart \/ UNCHANGED packetizerVars
  BY <1>4, <1>7 DEF TickerFires, TickIdle, Crash, Restart, packetizerVars, bufferVars
<1> QED BY <1>1, <1>2, <1>3, <1>4, <1>5, <1>6, <1>7 DEF PacketizerNext, onTick

-----------------------------------------------------------------------------
(***************************************************************************)
(* The invariant.  TableInv is about the daemon, LoadInv about what        *)
(* compile_session has read so far and SealedInv about the shards.         *)
(***************************************************************************)
TableInv == /\ ChainInv /\ UniqueRows
            /\ PacketsStored => BoundInv

SoftwareInv == attestation_keys = {} => SoftwareTables

LoadInv ==
    /\ sd \in SessionDatas
    /\ attestation_keys \in SUBSET Roles
    /\ at \in {"faults", "quotes", "keys", "build"} => PacketsRead(sd, packets)
    /\ at \in {"quotes", "keys", "build"} => RowsRead(sd, sd.faults, faults)
    /\ at \in {"keys", "build"} => QuotesRead(sd, quotes)
    /\ at \in {"faults", "quotes"} => sd.quotes = <<>>
    /\ at \in {"faults", "quotes", "keys"} => sd.keys = {}
    /\ at \in {"faults", "quotes", "keys", "build"} /\ attestation_keys = {} => SoftwareData(sd)

Shards == {Shard(d) : d \in SessionDatas}

SpokeInv == TableInv /\ SoftwareInv /\ LoadInv /\ shards \in Seq(Shards) /\ SealedInv

\* Nothing is stored, read or sealed at first.
LEMMA InitSpoke == SpokeInit => SpokeInv
<1> SUFFICES ASSUME SpokeInit PROVE SpokeInv
  OBVIOUS
<1>0. PacketizerInit
  BY DEF SpokeInit
<1>1. packets = <<>> /\ quotes = <<>> /\ pc = "select" /\ session = NewSession(0) /\ tpm \in BOOLEAN
  BY <1>0, TPMAssumption DEF PacketizerInit, BufferInit
<1>2. DOMAIN packets = {} /\ DOMAIN quotes = {} /\ session.lastQuoteAt = 0
  BY <1>1 DEF NewSession
<1>3. TypeOK /\ ChainMemory /\ ChainLinked
  BY <1>0, InitType, InitChain
<1>4. ChainInv /\ UniqueRows
  BY <1>2, <1>3 DEF ChainInv, UniqueRows
<1>6. SoftwareInv
  BY <1>1, <1>2 DEF SpokeInit, NodeKeys, SoftwareInv, SoftwareTables
<1>7. BoundInv
  BY <1>2 DEF BoundInv, BoundMemory, OfStarted, Binds
<1>8. NoData \in SessionDatas
  <2>1. <<>> \in Seq(PacketRows) /\ <<>> \in Seq(FaultRows) /\ <<>> \in Seq(QuoteRows)
    OBVIOUS
  <2> QED BY <2>1 DEF NoData, SessionDatas
<1>9. LoadInv
  <2>1. attestation_keys \in SUBSET Roles
    BY DEF SpokeInit, NodeKeys, Roles
  <2> QED BY <1>8, <2>1 DEF SpokeInit, LoadInv
<1>10. shards = <<>> /\ DOMAIN shards = {}
  BY DEF SpokeInit
<1>11. shards \in Seq(Shards) /\ SealedInv
  BY <1>10 DEF SealedInv
<1> QED BY <1>4, <1>6, <1>7, <1>9, <1>11 DEF SpokeInv, TableInv

\* The daemon goes on as if it had no reader.
LEMMA StepTables == TableInv /\ [PacketizerNext]_packetizerVars => TableInv'
<1> SUFFICES ASSUME TableInv, [PacketizerNext]_packetizerVars PROVE TableInv'
  OBVIOUS
<1>1. ChainInv /\ UniqueRows
  BY DEF TableInv
<1>2. ChainInv'
  BY <1>1, StepType, StepChain DEF ChainInv
<1>3. UniqueRows'
  BY <1>1, StepUnique
<1>4. ASSUME PacketsStored PROVE BoundInv'
  BY <1>1, <1>4, StepBound DEF TableInv, PacketsStored
<1> QED BY <1>2, <1>3, <1>4 DEF TableInv, PacketsStored

\* The rows are of the table and of the session.
RowsOf(d, rows, T) ==
    \A k \in 1 .. Len(rows) : \E i \in DOMAIN T :
        rows[k] = T[i] /\ T[i].session_id = d.session_id

\* Reading a table of faults or quotes.
LEMMA ReadTable ==
    ASSUME NEW R, NEW T \in Seq(R), \A i \in DOMAIN T : T[i].seq \in Nat, NEW d,
           NEW rows, rows = Select(T, d.session_id)
    PROVE  /\ rows \in Seq(R)
           /\ RowsRead(d, rows, T)
           /\ RowsOf(d, rows, T)
<1>1. PICK r \in Seq(R) : \E p : r = Select(T, d.session_id) /\ Reads(T, d.session_id, r, p)
  BY Selected
<1>2. PICK p : r = Select(T, d.session_id) /\ Reads(T, d.session_id, r, p)
  BY <1>1
<1>3. r = rows
  BY <1>2
<1>4. ASSUME NEW i \in DOMAIN T, T[i].session_id = d.session_id
      PROVE  \E k \in 1 .. Len(r) : r[k].seq = T[i].seq
  <2>1. PICK k \in 1 .. Len(r) : p[k] = i
    BY <1>2, <1>4 DEF Reads
  <2>2. r[k] = T[i]
    BY <1>2, <2>1 DEF Reads
  <2> QED BY <2>2
<1>5. RowsRead(d, r, T)
  BY <1>4 DEF RowsRead
<1>6. RowsOf(d, r, T)
  BY <1>2 DEF Reads, RowsOf
<1> QED BY <1>3, <1>5, <1>6

\* Reading the packets.
LEMMA ReadPackets ==
    ASSUME TableInv, NEW d \in SessionDatas, d.packets = Select(packets, d.session_id), Unsigned(d)
    PROVE  /\ PacketsRead(d, packets)
           /\ SoftwareTables => \A k \in 1 .. Len(d.packets) : Covers(d.packets[k], Nil)
<1>1. packets \in Seq(PacketRows) /\ ChainLinked /\ UniqueRows
  BY DEF TableInv, ChainInv, TypeOK, BufferTypeOK
<1>2. \A i \in DOMAIN packets : packets[i].seq \in Nat
  <2>1. \A i \in DOMAIN packets : packets[i] \in PacketRows
    BY <1>1
  <2> QED BY <2>1 DEF PacketRows
<1>3. PICK rows \in Seq(PacketRows) :
            \E p : rows = Select(packets, d.session_id) /\ Reads(packets, d.session_id, rows, p)
  BY <1>1, <1>2, Selected
<1>4. PICK p : rows = Select(packets, d.session_id) /\ Reads(packets, d.session_id, rows, p)
  BY <1>3
<1>5. rows = d.packets
  BY <1>4
<1>6. \A k \in 1 .. Len(rows) : rows[k].seq = k - 1 /\ rows[k].prev_packet_blake3 = Prev(rows, k)
  BY <1>1, <1>4, ReadsChain
<1>7. ASSUME NEW k \in 1 .. Len(rows)
      PROVE  p[k] \in DOMAIN packets /\ rows[k] = packets[p[k]] /\ rows[k].session_id = d.session_id
  BY <1>4 DEF Reads
<1>8. ASSUME NEW k \in 1 .. Len(rows) PROVE Stored(rows[k], packets)
  BY <1>7 DEF Stored
<1>9. ASSUME SoftwareTables, NEW k \in 1 .. Len(rows) PROVE Covers(rows[k], Nil)
  BY <1>7, <1>9 DEF SoftwareTables
<1>10. PacketsRead(d, packets)
  BY <1>5, <1>6, <1>7, <1>8 DEF PacketsRead
<1> QED BY <1>5, <1>9, <1>10

\* The quotes that are read with the packets are bound to them.
LEMMA ReadQuotes ==
    ASSUME TableInv, PacketsStored, NEW d \in SessionDatas, PacketsRead(d, packets),
           RowsOf(d, d.quotes, quotes)
    PROVE  QuotesBound(d)
<1> SUFFICES ASSUME NEW q \in 1 .. Len(d.quotes), NEW k \in 1 .. Len(d.packets),
                    d.quotes[q].seq = k - 1
             PROVE  d.quotes[q].nonce =
                      DeriveQuoteNonce(d.session_id, d.packets[k].packet_sha256,
                                       d.packets[k].prev_packet_blake3, k - 1)
  BY DEF QuotesBound
<1>1. PICK i \in DOMAIN quotes : d.quotes[q] = quotes[i] /\ quotes[i].session_id = d.session_id
  BY DEF RowsOf
<1>2. /\ d.packets[k].session_id = d.session_id /\ d.packets[k].seq = k - 1
      /\ Stored(d.packets[k], packets)
  BY DEF PacketsRead
<1>3. PICK j \in DOMAIN packets :
            /\ packets[j].session_id = d.session_id /\ packets[j].seq = k - 1
            /\ packets[j].packet_sha256 = d.packets[k].packet_sha256
            /\ packets[j].prev_packet_blake3 = d.packets[k].prev_packet_blake3
  BY <1>2 DEF Stored
<1>4. Binds(packets, quotes)
  BY DEF TableInv, BoundInv
<1>5. quotes[i].nonce = DeriveQuoteNonce(packets[j].session_id, packets[j].packet_sha256,
                                         packets[j].prev_packet_blake3, packets[j].seq)
  BY <1>1, <1>3, <1>4 DEF Binds
<1> QED BY <1>1, <1>3, <1>5

\* PacketsRead and QuotesBound depend on the packets read only.
LEMMA SamePackets ==
    ASSUME NEW c, NEW d, d.session_id = c.session_id, d.packets = c.packets
    PROVE  /\ \A P : PacketsRead(c, P) => PacketsRead(d, P)
           /\ \A rows, T : RowsRead(c, rows, T) => RowsRead(d, rows, T)
           /\ d.quotes = c.quotes => \A Q : QuotesRead(c, Q) => QuotesRead(d, Q)
<1>1. \A P : PacketsRead(c, P) => PacketsRead(d, P)
  BY DEF PacketsRead, Unsigned
<1>2. \A rows, T : RowsRead(c, rows, T) => RowsRead(d, rows, T)
  BY DEF RowsRead
<1>3. ASSUME d.quotes = c.quotes, NEW Q, QuotesRead(c, Q) PROVE QuotesRead(d, Q)
  BY <1>2, <1>3 DEF QuotesRead, QuotesBound, NoQuotes
<1> QED BY <1>1, <1>2, <1>3

\* A step of the daemon.
LEMMA DaemonKeeps ==
    ASSUME SpokeInv, [PacketizerNext]_packetizerVars, UNCHANGED <<at, sd, shards>>,
           attestation_keys' \in SUBSET Roles,
           attestation_keys' = {} => attestation_keys = {} /\ ~tpm'
    PROVE  SpokeInv'
<1>1. TableInv /\ LoadInv /\ SealedInv /\ ChainInv
  BY DEF SpokeInv, TableInv
<1>2. TableInv'
  BY <1>1, StepTables
<1>3. PICK d : d = sd
  OBVIOUS
<1>4. d \in SessionDatas
  BY <1>1, <1>3 DEF LoadInv
<1>5. PacketsRead(d, packets) =>
        /\ PacketsRead(d, packets')
        /\ RowsRead(d, d.faults, faults) => RowsRead(d, d.faults, faults')
        /\ QuotesRead(d, quotes) => QuotesRead(d, quotes')
  BY <1>1, <1>4, ReadStays
<1>6. sd' = d
  BY <1>3
<1>s. SoftwareInv'
  BY <1>1, StepSoftware DEF SpokeInv, SoftwareInv
<1>7. LoadInv'
  BY <1>1, <1>3, <1>4, <1>5, <1>6 DEF LoadInv
<1>8. ASSUME NEW n \in DOMAIN shards'
      PROVE  \E e \in SessionDatas : shards'[n] = Shard(e) /\ Sealed(e)'
  <2>1. PICK e \in SessionDatas : shards[n] = Shard(e) /\ Sealed(e)
    BY <1>1, <1>8 DEF SealedInv
  <2>2. Sealed(e)'
    BY <1>1, <2>1, ReadStays DEF Sealed
  <2> QED BY <2>1, <2>2
<1>9. SealedInv'
  BY <1>8 DEF SealedInv
<1> QED BY <1>2, <1>s, <1>7, <1>9 DEF SpokeInv

\* A step of compile_session that reads, or gives up.
LEMMA ReaderKeeps ==
    ASSUME SpokeInv, UNCHANGED <<packetizerVars, attestation_keys, shards>>, LoadInv'
    PROVE  SpokeInv'
<1>1. UNCHANGED <<packets, quotes, faults, segments, session, pc, pkt, started, tpm, shards>>
  BY DEF packetizerVars, bufferVars, loopVars, envVars
<1>2. TableInv'
  BY StepTables DEF SpokeInv
<1>3. SealedInv'
  BY <1>1 DEF SpokeInv, SealedInv, Sealed
<1>4. SoftwareInv'
  BY <1>1 DEF SpokeInv, SoftwareInv, SoftwareTables
<1> QED BY <1>1, <1>2, <1>3, <1>4 DEF SpokeInv

\* Every step of the spoke and of the daemon keeps the invariant.
LEMMA StepSpoke == SpokeInv /\ [SpokeNext]_spokeVars => SpokeInv'
<1> SUFFICES ASSUME SpokeInv, [SpokeNext]_spokeVars PROVE SpokeInv'
  OBVIOUS
<1>0. TableInv /\ SoftwareInv /\ LoadInv /\ sd \in SessionDatas
  BY DEF SpokeInv, LoadInv
<1>t. /\ faults \in Seq(FaultRows) /\ quotes \in Seq(QuoteRows) /\ packets \in Seq(PacketRows)
      /\ \A i \in DOMAIN faults : faults[i].seq \in Nat
      /\ \A i \in DOMAIN quotes : quotes[i].seq \in Nat
  <2>1. faults \in Seq(FaultRows) /\ quotes \in Seq(QuoteRows) /\ packets \in Seq(PacketRows)
    BY <1>0 DEF TableInv, ChainInv, TypeOK, BufferTypeOK
  <2>2. /\ \A i \in DOMAIN faults : faults[i] \in FaultRows
        /\ \A i \in DOMAIN quotes : quotes[i] \in QuoteRows
    BY <2>1
  <2> QED BY <2>1, <2>2 DEF FaultRows, QuoteRows
<1>1. CASE DaemonStep
  <2>1. attestation_keys' \in SUBSET Roles
    BY <1>0, <1>1 DEF DaemonStep, NodeKeys, LoadInv, Roles
  <2>2. attestation_keys' = {} => attestation_keys = {} /\ ~tpm'
    BY <1>1 DEF DaemonStep, NodeKeys
  <2> QED BY <1>1, <2>1, <2>2, DaemonKeeps DEF DaemonStep
<1>2. CASE UNCHANGED spokeVars
  <2>1. /\ UNCHANGED packetizerVars /\ UNCHANGED <<at, sd, shards>>
        /\ attestation_keys' \in SUBSET Roles
    BY <1>0, <1>2 DEF spokeVars, LoadInv
  <2>2. attestation_keys' = {} => attestation_keys = {} /\ ~tpm'
    BY <1>0, <1>2 DEF spokeVars, packetizerVars, loopVars, SoftwareInv, SoftwareTables
  <2> QED BY <2>1, <2>2, DaemonKeeps
<1>3. ASSUME UNCHANGED <<packetizerVars, attestation_keys>>
      PROVE  UNCHANGED <<packets, quotes, faults, attestation_keys>>
  BY <1>3 DEF packetizerVars, bufferVars
<1>4. ASSUME NEW sid \in 1 .. MaxSessions, LoadPackets(sid),
             UNCHANGED <<packetizerVars, attestation_keys>>
      PROVE  SpokeInv'
  <2>1. PICK d : d = [NoData EXCEPT !.session_id = sid, !.packets = Select(packets, sid)]
    OBVIOUS
  <2>2. sid \in Nat
    BY BoundAssumption
  <2>3. /\ d.session_id = sid /\ d.packets = Select(packets, sid)
        /\ d.faults = <<>> /\ d.quotes = <<>> /\ d.keys = {}
        /\ d = [session_id |-> sid, packets |-> Select(packets, sid), faults |-> <<>>,
                quotes |-> <<>>, keys |-> {}]
    BY <2>1 DEF NoData
  <2>4. Select(packets, sid) \in Seq(PacketRows)
    <3>1. \A i \in DOMAIN packets : packets[i].seq \in Nat
      <4>1. \A i \in DOMAIN packets : packets[i] \in PacketRows
        BY <1>t
      <4> QED BY <4>1 DEF PacketRows
    <3>2. \E rows \in Seq(PacketRows) : \E p : rows = Select(packets, sid) /\ Reads(packets, sid, rows, p)
      BY <1>t, <3>1, Selected
    <3> QED BY <3>2
  <2>5. d \in SessionDatas
    <3>1. <<>> \in Seq(FaultRows) /\ <<>> \in Seq(QuoteRows)
      OBVIOUS
    <3> QED BY <2>2, <2>3, <2>4, <3>1 DEF SessionDatas
  <2>6. sd' = d /\ at' \in {"loadRaised", "faults"} /\ UNCHANGED shards
    BY <1>4, <2>1 DEF LoadPackets
  <2>7. ASSUME at' = "faults" PROVE Unsigned(d)
    <3>1. \A k \in DOMAIN d.packets : ~_hex_to_bytesRaises(d.packets[k])
      BY <1>4, <2>3, <2>7 DEF LoadPackets
    <3>2. DOMAIN d.packets = 1 .. Len(d.packets)
      BY <2>3, <2>4
    <3> QED BY <3>1, <3>2 DEF Unsigned, _hex_to_bytesRaises
  <2>8. at' = "faults" => /\ PacketsRead(d, packets)
                          /\ attestation_keys = {} => SoftwareData(d)
    BY <1>0, <2>3, <2>5, <2>7, ReadPackets DEF SoftwareInv, SoftwareData
  <2>9. LoadInv'
    BY <1>0, <1>3, <1>4, <2>3, <2>5, <2>6, <2>8 DEF LoadInv
  <2> QED BY <1>4, <2>6, <2>9, ReaderKeeps
<1>5. CASE LoadFaults /\ UNCHANGED <<packetizerVars, attestation_keys>>
  <2>1. PICK rows : rows = Select(faults, sd.session_id)
    OBVIOUS
  <2>2. rows \in Seq(FaultRows) /\ RowsRead(sd, rows, faults)
    BY <1>t, <2>1, ReadTable
  <2>3. PICK c, d : c = sd /\ d = [c EXCEPT !.faults = rows]
    OBVIOUS
  <2>4. sd' = d /\ at = "faults" /\ at' = "quotes" /\ UNCHANGED shards
    BY <1>5, <2>1, <2>3 DEF LoadFaults
  <2>5. /\ c \in SessionDatas /\ PacketsRead(c, packets) /\ c.quotes = <<>> /\ c.keys = {}
        /\ attestation_keys = {} => SoftwareData(c)
    BY <1>0, <2>3, <2>4 DEF LoadInv
  <2>6. /\ d \in SessionDatas /\ d.faults = rows /\ d.quotes = c.quotes /\ d.keys = c.keys
        /\ d.session_id = c.session_id /\ d.packets = c.packets
    BY <2>2, <2>3, <2>5 DEF SessionDatas
  <2>7. PacketsRead(d, packets)
    BY <2>5, <2>6, SamePackets
  <2>8. RowsRead(d, d.faults, faults)
    <3>1. RowsRead(c, rows, faults)
      BY <2>2, <2>3
    <3> QED BY <2>6, <3>1, SamePackets
  <2>d. attestation_keys = {} => SoftwareData(d)
    BY <2>5, <2>6 DEF SoftwareData
  <2>9. LoadInv'
    BY <1>0, <1>3, <1>5, <2>4, <2>5, <2>6, <2>7, <2>8, <2>d DEF LoadInv
  <2> QED BY <1>5, <2>4, <2>9, ReaderKeeps
<1>6. CASE _load_quotes /\ UNCHANGED <<packetizerVars, attestation_keys>>
  <2>1. PICK c, d : c = sd /\ d = sd'
    OBVIOUS
  <2>2. at = "quotes" /\ at' = "keys" /\ UNCHANGED shards
    BY <1>6 DEF _load_quotes
  <2>3. /\ c \in SessionDatas /\ PacketsRead(c, packets) /\ RowsRead(c, c.faults, faults)
        /\ c.quotes = <<>> /\ c.keys = {} /\ (attestation_keys = {} => SoftwareData(c))
    BY <1>0, <2>1, <2>2 DEF LoadInv
  <2>4. /\ d \in SessionDatas /\ d.faults = c.faults /\ d.keys = c.keys
        /\ d.session_id = c.session_id /\ d.packets = c.packets
        /\ RowsOf(c, d.quotes, quotes)
        /\ RowsRead(c, d.quotes, quotes) \/ NoQuotes(d)
    <3>1. CASE d = [c EXCEPT !.quotes = Select(quotes, c.session_id)]
      <4>1. PICK rows : rows = Select(quotes, c.session_id)
        OBVIOUS
      <4>2. rows \in Seq(QuoteRows) /\ RowsRead(c, rows, quotes) /\ RowsOf(c, rows, quotes)
        BY <1>t, <4>1, ReadTable
      <4>3. d = [c EXCEPT !.quotes = rows]
        BY <3>1, <4>1
      <4>4. /\ d \in SessionDatas /\ d.quotes = rows /\ d.faults = c.faults /\ d.keys = c.keys
            /\ d.session_id = c.session_id /\ d.packets = c.packets
        BY <2>3, <4>2, <4>3 DEF SessionDatas
      <4> QED BY <4>2, <4>4
    <3>2. CASE d = c /\ "quotes" \in LoadMayFail
      <4>1. RowsOf(c, d.quotes, quotes)
        BY <2>3, <3>2 DEF RowsOf
      <4> QED BY <2>3, <3>2, <4>1 DEF NoQuotes
    <3> QED BY <1>6, <2>1, <3>1, <3>2 DEF _load_quotes
  <2>5. PacketsRead(d, packets)
    BY <2>3, <2>4, SamePackets
  <2>6. RowsRead(d, d.faults, faults)
    BY <2>3, <2>4, SamePackets
  <2>7. RowsRead(d, d.quotes, quotes) \/ NoQuotes(d)
    BY <2>4, SamePackets
  <2>8. PacketsStored => QuotesBound(d)
    <3>1. RowsOf(d, d.quotes, quotes)
      BY <2>4 DEF RowsOf
    <3> QED BY <1>0, <2>4, <2>5, <3>1, ReadQuotes
  <2>9. ASSUME attestation_keys = {} PROVE SoftwareData(d)
    <3>1. DOMAIN quotes = {}
      BY <1>0, <2>9 DEF SoftwareInv, SoftwareTables
    <3>2. \A k \in 1 .. Len(d.quotes) : FALSE
      BY <2>4, <3>1 DEF RowsOf
    <3>3. d.quotes \in Seq(QuoteRows)
      BY <2>4 DEF SessionDatas
    <3>4. d.quotes = <<>>
      BY <3>2, <3>3
    <3> QED BY <2>3, <2>4, <2>9, <3>4 DEF SoftwareData
  <2>10. QuotesRead(d, quotes)
    BY <2>7, <2>8 DEF QuotesRead
  <2>11. LoadInv'
    BY <1>0, <1>3, <1>6, <2>1, <2>2, <2>3, <2>4, <2>5, <2>6, <2>9, <2>10 DEF LoadInv
  <2> QED BY <1>6, <2>2, <2>11, ReaderKeeps
<1>7. CASE _load_attestation_keys /\ UNCHANGED <<packetizerVars, attestation_keys>>
  <2>1. PICK c, d : c = sd /\ d = sd'
    OBVIOUS
  <2>2. at = "keys" /\ at' = "build" /\ UNCHANGED shards
    BY <1>7 DEF _load_attestation_keys
  <2>3. /\ c \in SessionDatas /\ PacketsRead(c, packets) /\ RowsRead(c, c.faults, faults)
        /\ QuotesRead(c, quotes) /\ attestation_keys \in SUBSET Roles /\ c.keys = {}
        /\ attestation_keys = {} => SoftwareData(c)
    BY <1>0, <2>1, <2>2 DEF LoadInv
  <2>4. /\ d \in SessionDatas /\ d.quotes = c.quotes /\ d.faults = c.faults
        /\ d.session_id = c.session_id /\ d.packets = c.packets
        /\ d.keys \in {attestation_keys, {}}
    <3>1. CASE d = [c EXCEPT !.keys = attestation_keys]
      BY <2>3, <3>1 DEF SessionDatas
    <3>2. CASE d = c
      BY <2>3, <3>2
    <3> QED BY <1>7, <2>1, <3>1, <3>2 DEF _load_attestation_keys
  <2>5. PacketsRead(d, packets)
    BY <2>3, <2>4, SamePackets
  <2>6. RowsRead(d, d.faults, faults)
    BY <2>3, <2>4, SamePackets
  <2>7. QuotesRead(d, quotes)
    BY <2>3, <2>4, SamePackets
  <2>8. attestation_keys = {} => SoftwareData(d)
    BY <2>3, <2>4 DEF SoftwareData
  <2>9. LoadInv'
    BY <1>0, <1>3, <1>7, <2>1, <2>2, <2>4, <2>5, <2>6, <2>7, <2>8 DEF LoadInv
  <2> QED BY <1>7, <2>2, <2>9, ReaderKeeps
<1>8. CASE SealFails /\ UNCHANGED <<packetizerVars, attestation_keys>>
  <2>1. at' = "raised" /\ UNCHANGED <<sd, shards>>
    BY <1>8 DEF SealFails
  <2>2. LoadInv'
    BY <1>0, <1>3, <1>8, <2>1 DEF LoadInv
  <2> QED BY <1>8, <2>1, <2>2, ReaderKeeps
<1>9. CASE Seal /\ UNCHANGED <<packetizerVars, attestation_keys>>
  <2>1. CASE at' = "raised" /\ UNCHANGED <<sd, shards>>
    <3>1. LoadInv'
      BY <1>0, <1>3, <1>9, <2>1 DEF LoadInv
    <3> QED BY <1>9, <2>1, <3>1, ReaderKeeps
  <2>2. CASE ~(\E k \in DOMAIN sd.packets : HashMismatch(sd.packets[k]))
    <3>1. at = "build" /\ shards' = Append(shards, Shard(sd)) /\ at' = "idle" /\ sd' = NoData
      BY <1>9, <2>2 DEF Seal
    <3>2. PICK d : d = sd
      OBVIOUS
    <3>3. d \in SessionDatas
      BY <1>0, <3>2
    <3>4. Sealed(d)
      <4>1. DOMAIN d.packets = 1 .. Len(d.packets)
        BY <3>3 DEF SessionDatas
      <4>2. HashesMatch(d)
        BY <2>2, <3>2, <4>1 DEF HashesMatch
      <4> QED BY <1>0, <3>1, <3>2, <4>2 DEF Sealed, LoadInv
    <3>5. UNCHANGED <<packets, quotes, faults, attestation_keys>>
      BY <1>3, <1>9
    <3>6. shards \in Seq(Shards) /\ SealedInv
      BY DEF SpokeInv
    <3>7. PICK new \in Shards : new = Shard(d)
      BY <3>3 DEF Shards
    <3>8. shards' = Append(shards, new)
      BY <3>1, <3>2, <3>7
    <3>9. shards' \in Seq(Shards)
      BY <3>6, <3>8
    <3>10. /\ DOMAIN shards' = DOMAIN shards \cup {Len(shards) + 1}
           /\ \A n \in DOMAIN shards : shards'[n] = shards[n]
           /\ shards'[Len(shards) + 1] = new
      BY <3>6, <3>8, InsertedRow
    <3>11. ASSUME NEW n \in DOMAIN shards'
           PROVE  \E e \in SessionDatas : shards'[n] = Shard(e) /\ Sealed(e)'
      <4>1. CASE n \in DOMAIN shards
        <5>1. PICK e \in SessionDatas : shards[n] = Shard(e) /\ Sealed(e)
          BY <3>6, <4>1 DEF SealedInv
        <5>2. Sealed(e)'
          BY <3>5, <5>1 DEF Sealed
        <5> QED BY <3>10, <4>1, <5>1, <5>2
      <4>2. CASE n = Len(shards) + 1
        <5>1. Sealed(d)'
          BY <3>4, <3>5 DEF Sealed
        <5> QED BY <3>3, <3>7, <3>10, <4>2, <5>1
      <4> QED BY <3>10, <4>1, <4>2
    <3>12. SealedInv'
      BY <3>11 DEF SealedInv
    <3>13. NoData \in SessionDatas
      <4>1. <<>> \in Seq(PacketRows) /\ <<>> \in Seq(FaultRows) /\ <<>> \in Seq(QuoteRows)
        OBVIOUS
      <4> QED BY <4>1 DEF NoData, SessionDatas
    <3>14. LoadInv'
      BY <1>0, <1>9, <3>1, <3>13 DEF LoadInv
    <3>15. TableInv'
      BY <1>0, <1>9, StepTables
    <3>16. SoftwareInv'
      BY <1>0, <1>9, <3>5 DEF SoftwareInv, SoftwareTables, packetizerVars, loopVars
    <3> QED BY <3>9, <3>12, <3>14, <3>15, <3>16 DEF SpokeInv
  <2> QED BY <1>9, <2>1, <2>2 DEF Seal
<1> QED BY <1>1, <1>2, <1>4, <1>5, <1>6, <1>7, <1>8, <1>9 DEF SpokeNext, SpokeStep, compile_session

\* The invariant holds of every behaviour of the daemon and its reader.
LEMMA SpokeInvariant == SpokeSpec => []SpokeInv
BY InitSpoke, StepSpoke, PTL DEF SpokeSpec

-----------------------------------------------------------------------------
\* A shard is a prefix of its session as the buffer has it, from the time it is
\* sealed on: the SELECT of the packets sees a chain without a gap although the
\* packetizer writes meanwhile, and the record of packet fid is at 4 + fid * 269.
THEOREM ShardsArePrefixes == SpokeSpec => []ShardIsPrefix
<1>1. SpokeInv => ShardIsPrefix
  BY PrefixOf DEF SpokeInv
<1> QED BY <1>1, SpokeInvariant, PTL

\* No fault and no quote of a sealed packet is missing from its shard, also none
\* that the daemon writes later: load_session's order of reading the tables and
\* the packetizer's of writing them fit together.  Only if _load_quotes passes
\* over an error can quotes be missing, and then all of them are.
THEOREM ShardsAreComplete == SpokeSpec => []ShardComplete
<1>1. SpokeInv => ShardComplete
  BY CompleteOf DEF SpokeInv
<1> QED BY <1>1, SpokeInvariant, PTL

\* The slice of packets.bin that packets@1 locates for a record hashes to the
\* record's packet_sha256: build_packets' running offsets are right for packets
\* of every length.
THEOREM SlicesAreRight == SpokeSpec => []SlicesHash
<1>1. SpokeInv => SlicesHash
  BY SlicesOf DEF SpokeInv
<1> QED BY <1>1, SpokeInvariant, PTL

\* The whole chain of a shard of a node that never opened a TPM is recomputed from
\* the shard alone, whatever calls fail and wherever the daemon dies, and the
\* shard has no attestation rows.
THEOREM SoftwareChainsRecomputable == SpokeSpec => []SoftwareChainFromShard
<1>1. SpokeInv => SoftwareChainFromShard
  BY ChainOf DEF SpokeInv
<1> QED BY <1>1, SpokeInvariant, PTL

\* A sealed quote at the number of a sealed packet is bound to that packet, if
\* WritePacket does not fail between the quote and its packet.
THEOREM SealedQuotesAreBound ==
    ASSUME PacketsStored
    PROVE  SpokeSpec => []SealedQuotesBind
<1>1. SpokeInv => SealedQuotesBind
  BY QuotesOf DEF SpokeInv
<1> QED BY <1>1, SpokeInvariant, PTL
=============================================================================
