----------------------------- MODULE DataLemmas -----------------------------
(***************************************************************************)
(* Lemmas about the data the other proofs rest on.  Induction over the     *)
(* naturals is their well-foundedness, applied to the set of               *)
(* counterexamples.  The rounds of merkleReduce are a recursive function;  *)
(* that it exists, and what it computes for segments of every length, is   *)
(* proved by that induction.                                               *)
(***************************************************************************)
EXTENDS Merkle, Integers, WellFoundedInduction, TLAPS

\* Every set of naturals that is not empty has a least element.
LEMMA LeastNatural ==
    ASSUME NEW T \in SUBSET Nat, T # {}
    PROVE  \E x \in T : \A y \in T : x <= y
<1>1. IsWellFoundedOn(OpToRel(<, Nat), Nat)
  BY NatLessThanWellFounded
<1>2. PICK x \in T : \A y \in T : <<y, x>> \notin OpToRel(<, Nat)
  BY <1>1, WFMin
<1>3. \A y \in T : ~(y < x)
  BY <1>2 DEF OpToRel
<1> QED BY <1>3

\* Induction: a set of naturals with 0 and the successor of each of its members.
LEMMA SetInduction ==
    ASSUME NEW S, 0 \in S, \A n \in Nat : n \in S => n + 1 \in S
    PROVE  \A n \in Nat : n \in S
<1> SUFFICES ASSUME NEW k \in Nat, k \notin S PROVE FALSE
  OBVIOUS
<1> DEFINE T == {n \in Nat : n \notin S}
<1>1. PICK x \in T : \A y \in T : x <= y
  <2>1. T \in SUBSET Nat /\ T # {}
    OBVIOUS
  <2> HIDE DEF T
  <2> QED BY <2>1, LeastNatural
<1>2. x \in Nat /\ x # 0 /\ x \notin S
  BY <1>1
<1>3. x - 1 \in Nat /\ x - 1 \notin T
  BY <1>1, <1>2
<1>4. x - 1 \in S
  BY <1>3
<1> QED BY <1>2, <1>3, <1>4

\* Strong induction: a set of naturals with each number all of whose predecessors
\* it has.
LEMMA StrongInduction ==
    ASSUME NEW S, \A n \in Nat : (\A m \in 0 .. n - 1 : m \in S) => n \in S
    PROVE  \A n \in Nat : n \in S
<1> SUFFICES ASSUME NEW k \in Nat, k \notin S PROVE FALSE
  OBVIOUS
<1> DEFINE T == {n \in Nat : n \notin S}
<1>1. PICK x \in T : \A y \in T : x <= y
  <2>1. T \in SUBSET Nat /\ T # {}
    OBVIOUS
  <2> HIDE DEF T
  <2> QED BY <2>1, LeastNatural
<1>2. \A m \in 0 .. x - 1 : m \in S
  BY <1>1
<1> QED BY <1>1, <1>2

-----------------------------------------------------------------------------
\* The rounds of merkleReduce, of which there are m after the first level.
Rounds(level, m, f) == f = [n \in 0 .. m |-> IF n = 0 THEN level ELSE NextLevel(f[n - 1])]

\* The rounds are well defined, for any number of them.
LEMMA RoundsExist == ASSUME NEW level PROVE \A m \in Nat : \E f : Rounds(level, m, f)
<1> DEFINE S == {m \in Nat : \E f : Rounds(level, m, f)}
<1>1. 0 \in S
  <2> DEFINE f == [n \in 0 .. 0 |-> level]
  <2>1. f = [n \in 0 .. 0 |-> IF n = 0 THEN level ELSE NextLevel(f[n - 1])]
    OBVIOUS
  <2> QED BY <2>1 DEF Rounds
<1>2. ASSUME NEW m \in Nat, m \in S PROVE m + 1 \in S
  <2>1. PICK f : f = [n \in 0 .. m |-> IF n = 0 THEN level ELSE NextLevel(f[n - 1])]
    BY <1>2 DEF Rounds
  <2> DEFINE g == [n \in 0 .. m + 1 |-> IF n \in 0 .. m THEN f[n] ELSE NextLevel(f[m])]
  <2>2. ASSUME NEW n \in 0 .. m + 1
        PROVE  g[n] = IF n = 0 THEN level ELSE NextLevel(g[n - 1])
    <3>1. CASE n = 0
      BY <2>1, <3>1
    <3>2. CASE n \in 1 .. m
      <4>1. f[n] = NextLevel(f[n - 1])
        BY <2>1, <3>2
      <4>2. g[n] = f[n] /\ g[n - 1] = f[n - 1]
        BY <3>2
      <4> QED BY <3>2, <4>1, <4>2
    <3>3. CASE n = m + 1
      <4>1. g[n] = NextLevel(f[m]) /\ g[n - 1] = f[m] /\ n # 0
        BY <3>3
      <4> QED BY <4>1
    <3> QED BY <3>1, <3>2, <3>3
  <2>3. g = [n \in 0 .. m + 1 |-> IF n = 0 THEN level ELSE NextLevel(g[n - 1])]
    BY <2>2
  <2> HIDE DEF g
  <2> QED BY <2>3 DEF Rounds
<1> HIDE DEF S
<1>3. \A m \in Nat : m \in S
  BY <1>1, <1>2, SetInduction
<1> QED BY <1>3 DEF S

\* merkleReduce returns the first hash of the last round.
LEMMA ReducesRounds ==
    ASSUME NEW level, Len(level) \in Nat
    PROVE  \E f : /\ Rounds(level, Len(level), f)
                  /\ merkleReduce(level) = f[Len(level)][1]
<1> DEFINE f == CHOOSE f : f = [n \in 0 .. Len(level) |->
                                  IF n = 0 THEN level ELSE NextLevel(f[n - 1])]
<1>1. f = [n \in 0 .. Len(level) |-> IF n = 0 THEN level ELSE NextLevel(f[n - 1])]
  BY RoundsExist DEF Rounds
<1>2. merkleReduce(level) = f[Len(level)][1]
  BY DEF merkleReduce
<1> QED BY <1>1, <1>2 DEF Rounds

-----------------------------------------------------------------------------
\* A hash is a byte string.
LEMMA HashTypes ==
    ASSUME NEW i \in Nat, NEW a \in Seq(Nat), NEW b \in Seq(Nat)
    PROVE  /\ Blake3(a) \in Seq(Nat)
           /\ Leaf(i, a) \in Seq(Nat)
           /\ Node(a, b) \in Seq(Nat)
<1>1. ASSUME NEW x \in Seq(Nat) PROVE Blake3(x) \in Seq(Nat)
  BY DEF Blake3
<1>2. <<0, i, 0>> \o a \in Seq(Nat) /\ <<1>> \o a \o b \in Seq(Nat)
  OBVIOUS
<1> QED BY <1>1, <1>2 DEF Leaf, Node

\* A function on 1 .. n is a sequence of length n.
LEMMA FunctionIsSequence ==
    ASSUME NEW R, NEW n \in Nat, NEW f \in [1 .. n -> R]
    PROVE  f \in Seq(R) /\ Len(f) = n
<1>1. f \in Seq(R)
  OBVIOUS
<1>2. DOMAIN f = 1 .. n /\ DOMAIN f = 1 .. Len(f) /\ Len(f) \in Nat
  BY <1>1
<1> QED BY <1>1, <1>2

\* Sequences of the same length with the same elements are the same.
LEMMA SameElements ==
    ASSUME NEW R, NEW a \in Seq(R), NEW b \in Seq(R), Len(a) = Len(b),
           \A k \in 1 .. Len(a) : a[k] = b[k]
    PROVE  a = b
OBVIOUS

\* A number is twice its half, and one more when it is odd.
LEMMA Halves ==
    \A n \in Nat : n \div 2 \in Nat /\ n % 2 \in {0, 1} /\ n = 2 * (n \div 2) + (n % 2)
<1>1. \A n \in Nat : n = 2 * (n \div 2) + (n % 2)
  OBVIOUS
<1>2. \A n \in Nat : n \div 2 \in Nat /\ n % 2 \in 0 .. 1
  OBVIOUS
<1> QED BY <1>1, <1>2

\* A level of hashes has a level above it of half the length, rounded up.
LEMMA NextLevelType ==
    ASSUME NEW level \in Seq(Seq(Nat)), Len(level) > 0
    PROVE  /\ NextLevel(level) \in Seq(Seq(Nat))
           /\ Len(NextLevel(level)) = (Len(level) \div 2) + (Len(level) % 2)
           /\ Len(NextLevel(level)) > 0
<1> DEFINE half == Len(level) \div 2
           rest == IF Len(level) % 2 = 1 THEN <<level[Len(level)]>> ELSE <<>>
<1>1. Len(level) \in Nat /\ half \in Nat /\ Len(level) % 2 \in {0, 1}
  <2>1. Len(level) \in Nat
    OBVIOUS
  <2> QED BY <2>1, Halves
<1>2. Len(level) = 2 * half + (Len(level) % 2)
  BY <1>1, Halves
<1>3. ASSUME NEW k \in 1 .. half PROVE Node(level[2 * k - 1], level[2 * k]) \in Seq(Nat)
  <2>1. 2 * k - 1 \in 1 .. Len(level) /\ 2 * k \in 1 .. Len(level)
    BY <1>1, <1>2
  <2>2. level[2 * k - 1] \in Seq(Nat) /\ level[2 * k] \in Seq(Nat)
    BY <2>1
  <2> QED BY <2>2, HashTypes
<1>4. Pairs(level) \in Seq(Seq(Nat)) /\ Len(Pairs(level)) = half
  <2>1. Pairs(level) = [k \in 1 .. half |-> Node(level[2 * k - 1], level[2 * k])]
    BY DEF Pairs
  <2> HIDE DEF half
  <2>2. Pairs(level) \in [1 .. half -> Seq(Nat)]
    BY <1>3, <2>1
  <2> QED BY <1>1, <2>2, FunctionIsSequence
<1>5. rest \in Seq(Seq(Nat)) /\ Len(rest) = Len(level) % 2
  <2>1. CASE Len(level) % 2 = 1
    <3>1. level[Len(level)] \in Seq(Nat)
      BY <1>1
    <3> QED BY <2>1, <3>1
  <2>2. CASE Len(level) % 2 = 0
    BY <2>2
  <2> QED BY <1>1, <2>1, <2>2
<1>6. NextLevel(level) = Pairs(level) \o rest
  BY DEF NextLevel
<1> HIDE DEF rest, half
<1>7. NextLevel(level) \in Seq(Seq(Nat)) /\ Len(NextLevel(level)) = half + (Len(level) % 2)
  BY <1>1, <1>4, <1>5, <1>6
<1>8. half + (Len(level) % 2) > 0
  BY <1>1, <1>2
<1> QED BY <1>7, <1>8 DEF half

\* Every round is a level of hashes, and none is empty.
LEMMA RoundsType ==
    ASSUME NEW level \in Seq(Seq(Nat)), Len(level) > 0, NEW m \in Nat, NEW f,
           Rounds(level, m, f), NEW n \in 0 .. m
    PROVE  f[n] \in Seq(Seq(Nat)) /\ Len(f[n]) > 0
<1> DEFINE S == {k \in Nat : k <= m => f[k] \in Seq(Seq(Nat)) /\ Len(f[k]) > 0}
<1>1. 0 \in S
  BY DEF Rounds
<1>2. ASSUME NEW k \in Nat, k \in S PROVE k + 1 \in S
  <2> SUFFICES ASSUME k + 1 <= m PROVE f[k + 1] \in Seq(Seq(Nat)) /\ Len(f[k + 1]) > 0
    OBVIOUS
  <2>1. f[k + 1] = NextLevel(f[k])
    <3>1. k + 1 \in 0 .. m /\ k + 1 # 0 /\ (k + 1) - 1 = k
      OBVIOUS
    <3> QED BY <3>1 DEF Rounds
  <2>2. f[k] \in Seq(Seq(Nat)) /\ Len(f[k]) > 0
    BY <1>2
  <2> QED BY <2>1, <2>2, NextLevelType
<1> HIDE DEF S
<1>3. \A k \in Nat : k \in S
  BY <1>1, <1>2, SetInduction
<1> QED BY <1>3 DEF S

\* The root of a segment is a byte string, for a segment of any length.
LEMMA RootType ==
    ASSUME NEW hashes \in Seq(Seq(Nat))
    PROVE  localSegmentRoot(hashes) \in Seq(Nat)
<1>1. CASE hashes = <<>>
  <2>1. <<1>> \in Seq(Nat)
    OBVIOUS
  <2> QED BY <1>1, <2>1, HashTypes DEF localSegmentRoot
<1>2. CASE hashes # <<>>
  <2> DEFINE level == [i \in 1 .. Len(hashes) |-> Leaf(i - 1, hashes[i])]
  <2>1. Len(hashes) \in Nat /\ Len(hashes) > 0
    BY <1>2
  <2>2. ASSUME NEW i \in 1 .. Len(hashes) PROVE Leaf(i - 1, hashes[i]) \in Seq(Nat)
    <3>1. hashes[i] \in Seq(Nat) /\ i - 1 \in Nat
      BY <2>1
    <3> QED BY <3>1, HashTypes
  <2>3. level \in Seq(Seq(Nat)) /\ Len(level) = Len(hashes)
    <3>1. level \in [1 .. Len(hashes) -> Seq(Nat)]
      BY <2>2
    <3> HIDE DEF level
    <3> QED BY <2>1, <3>1, FunctionIsSequence
  <2>4. localSegmentRoot(hashes) = merkleReduce(level)
    BY <1>2 DEF localSegmentRoot
  <2> HIDE DEF level
  <2>5. PICK f : /\ Rounds(level, Len(level), f)
                 /\ merkleReduce(level) = f[Len(level)][1]
    BY <2>1, <2>3, ReducesRounds
  <2>6. f[Len(level)] \in Seq(Seq(Nat)) /\ Len(f[Len(level)]) > 0
    <3>1. Len(level) \in 0 .. Len(level)
      BY <2>1, <2>3
    <3> QED BY <2>1, <2>3, <2>5, <3>1, RoundsType
  <2>7. f[Len(level)][1] \in Seq(Nat)
    BY <2>6
  <2> QED BY <2>4, <2>5, <2>7
<1> QED BY <1>1, <1>2
=============================================================================
