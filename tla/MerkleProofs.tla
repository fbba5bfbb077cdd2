---------------------------- MODULE MerkleProofs ----------------------------
(***************************************************************************)
(* localSegmentRoot gives the RFC 6962 tree hash, and no two sequences of  *)
(* packet hashes have the same root, for every length and every value.     *)
(*                                                                         *)
(* The split points double from a level to the one above it, so the tree   *)
(* over a level and the tree over the next one agree wherever both are     *)
(* defined; and a hash tells its own length, so a node can be taken apart. *)
(***************************************************************************)
EXTENDS DataLemmas

\* The powers of two up to the m-th as a function of the exponent.
Powers(m, f) == f = [e \in 0 .. m |-> IF e = 0 THEN 1 ELSE 2 * f[e - 1]]

\* The powers of two are well defined.
LEMMA PowersExist == \A m \in Nat : \E f : Powers(m, f)
<1> DEFINE S == {m \in Nat : \E f : Powers(m, f)}
<1>1. 0 \in S
  <2> DEFINE f == [e \in 0 .. 0 |-> 1]
  <2>1. f = [e \in 0 .. 0 |-> IF e = 0 THEN 1 ELSE 2 * f[e - 1]]
    OBVIOUS
  <2> QED BY <2>1 DEF Powers
<1>2. ASSUME NEW m \in Nat, m \in S PROVE m + 1 \in S
  <2>1. PICK f : f = [e \in 0 .. m |-> IF e = 0 THEN 1 ELSE 2 * f[e - 1]]
    BY <1>2 DEF Powers
  <2> DEFINE g == [e \in 0 .. m + 1 |-> IF e \in 0 .. m THEN f[e] ELSE 2 * f[m]]
  <2>2. ASSUME NEW e \in 0 .. m + 1
        PROVE  g[e] = IF e = 0 THEN 1 ELSE 2 * g[e - 1]
    <3>1. CASE e = 0
      BY <2>1, <3>1
    <3>2. CASE e \in 1 .. m
      <4>1. f[e] = 2 * f[e - 1]
        BY <2>1, <3>2
      <4>2. g[e] = f[e] /\ g[e - 1] = f[e - 1]
        BY <3>2
      <4> QED BY <3>2, <4>1, <4>2
    <3>3. CASE e = m + 1
      <4>1. e \notin 0 .. m /\ e - 1 = m /\ m \in 0 .. m /\ m \in 0 .. m + 1 /\ e # 0
        BY <3>3
      <4>2. g[e] = 2 * f[m] /\ g[e - 1] = f[m]
        BY <4>1
      <4> QED BY <4>1, <4>2
    <3> QED BY <3>1, <3>2, <3>3
  <2>3. g = [e \in 0 .. m + 1 |-> IF e = 0 THEN 1 ELSE 2 * g[e - 1]]
    BY <2>2
  <2> HIDE DEF g
  <2>4. Powers(m + 1, g)
    BY <2>3 DEF Powers
  <2> QED BY <2>4
<1> HIDE DEF S
<1>3. \A m \in Nat : m \in S
  BY <1>1, <1>2, SetInduction
<1> QED BY <1>3 DEF S

\* PowersOfTwo(n) has the values of that function.
LEMMA PowersAre ==
    ASSUME NEW n \in Nat
    PROVE  \E f : Powers(n, f) /\ PowersOfTwo(n) = {f[e] : e \in 0 .. n}
<1> DEFINE f == CHOOSE f : f = [e \in 0 .. n |-> IF e = 0 THEN 1 ELSE 2 * f[e - 1]]
<1>1. f = [e \in 0 .. n |-> IF e = 0 THEN 1 ELSE 2 * f[e - 1]]
  BY PowersExist DEF Powers
<1>2. PowersOfTwo(n) = {f[e] : e \in 0 .. n}
  BY DEF PowersOfTwo
<1> QED BY <1>1, <1>2 DEF Powers

\* A power of two is larger than its exponent.
LEMMA PowersGrow ==
    ASSUME NEW n \in Nat, NEW f, Powers(n, f), NEW e \in 0 .. n
    PROVE  f[e] \in Nat /\ f[e] > e
<1> DEFINE S == {k \in Nat : k <= n => f[k] \in Nat /\ f[k] > k}
<1>1. 0 \in S
  BY DEF Powers
<1>2. ASSUME NEW k \in Nat, k \in S PROVE k + 1 \in S
  <2> SUFFICES ASSUME k + 1 <= n PROVE f[k + 1] \in Nat /\ f[k + 1] > k + 1
    OBVIOUS
  <2>1. f[k + 1] = 2 * f[k]
    <3>1. k + 1 \in 0 .. n /\ k + 1 # 0 /\ (k + 1) - 1 = k
      OBVIOUS
    <3> QED BY <3>1 DEF Powers
  <2>2. f[k] \in Nat /\ f[k] > k
    BY <1>2
  <2> QED BY <2>1, <2>2
<1> HIDE DEF S
<1>3. \A k \in Nat : k \in S
  BY <1>1, <1>2, SetInduction
<1> QED BY <1>3 DEF S

\* A power of two is 1 or twice a power of two.
LEMMA PowerHalves ==
    ASSUME NEW n \in Nat, NEW p \in PowersOfTwo(n)
    PROVE  p \in Nat /\ p > 0 /\ (p = 1 \/ \E q \in PowersOfTwo(n) : p = 2 * q)
<1>1. PICK f : Powers(n, f) /\ PowersOfTwo(n) = {f[e] : e \in 0 .. n}
  BY PowersAre
<1>2. PICK e \in 0 .. n : p = f[e]
  BY <1>1
<1>3. p \in Nat /\ p > 0
  BY <1>1, <1>2, PowersGrow
<1>4. CASE e = 0
  BY <1>1, <1>2, <1>3, <1>4 DEF Powers
<1>5. CASE e # 0
  <2>1. f[e] = 2 * f[e - 1]
    BY <1>1, <1>5 DEF Powers
  <2>2. e - 1 \in 0 .. n
    BY <1>5
  <2> QED BY <1>1, <1>2, <1>3, <2>1, <2>2
<1> QED BY <1>4, <1>5

\* Between a power of two and twice it there is no other.
LEMMA PowersApart ==
    ASSUME NEW m \in Nat, NEW n \in Nat, NEW p \in PowersOfTwo(m),
           NEW q \in PowersOfTwo(n), p < q
    PROVE  2 * p <= q
<1> DEFINE S == {y \in Nat : y \in PowersOfTwo(n) =>
                    \A x \in PowersOfTwo(m) : x < y => 2 * x <= y}
<1>1. ASSUME NEW y \in Nat, \A z \in 0 .. y - 1 : z \in S PROVE y \in S
  <2> SUFFICES ASSUME y \in PowersOfTwo(n), NEW x \in PowersOfTwo(m), x < y
               PROVE  2 * x <= y
    OBVIOUS
  <2>1. x \in Nat /\ x > 0
    BY PowerHalves
  <2>2. PICK z \in PowersOfTwo(n) : y = 2 * z
    BY <2>1, PowerHalves
  <2>3. z \in Nat /\ z > 0
    BY <2>2, PowerHalves
  <2>4. CASE x = 1
    BY <2>2, <2>3, <2>4
  <2>5. CASE x # 1
    <3>1. PICK w \in PowersOfTwo(m) : x = 2 * w
      BY <2>5, PowerHalves
    <3>2. w \in Nat /\ w < z
      BY <2>1, <2>2, <2>3, <3>1, PowerHalves
    <3>3. z \in S
      BY <1>1, <2>2, <2>3
    <3>4. 2 * w <= z
      BY <3>1, <3>2, <3>3
    <3> QED BY <2>2, <2>3, <3>1, <3>2, <3>4
  <2> QED BY <2>4, <2>5
<1> HIDE DEF S
<1>2. \A y \in Nat : y \in S
  BY <1>1, StrongInduction
<1>3. q \in Nat
  BY PowerHalves
<1> QED BY <1>2, <1>3 DEF S

\* A number above 1 has a split point.
LEMMA SplitPointIs ==
    ASSUME NEW n \in Nat, n > 1
    PROVE  /\ SplitPoint(n) \in PowersOfTwo(n)
           /\ SplitPoint(n) \in 1 .. n - 1
           /\ n <= 2 * SplitPoint(n)
<1>1. PICK f : Powers(n, f) /\ PowersOfTwo(n) = {f[e] : e \in 0 .. n}
  BY PowersAre
<1> DEFINE T == {e \in 0 .. n : f[e] >= n}
<1>2. \A e \in 0 .. n : f[e] \in Nat /\ f[e] > e
  BY <1>1, PowersGrow
<1>3. PICK e \in T : \A d \in T : e <= d
  <2>1. n \in T
    BY <1>2
  <2>2. T \in SUBSET Nat /\ T # {}
    BY <2>1
  <2> HIDE DEF T
  <2> QED BY <2>2, LeastNatural
<1>4. f[0] = 1
  BY <1>1 DEF Powers
<1>5. e \in 0 .. n /\ e # 0 /\ n <= f[e]
  BY <1>2, <1>3, <1>4
<1>6. f[e] = 2 * f[e - 1]
  BY <1>1, <1>5 DEF Powers
<1>7. e - 1 \in 0 .. n /\ e - 1 \notin T
  BY <1>3, <1>5
<1>8. f[e - 1] < n
  BY <1>2, <1>7
<1>9. \E p \in PowersOfTwo(n) : p < n /\ n <= 2 * p
  BY <1>1, <1>5, <1>6, <1>7, <1>8
<1>10. SplitPoint(n) \in PowersOfTwo(n) /\ SplitPoint(n) < n /\ n <= 2 * SplitPoint(n)
  BY <1>9 DEF SplitPoint
<1> QED BY <1>10, PowerHalves

\* Above 2 the split point is twice that of the half, rounded up.
LEMMA SplitPointDoubles ==
    ASSUME NEW n \in Nat, n > 2, NEW h \in Nat, n = 2 * h \/ n = 2 * h - 1
    PROVE  SplitPoint(n) = 2 * SplitPoint(h)
<1>1. PICK q \in PowersOfTwo(n) : SplitPoint(n) = 2 * q
  <2>1. SplitPoint(n) # 1
    BY SplitPointIs
  <2> QED BY <2>1, SplitPointIs, PowerHalves
<1>2. q \in Nat /\ q < h /\ h <= 2 * q
  BY <1>1, SplitPointIs, PowerHalves
<1> DEFINE r == SplitPoint(h)
<1>3. r \in PowersOfTwo(h) /\ r \in Nat /\ r < h /\ h <= 2 * r
  BY SplitPointIs
<1> HIDE DEF r
<1>4. ~(q < r) /\ ~(r < q)
  <2>1. q < r => 2 * q <= r
    BY <1>3, PowersApart
  <2>2. r < q => 2 * r <= q
    BY <1>3, PowersApart
  <2> QED BY <1>2, <1>3, <2>1, <2>2
<1> QED BY <1>1, <1>2, <1>3, <1>4 DEF r

-----------------------------------------------------------------------------
\* The hashes of the runs of n leaves, from those of shorter runs.
RunHashes(leaves, f, n) ==
    [i \in 1 .. Len(leaves) - n + 1 |->
        IF n = 1 THEN leaves[i]
        ELSE Node(f[SplitPoint(n)][i], f[n - SplitPoint(n)][i + SplitPoint(n)])]

\* The hashes of the runs of at most m leaves.
TreeOf(leaves, m, f) == f = [n \in 1 .. m |-> RunHashes(leaves, f, n)]

\* A row depends on the shorter runs only.
LEMMA RowFromShorter ==
    ASSUME NEW leaves, NEW n \in Nat, n > 0, NEW f, NEW g,
           \A k \in 1 .. n - 1 : f[k] = g[k]
    PROVE  RunHashes(leaves, f, n) = RunHashes(leaves, g, n)
<1>1. CASE n = 1
  BY <1>1 DEF RunHashes
<1>2. CASE n # 1
  <2> DEFINE p == SplitPoint(n)
  <2>1. p \in 1 .. n - 1 /\ n - p \in 1 .. n - 1
    <3>1. p \in 1 .. n - 1
      BY <1>2, SplitPointIs
    <3> HIDE DEF p
    <3> QED BY <3>1
  <2>2. f[p] = g[p] /\ f[n - p] = g[n - p]
    BY <2>1
  <2> QED BY <1>2, <2>2 DEF RunHashes
<1> QED BY <1>1, <1>2

\* The tree hashes are well defined.
LEMMA TreeExists == ASSUME NEW leaves PROVE \A m \in Nat : \E f : TreeOf(leaves, m, f)
<1> DEFINE S == {m \in Nat : \E f : TreeOf(leaves, m, f)}
<1>1. 0 \in S
  <2> DEFINE f == [n \in 1 .. 0 |-> 0]
  <2>1. f = [n \in 1 .. 0 |-> RunHashes(leaves, f, n)]
    OBVIOUS
  <2> QED BY <2>1 DEF TreeOf
<1>2. ASSUME NEW m \in Nat, m \in S PROVE m + 1 \in S
  <2>1. PICK f : f = [n \in 1 .. m |-> RunHashes(leaves, f, n)]
    BY <1>2 DEF TreeOf
  <2> DEFINE g == [n \in 1 .. m + 1 |-> RunHashes(leaves, f, n)]
  <2>2. \A k \in 1 .. m : f[k] = g[k]
    <3>1. ASSUME NEW k \in 1 .. m PROVE f[k] = g[k]
      <4>1. k \in 1 .. m + 1
        OBVIOUS
      <4>2. f[k] = RunHashes(leaves, f, k)
        BY <2>1
      <4>3. g[k] = RunHashes(leaves, f, k)
        BY <4>1
      <4> QED BY <4>2, <4>3
    <3> QED BY <3>1
  <2> HIDE DEF g
  <2>3. ASSUME NEW n \in 1 .. m + 1 PROVE RunHashes(leaves, f, n) = RunHashes(leaves, g, n)
    <3>1. n \in Nat /\ n > 0 /\ \A k \in 1 .. n - 1 : k \in 1 .. m
      OBVIOUS
    <3>2. \A k \in 1 .. n - 1 : f[k] = g[k]
      BY <2>2, <3>1
    <3> QED BY <3>1, <3>2, RowFromShorter
  <2>4. g = [n \in 1 .. m + 1 |-> RunHashes(leaves, g, n)]
    BY <2>3 DEF g
  <2>5. TreeOf(leaves, m + 1, g)
    BY <2>4 DEF TreeOf
  <2> QED BY <2>5
<1> HIDE DEF S
<1>3. \A m \in Nat : m \in S
  BY <1>1, <1>2, SetInduction
<1> QED BY <1>3 DEF S

\* A run of one leaf is the leaf, a longer one is split.
LEMMA TreeSplits ==
    ASSUME NEW leaves, Len(leaves) \in Nat, NEW n \in 1 .. Len(leaves),
           NEW i \in 1 .. Len(leaves) - n + 1
    PROVE  /\ n = 1 => TreeHashes(leaves)[n][i] = leaves[i]
           /\ n # 1 => TreeHashes(leaves)[n][i] =
                         Node(TreeHashes(leaves)[SplitPoint(n)][i],
                              TreeHashes(leaves)[n - SplitPoint(n)][i + SplitPoint(n)])
<1> DEFINE t == CHOOSE f : f = [k \in 1 .. Len(leaves) |->
                    [j \in 1 .. Len(leaves) - k + 1 |->
                        IF k = 1 THEN leaves[j]
                        ELSE Node(f[SplitPoint(k)][j],
                                  f[k - SplitPoint(k)][j + SplitPoint(k)])]]
<1>1. t = [k \in 1 .. Len(leaves) |-> RunHashes(leaves, t, k)]
  <2>1. \E f : f = [k \in 1 .. Len(leaves) |-> RunHashes(leaves, f, k)]
    BY TreeExists DEF TreeOf
  <2> QED BY <2>1 DEF RunHashes
<1>2. TreeHashes(leaves) = t
  BY DEF TreeHashes
<1> HIDE DEF t
<1>3. t[n] = RunHashes(leaves, t, n)
  BY <1>1
<1>4. RunHashes(leaves, t, n)[i] =
        IF n = 1 THEN leaves[i]
        ELSE Node(t[SplitPoint(n)][i], t[n - SplitPoint(n)][i + SplitPoint(n)])
  BY DEF RunHashes
<1> QED BY <1>2, <1>3, <1>4

\* Positions in a level and in the one above it.
LEMMA HalfPositions ==
    ASSUME NEW len \in Nat
    PROVE  /\ \A k \in 1 .. (len \div 2) : 2 * k - 1 \in 1 .. len /\ 2 * k \in 1 .. len
           /\ \A j \in Nat : j > 0 /\ 2 * j <= len => j \in 1 .. (len \div 2)
           /\ \A j \in Nat : 2 * j - 1 = len => len % 2 = 1 /\ len \div 2 = j - 1
<1>1. ASSUME NEW half \in Nat, NEW odd \in {0, 1}, len = 2 * half + odd
      PROVE  /\ \A k \in 1 .. half : 2 * k - 1 \in 1 .. len /\ 2 * k \in 1 .. len
             /\ \A j \in Nat : j > 0 /\ 2 * j <= len => j \in 1 .. half
             /\ \A j \in Nat : 2 * j - 1 = len => odd = 1 /\ half = j - 1
  BY <1>1
<1>2. len \div 2 \in Nat /\ len % 2 \in {0, 1} /\ len = 2 * (len \div 2) + (len % 2)
  BY Halves
<1> QED BY <1>1, <1>2

\* The hashes of the next level: pairs, and the odd last hash.
LEMMA NextLevelHashes ==
    ASSUME NEW level \in Seq(Seq(Nat)), Len(level) > 0
    PROVE  /\ \A j \in Nat : j > 0 /\ 2 * j <= Len(level) =>
                NextLevel(level)[j] = Node(level[2 * j - 1], level[2 * j])
           /\ \A j \in Nat : 2 * j - 1 = Len(level) => NextLevel(level)[j] = level[2 * j - 1]
<1> DEFINE half == Len(level) \div 2
           rest == IF Len(level) % 2 = 1 THEN <<level[Len(level)]>> ELSE <<>>
           len == Len(level)
<1>1. len \in Nat /\ half \in Nat /\ len % 2 \in {0, 1} /\ len = 2 * half + (len % 2)
  <2>1. len \in Nat
    OBVIOUS
  <2> QED BY <2>1, Halves
<1>2. Pairs(level) = [k \in 1 .. half |-> Node(level[2 * k - 1], level[2 * k])]
  BY DEF Pairs
<1>3. \A k \in 1 .. half : Node(level[2 * k - 1], level[2 * k]) \in Seq(Nat)
  <2> SUFFICES ASSUME NEW k \in 1 .. half
               PROVE  Node(level[2 * k - 1], level[2 * k]) \in Seq(Nat)
    OBVIOUS
  <2>1. 2 * k - 1 \in 1 .. len /\ 2 * k \in 1 .. len
    BY <1>1, HalfPositions
  <2>2. level[2 * k - 1] \in Seq(Nat) /\ level[2 * k] \in Seq(Nat)
    BY <2>1
  <2> QED BY <2>2, HashTypes
<1>4. Pairs(level) \in Seq(Seq(Nat)) /\ Len(Pairs(level)) = half
  <2> HIDE DEF half
  <2>1. Pairs(level) \in [1 .. half -> Seq(Nat)]
    BY <1>2, <1>3
  <2> QED BY <1>1, <2>1, FunctionIsSequence
<1>5. NextLevel(level) = Pairs(level) \o rest
  BY DEF NextLevel
<1>6. ASSUME NEW j \in Nat, j > 0, 2 * j <= len
      PROVE  NextLevel(level)[j] = Node(level[2 * j - 1], level[2 * j])
  <2>1. j \in 1 .. half
    BY <1>1, <1>6, HalfPositions
  <2>2. rest \in Seq(Seq(Nat))
    <3>1. level[len] \in Seq(Nat)
      OBVIOUS
    <3> QED BY <3>1
  <2> HIDE DEF rest, half
  <2>3. NextLevel(level)[j] = Pairs(level)[j]
    BY <1>1, <1>4, <1>5, <2>1, <2>2
  <2> QED BY <1>2, <2>1, <2>3
<1>7. ASSUME NEW j \in Nat, 2 * j - 1 = len PROVE NextLevel(level)[j] = level[2 * j - 1]
  <2>1. len % 2 = 1 /\ half = j - 1
    BY <1>1, <1>7, HalfPositions
  <2>2. rest = <<level[len]>>
    BY <2>1
  <2> HIDE DEF half, rest
  <2>3. level[len] \in Seq(Nat)
    OBVIOUS
  <2>4. NextLevel(level)[j] = rest[1]
    BY <1>4, <1>5, <2>1, <2>2, <2>3
  <2> QED BY <1>7, <2>2, <2>4
<1> QED BY <1>6, <1>7

-----------------------------------------------------------------------------
\* A run of n hashes of a level that starts at an odd position and is of even
\* length, or reaches the end, is a run of half as many of the level above.
Aligned(len, n, j) == j > 0 /\ 2 * j - 1 + n - 1 <= len /\ (n % 2 = 0 \/ 2 * j - 1 + n - 1 = len)

\* Rounded halves.
Half(n) == (n \div 2) + (n % 2)

\* Half of a number, rounded up.
LEMMA HalfIs ==
    ASSUME NEW n \in Nat
    PROVE  /\ Half(n) \in Nat
           /\ n % 2 = 0 => n = 2 * Half(n)
           /\ n % 2 # 0 => n = 2 * Half(n) - 1
<1>1. ASSUME NEW h \in Nat, NEW odd \in {0, 1}, n = 2 * h + odd
      PROVE  /\ h + odd \in Nat
             /\ odd = 0 => n = 2 * (h + odd)
             /\ odd # 0 => n = 2 * (h + odd) - 1
  BY <1>1
<1> QED BY <1>1, Halves DEF Half

\* A number that is twice another is even, and that one is its half.
LEMMA Doubles ==
    ASSUME NEW n \in Nat
    PROVE  (2 * n) % 2 = 0 /\ Half(2 * n) = n
<1>1. 2 * n \in Nat
  OBVIOUS
<1>2. ASSUME NEW h \in Nat, NEW odd \in {0, 1}, 2 * n = 2 * h + odd
      PROVE  odd = 0 /\ h = n
  BY <1>2
<1>3. (2 * n) % 2 = 0 /\ (2 * n) \div 2 = n
  BY <1>1, <1>2, Halves
<1> QED BY <1>3 DEF Half

\* What is left of an aligned run when an even part is taken from it.
LEMMA AlignedRest ==
    ASSUME NEW len \in Nat, NEW n \in Nat, NEW j \in Nat, Aligned(len, n, j),
           NEW q \in Nat, 2 * q < n
    PROVE  /\ Aligned(len, 2 * q, j)
           /\ Aligned(len, n - 2 * q, j + q)
           /\ Half(n - 2 * q) = Half(n) - q
<1> DEFINE m == n - 2 * q
<1>1. m \in Nat
  OBVIOUS
<1>2. ASSUME NEW h \in Nat, NEW odd \in {0, 1}, n = 2 * h + odd,
             NEW k \in Nat, NEW o \in {0, 1}, m = 2 * k + o
      PROVE  o = odd /\ k + o = h + odd - q
  BY <1>2
<1>3. m % 2 = n % 2 /\ (m \div 2) + (m % 2) = (n \div 2) + (n % 2) - q
  <2>1. PICK h \in Nat, odd \in {0, 1} : h = n \div 2 /\ odd = n % 2 /\ n = 2 * h + odd
    BY Halves
  <2>2. PICK k \in Nat, o \in {0, 1} : k = m \div 2 /\ o = m % 2 /\ m = 2 * k + o
    BY <1>1, Halves
  <2>3. o = odd /\ k + o = h + odd - q
    BY <1>2, <2>1, <2>2
  <2> QED BY <2>1, <2>2, <2>3
<1>4. Half(m) = Half(n) - q
  BY <1>3 DEF Half
<1>5. Aligned(len, 2 * q, j)
  BY Doubles DEF Aligned
<1>6. Aligned(len, m, j + q)
  <2>1. m % 2 = 0 \/ 2 * j - 1 + n - 1 = len
    BY <1>3 DEF Aligned
  <2>2. 2 * (j + q) - 1 + m - 1 = 2 * j - 1 + n - 1
    OBVIOUS
  <2> HIDE DEF m
  <2> QED BY <2>1, <2>2 DEF Aligned
<1> QED BY <1>4, <1>5, <1>6

\* The positions of an aligned run, in its level and in the one above.
LEMMA AlignedPositions ==
    ASSUME NEW len \in Nat, NEW n \in Nat, n > 0, NEW j \in Nat, Aligned(len, n, j)
    PROVE  /\ n \in 1 .. len /\ 2 * j - 1 \in 1 .. len - n + 1
           /\ Half(n) \in 1 .. Half(len) /\ j \in 1 .. Half(len) - Half(n) + 1
<1>1. ASSUME NEW hn, NEW hl, hn \in Nat, hl \in Nat,
             n = 2 * hn \/ n = 2 * hn - 1, len = 2 * hl \/ len = 2 * hl - 1,
             j > 0, 2 * j - 1 + n - 1 <= len,
             n = 2 * hn \/ 2 * j - 1 + n - 1 = len
      PROVE  hn \in 1 .. hl /\ j \in 1 .. hl - hn + 1
  BY <1>1
<1>2. Half(n) \in Nat /\ (n = 2 * Half(n) \/ n = 2 * Half(n) - 1)
  BY HalfIs
<1>3. Half(len) \in Nat /\ (len = 2 * Half(len) \/ len = 2 * Half(len) - 1)
  BY HalfIs
<1>4. n = 2 * Half(n) \/ 2 * j - 1 + n - 1 = len
  BY HalfIs DEF Aligned
<1>5. j > 0 /\ 2 * j - 1 + n - 1 <= len
  BY DEF Aligned
<1> QED BY <1>1, <1>2, <1>3, <1>4, <1>5

\* The tree over a level and the tree over the next one have the same hashes.
LEMMA NextLevelTree ==
    ASSUME NEW level \in Seq(Seq(Nat)), Len(level) > 0
    PROVE  \A n \in Nat : \A j \in Nat :
              n > 0 /\ Aligned(Len(level), n, j) =>
                 TreeHashes(NextLevel(level))[Half(n)][j] = TreeHashes(level)[n][2 * j - 1]
<1> DEFINE len == Len(level)
           up == NextLevel(level)
           T == TreeHashes(level)
           U == TreeHashes(up)
           S == {n \in Nat : \A j \in Nat : n > 0 /\ Aligned(len, n, j) =>
                                U[Half(n)][j] = T[n][2 * j - 1]}
<1>1. len \in Nat /\ Len(up) = Half(len) /\ Len(up) \in Nat
  <2>1. len \in Nat
    OBVIOUS
  <2> QED BY <2>1, NextLevelType, HalfIs DEF Half
<1>2. ASSUME NEW n \in Nat, \A m \in 0 .. n - 1 : m \in S PROVE n \in S
  <2> SUFFICES ASSUME NEW j \in Nat, n > 0, Aligned(len, n, j)
               PROVE  U[Half(n)][j] = T[n][2 * j - 1]
    OBVIOUS
  <2> DEFINE i == 2 * j - 1
             h == Half(n)
  <2>1. /\ n \in 1 .. len /\ i \in 1 .. len - n + 1
        /\ h \in 1 .. Len(up) /\ j \in 1 .. Len(up) - h + 1
    BY <1>1, AlignedPositions
  <2>2. /\ n = 1 => T[n][i] = level[i]
        /\ n # 1 => T[n][i] = Node(T[SplitPoint(n)][i], T[n - SplitPoint(n)][i + SplitPoint(n)])
    BY <1>1, <2>1, TreeSplits
  <2>3. /\ h = 1 => U[h][j] = up[j]
        /\ h # 1 => U[h][j] = Node(U[SplitPoint(h)][j], U[h - SplitPoint(h)][j + SplitPoint(h)])
    <3> HIDE DEF h, up, S
    <3>1. Len(up) \in Nat /\ h \in 1 .. Len(up) /\ j \in 1 .. Len(up) - h + 1
      BY <1>1, <2>1
    <3> QED BY <3>1, TreeSplits
  <2>4. h \in Nat /\ (n = 2 * h \/ n = 2 * h - 1)
    BY HalfIs
  <2>5. CASE n = 1
    <3>1. h = 1 /\ i = len
      <4>1. 1 % 2 # 0
        OBVIOUS
      <4>2. 2 * j - 1 + 1 - 1 = len
        BY <2>5, <4>1 DEF Aligned
      <4> QED BY <2>4, <2>5, <4>2
    <3>2. up[j] = level[i]
      BY <3>1, NextLevelHashes
    <3> QED BY <2>2, <2>3, <2>5, <3>1, <3>2
  <2>6. CASE n = 2
    <3>1. h = 1
      BY <2>4, <2>6
    <3>2. SplitPoint(n) = 1
      BY <2>6, SplitPointIs
    <3>3. T[1][i] = level[i] /\ T[1][i + 1] = level[i + 1]
      <4>1. 1 \in 1 .. len /\ i \in 1 .. len - 1 + 1 /\ i + 1 \in 1 .. len - 1 + 1
        BY <1>1, <2>1, <2>6
      <4> HIDE DEF i, T
      <4> QED BY <1>1, <4>1, TreeSplits DEF T
    <3>4. T[n][i] = Node(T[1][i], T[1][i + 1])
      BY <2>2, <2>6, <3>2
    <3>5. up[j] = Node(level[2 * j - 1], level[2 * j])
      <4>1. j > 0 /\ 2 * j <= len
        BY <1>1, <2>1, <2>6
      <4> QED BY <4>1, NextLevelHashes
    <3>6. i + 1 = 2 * j
      OBVIOUS
    <3> QED BY <2>3, <3>1, <3>3, <3>4, <3>5, <3>6
  <2>7. CASE n > 2
    <3> DEFINE q == SplitPoint(h)
    <3>1. q \in 1 .. h - 1 /\ h > 1
      <4> HIDE DEF h
      <4>1. h \in Nat /\ h > 1
        BY <2>4, <2>7
      <4> QED BY <4>1, SplitPointIs
    <3>2. SplitPoint(n) = 2 * q
      BY <2>4, <2>7, SplitPointDoubles
    <3>3. 2 * q < n
      <4>1. n > 1
        BY <2>7
      <4> QED BY <3>2, <4>1, SplitPointIs
    <3> HIDE DEF q
    <3>4. /\ Aligned(len, 2 * q, j) /\ Aligned(len, n - 2 * q, j + q)
          /\ Half(n - 2 * q) = h - q /\ Half(2 * q) = q
      BY <1>1, <3>1, <3>3, AlignedRest, Doubles
    <3>5. 2 * q \in 0 .. n - 1 /\ n - 2 * q \in 0 .. n - 1 /\ 2 * q > 0 /\ n - 2 * q > 0
      BY <3>1, <3>3
    <3>6. U[q][j] = T[2 * q][i]
      BY <1>2, <3>4, <3>5
    <3>7. U[h - q][j + q] = T[n - 2 * q][2 * (j + q) - 1]
      <4>1. n - 2 * q \in S
        BY <1>2, <3>5
      <4>2. j + q \in Nat
        BY <3>1
      <4> QED BY <3>4, <3>5, <4>1, <4>2
    <3>8. 2 * (j + q) - 1 = i + 2 * q
      BY <3>1
    <3>9. T[n][i] = Node(T[2 * q][i], T[n - 2 * q][i + 2 * q])
      BY <2>2, <2>7, <3>2
    <3>10. U[h][j] = Node(U[q][j], U[h - q][j + q])
      BY <2>3, <3>1 DEF q
    <3> QED BY <3>6, <3>7, <3>8, <3>9, <3>10
  <2> QED BY <2>5, <2>6, <2>7
<1> HIDE DEF S
<1>3. \A n \in Nat : n \in S
  BY <1>2, StrongInduction
<1> QED BY <1>3 DEF S

\* The whole tree over a level is the whole tree over the next one.
LEMMA NextLevelRoot ==
    ASSUME NEW level \in Seq(Seq(Nat)), Len(level) > 0
    PROVE  TreeHashes(NextLevel(level))[Len(NextLevel(level))][1] =
             TreeHashes(level)[Len(level)][1]
<1>1. Len(level) \in Nat
  OBVIOUS
<1>2. Aligned(Len(level), Len(level), 1)
  BY <1>1 DEF Aligned
<1>3. Len(NextLevel(level)) = Half(Len(level))
  BY NextLevelType DEF Half
<1>4. 2 * 1 - 1 = 1
  OBVIOUS
<1> QED BY <1>1, <1>2, <1>3, <1>4, NextLevelTree

\* A level of more than one hash gets shorter.
LEMMA HalfShorter ==
    ASSUME NEW n \in Nat, n > 0
    PROVE  Half(n) > 0 /\ (n = 1 => Half(n) = 1) /\ (n > 1 => Half(n) < n)
<1>1. Half(n) \in Nat /\ (n = 2 * Half(n) \/ n = 2 * Half(n) - 1)
  BY HalfIs
<1> QED BY <1>1

\* Every round has the tree hash of the first level, and is shorter than the
\* round before it unless that has one hash only.
LEMMA RoundsTree ==
    ASSUME NEW level \in Seq(Seq(Nat)), Len(level) > 0, NEW f,
           Rounds(level, Len(level), f), NEW n \in 0 .. Len(level)
    PROVE  /\ TreeHashes(f[n])[Len(f[n])][1] = TreeHashes(level)[Len(level)][1]
           /\ Len(f[n]) = 1 \/ Len(f[n]) + n <= Len(level)
<1> DEFINE m == Len(level)
           root == TreeHashes(level)[m][1]
           Good(k) == /\ TreeHashes(f[k])[Len(f[k])][1] = root
                      /\ Len(f[k]) = 1 \/ Len(f[k]) + k <= m
           S == {k \in Nat : k <= m => Good(k)}
<1>1. m \in Nat
  OBVIOUS
<1>2. 0 \in S
  <2>1. f[0] = level
    BY <1>1 DEF Rounds
  <2> QED BY <1>1, <2>1
<1>3. ASSUME NEW k \in Nat, k \in S PROVE k + 1 \in S
  <2> HIDE DEF m, root
  <2> SUFFICES ASSUME k + 1 <= m PROVE Good(k + 1)
    <3> HIDE DEF Good
    <3> QED OBVIOUS
  <2>1. k \in 0 .. m /\ k + 1 \in 0 .. m /\ k + 1 # 0 /\ (k + 1) - 1 = k
    BY <1>1
  <2>2. f[k + 1] = NextLevel(f[k])
    BY <2>1 DEF Rounds, m
  <2>3. f[k] \in Seq(Seq(Nat)) /\ Len(f[k]) > 0
    BY <1>1, <2>1, RoundsType DEF m
  <2>4. TreeHashes(f[k])[Len(f[k])][1] = root /\ (Len(f[k]) = 1 \/ Len(f[k]) + k <= m)
    <3> HIDE DEF Good
    <3>1. Good(k)
      BY <1>1, <1>3, <2>1
    <3> QED BY <3>1 DEF Good
  <2>5. TreeHashes(f[k + 1])[Len(f[k + 1])][1] = root
    BY <2>2, <2>3, <2>4, NextLevelRoot
  <2>6. Len(f[k]) \in Nat /\ Len(f[k + 1]) = Half(Len(f[k]))
    <3>1. Len(f[k]) \in Nat
      BY <2>3
    <3>2. Len(NextLevel(f[k])) = (Len(f[k]) \div 2) + (Len(f[k]) % 2)
      BY <2>3, NextLevelType
    <3> QED BY <2>2, <3>1, <3>2 DEF Half
  <2> DEFINE a == Len(f[k])
             b == Len(f[k + 1])
  <2>7. /\ a \in Nat /\ a > 0 /\ b \in Nat /\ b > 0 /\ (a = 1 => b = 1) /\ (a > 1 => b < a)
        /\ a = 1 \/ a + k <= m
    BY <2>3, <2>4, <2>6, HalfIs, HalfShorter
  <2> HIDE DEF a, b
  <2>8. b = 1 \/ b + (k + 1) <= m
    BY <1>1, <2>7
  <2> QED BY <2>5, <2>8 DEF b
<1> HIDE DEF S
<1>4. \A k \in Nat : k \in S
  BY <1>2, <1>3, SetInduction
<1>5. n \in Nat /\ n <= m
  BY <1>1
<1> QED BY <1>4, <1>5 DEF S

\* The reduction of a level is the hash of its tree.
LEMMA ReduceIsTree ==
    ASSUME NEW level \in Seq(Seq(Nat)), Len(level) > 0
    PROVE  merkleReduce(level) = TreeHashes(level)[Len(level)][1]
<1> DEFINE m == Len(level)
<1>1. m \in Nat /\ m > 0 /\ m \in 0 .. m
  OBVIOUS
<1>2. PICK f : Rounds(level, m, f) /\ merkleReduce(level) = f[m][1]
  BY <1>1, ReducesRounds
<1>3. /\ TreeHashes(f[m])[Len(f[m])][1] = TreeHashes(level)[m][1]
      /\ Len(f[m]) = 1 \/ Len(f[m]) + m <= m
  BY <1>1, <1>2, RoundsTree
<1>4. f[m] \in Seq(Seq(Nat)) /\ Len(f[m]) > 0 /\ Len(f[m]) \in Nat
  BY <1>1, <1>2, RoundsType
<1> HIDE DEF m
<1>5. Len(f[m]) = 1
  BY <1>1, <1>3, <1>4
<1>6. TreeHashes(f[m])[1][1] = f[m][1]
  <2>1. 1 \in 1 .. Len(f[m]) /\ 1 \in 1 .. Len(f[m]) - 1 + 1
    BY <1>5
  <2> QED BY <1>4, <2>1, TreeSplits
<1> QED BY <1>2, <1>3, <1>5, <1>6 DEF m

\* The leaves of a segment are hashes.
LEMMA LeavesType ==
    ASSUME NEW segment \in Seq(Seq(Nat))
    PROVE  Leaves(segment) \in Seq(Seq(Nat)) /\ Len(Leaves(segment)) = Len(segment)
<1>1. ASSUME NEW i \in 1 .. Len(segment) PROVE Leaf(i - 1, segment[i]) \in Seq(Nat)
  <2>1. segment[i] \in Seq(Nat) /\ i - 1 \in Nat
    OBVIOUS
  <2> QED BY <2>1, HashTypes
<1>2. Leaves(segment) \in [1 .. Len(segment) -> Seq(Nat)]
  BY <1>1 DEF Leaves
<1>3. Len(segment) \in Nat
  OBVIOUS
<1> QED BY <1>2, <1>3, FunctionIsSequence

\* The root of a segment that is not empty is the hash of the tree of its leaves.
LEMMA RootIsTree ==
    ASSUME NEW segment \in Seq(Seq(Nat)), segment # <<>>
    PROVE  localSegmentRoot(segment) = MTH(segment)
<1>1. Len(segment) > 0
  OBVIOUS
<1>2. localSegmentRoot(segment) = merkleReduce(Leaves(segment))
  BY DEF localSegmentRoot, Leaves
<1> QED BY <1>1, <1>2, LeavesType, ReduceIsTree DEF MTH

-----------------------------------------------------------------------------
\* A hash begins with the length of the rest of it.
IsHash(h) == h \in Seq(Nat) /\ Len(h) > 0 /\ Len(h) = h[1] + 1

\* Blake3 returns such a hash, and a preimage can be recovered from it.
LEMMA Blake3Injective ==
    ASSUME NEW a \in Seq(Nat), NEW b \in Seq(Nat)
    PROVE  IsHash(Blake3(a)) /\ (Blake3(a) = Blake3(b) => a = b)
<1>1. \A x \in Seq(Nat) : /\ Blake3(x) \in Seq(Nat) /\ Len(Blake3(x)) = Len(x) + 1
                          /\ Blake3(x)[1] = Len(x)
                          /\ \A k \in 1 .. Len(x) : Blake3(x)[k + 1] = x[k]
  BY DEF Blake3
<1>2. IsHash(Blake3(a))
  <2>1. Len(a) \in Nat
    OBVIOUS
  <2>2. /\ Blake3(a) \in Seq(Nat) /\ Len(Blake3(a)) = Len(a) + 1 /\ Blake3(a)[1] = Len(a)
    BY <1>1
  <2> QED BY <2>1, <2>2 DEF IsHash
<1>3. ASSUME Blake3(a) = Blake3(b) PROVE a = b
  <2>1. Len(a) = Len(b)
    BY <1>1, <1>3
  <2>2. ASSUME NEW k \in 1 .. Len(a) PROVE a[k] = b[k]
    <3>1. Blake3(a)[k + 1] = a[k] /\ Blake3(b)[k + 1] = b[k]
      BY <1>1, <2>1
    <3> QED BY <1>3, <3>1
  <2> QED BY <2>1, <2>2
<1> QED BY <1>2, <1>3

\* The bytes of a leaf after its length: the prefix 0, the index, and the hash.
LEMMA LeafBytes ==
    ASSUME NEW i \in Nat, NEW h \in Seq(Nat)
    PROVE  /\ <<0, i, 0>> \o h \in Seq(Nat) /\ Len(<<0, i, 0>> \o h) = Len(h) + 3
           /\ (<<0, i, 0>> \o h)[1] = 0
           /\ \A k \in 1 .. Len(h) : (<<0, i, 0>> \o h)[k + 3] = h[k]
OBVIOUS

\* A leaf determines the hash in it.
LEMMA LeafInjective ==
    ASSUME NEW i \in Nat, NEW a \in Seq(Nat), NEW b \in Seq(Nat), Leaf(i, a) = Leaf(i, b)
    PROVE  a = b
<1> DEFINE x == <<0, i, 0>> \o a
           y == <<0, i, 0>> \o b
<1>1. /\ x \in Seq(Nat) /\ Len(x) = Len(a) + 3 /\ \A k \in 1 .. Len(a) : x[k + 3] = a[k]
      /\ y \in Seq(Nat) /\ Len(y) = Len(b) + 3 /\ \A k \in 1 .. Len(b) : y[k + 3] = b[k]
  BY LeafBytes
<1> HIDE DEF x, y
<1>2. x = y
  BY <1>1, Blake3Injective DEF Leaf, x, y
<1>3. Len(a) = Len(b)
  BY <1>1, <1>2
<1>4. ASSUME NEW k \in 1 .. Len(a) PROVE a[k] = b[k]
  <2>1. x[k + 3] = a[k]
    BY <1>1
  <2>2. y[k + 3] = b[k]
    BY <1>1, <1>3
  <2> QED BY <1>2, <2>1, <2>2
<1> QED BY <1>3, <1>4, SameElements

\* The bytes of a node after its length: the prefix 1 and the two hashes.
LEMMA NodeBytes ==
    ASSUME NEW l \in Seq(Nat), NEW r \in Seq(Nat)
    PROVE  /\ <<1>> \o l \o r \in Seq(Nat) /\ Len(<<1>> \o l \o r) = Len(l) + Len(r) + 1
           /\ (<<1>> \o l \o r)[1] = 1
           /\ \A k \in 1 .. Len(l) : (<<1>> \o l \o r)[k + 1] = l[k]
           /\ \A k \in 1 .. Len(r) : (<<1>> \o l \o r)[k + Len(l) + 1] = r[k]
<1> DEFINE x == <<1>> \o l
<1>1. /\ x \in Seq(Nat) /\ Len(x) = Len(l) + 1 /\ x[1] = 1
      /\ \A k \in 1 .. Len(l) : x[k + 1] = l[k]
  OBVIOUS
<1> HIDE DEF x
<1>2. /\ x \o r \in Seq(Nat) /\ Len(x \o r) = Len(x) + Len(r)
      /\ \A k \in 1 .. Len(x) : (x \o r)[k] = x[k]
      /\ \A k \in 1 .. Len(r) : (x \o r)[k + Len(x)] = r[k]
  <2>1. x \in Seq(Nat)
    BY <1>1
  <2> QED BY <2>1
<1>3. /\ Len(x \o r) = Len(l) + Len(r) + 1 /\ (x \o r)[1] = 1
      /\ \A k \in 1 .. Len(l) : (x \o r)[k + 1] = l[k]
  BY <1>1, <1>2
<1>4. \A k \in 1 .. Len(r) : k + Len(x) = k + Len(l) + 1
  BY <1>1
<1>5. \A k \in 1 .. Len(r) : (x \o r)[k + Len(l) + 1] = r[k]
  BY <1>2, <1>4
<1> QED BY <1>2, <1>3, <1>5 DEF x

\* A node determines the two hashes under it.
LEMMA NodeInjective ==
    ASSUME NEW l \in Seq(Nat), NEW r \in Seq(Nat), NEW s \in Seq(Nat), NEW t \in Seq(Nat),
           IsHash(l), IsHash(s), Node(l, r) = Node(s, t)
    PROVE  l = s /\ r = t
<1> DEFINE x == <<1>> \o l \o r
           y == <<1>> \o s \o t
<1>1. /\ x \in Seq(Nat) /\ Len(x) = Len(l) + Len(r) + 1
      /\ \A k \in 1 .. Len(l) : x[k + 1] = l[k]
      /\ \A k \in 1 .. Len(r) : x[k + Len(l) + 1] = r[k]
  BY NodeBytes
<1>2. /\ y \in Seq(Nat) /\ Len(y) = Len(s) + Len(t) + 1
      /\ \A k \in 1 .. Len(s) : y[k + 1] = s[k]
      /\ \A k \in 1 .. Len(t) : y[k + Len(s) + 1] = t[k]
  BY NodeBytes
<1> HIDE DEF x, y
<1>3. x = y
  BY <1>1, <1>2, Blake3Injective DEF Node, x, y
<1>4. Len(l) = Len(s)
  <2>1. 1 \in 1 .. Len(l) /\ 1 \in 1 .. Len(s)
    BY DEF IsHash
  <2>2. l[1] = s[1]
    BY <1>1, <1>2, <1>3, <2>1
  <2> QED BY <2>2 DEF IsHash
<1>5. \A k \in 1 .. Len(l) : l[k] = s[k]
  BY <1>1, <1>2, <1>3, <1>4
<1>6. l = s
  BY <1>4, <1>5, SameElements
<1>7. Len(r) = Len(t)
  <2>1. Len(l) \in Nat /\ Len(r) \in Nat /\ Len(t) \in Nat
    OBVIOUS
  <2> QED BY <1>1, <1>2, <1>3, <1>4, <2>1
<1>8. \A k \in 1 .. Len(r) : r[k] = t[k]
  BY <1>1, <1>2, <1>3, <1>4, <1>7
<1>9. r = t
  BY <1>7, <1>8, SameElements
<1> QED BY <1>6, <1>9

\* A leaf, a node and the root of the empty segment are three different things.
LEMMA HashKinds ==
    ASSUME NEW i \in Nat, NEW a \in Seq(Nat),
           NEW l \in Seq(Nat), NEW r \in Seq(Nat), IsHash(l), IsHash(r)
    PROVE  /\ IsHash(Leaf(i, a)) /\ IsHash(Node(l, r))
           /\ Leaf(i, a) # Node(l, r)
           /\ Leaf(i, a) # Blake3(<<1>>) /\ Node(l, r) # Blake3(<<1>>)
<1> DEFINE x == <<0, i, 0>> \o a
           y == <<1>> \o l \o r
           z == <<1>>
<1>1. x \in Seq(Nat) /\ Len(x) > 2 /\ x[1] = 0
  <2>1. Len(a) \in Nat
    OBVIOUS
  <2> QED BY <2>1, LeafBytes
<1>2. y \in Seq(Nat) /\ Len(y) > 2 /\ y[1] = 1
  <2>1. /\ l \in Seq(Nat) /\ r \in Seq(Nat) /\ Len(l) \in Nat /\ Len(r) \in Nat
        /\ Len(l) > 0 /\ Len(r) > 0
    BY DEF IsHash
  <2> HIDE DEF y
  <2>2. y \in Seq(Nat) /\ Len(y) = Len(l) + Len(r) + 1 /\ y[1] = 1
    BY <2>1, NodeBytes DEF y
  <2> QED BY <2>1, <2>2
<1>3. z \in Seq(Nat) /\ Len(z) = 1
  OBVIOUS
<1>4. Leaf(i, a) = Blake3(x) /\ Node(l, r) = Blake3(y)
  BY DEF Leaf, Node
<1> HIDE DEF x, y
<1>5. IsHash(Blake3(x)) /\ IsHash(Blake3(y))
  BY <1>1, <1>2, Blake3Injective
<1>6. x # y /\ x # z /\ y # z
  <2> HIDE DEF z
  <2>1. Len(x) # Len(z) /\ Len(y) # Len(z)
    <3>1. 1 # 2 /\ ~(1 > 2)
      OBVIOUS
    <3> QED BY <1>1, <1>2, <1>3, <3>1
  <2>2. x[1] # y[1]
    BY <1>1, <1>2
  <2> QED BY <2>1, <2>2
<1>7. Blake3(x) # Blake3(y) /\ Blake3(x) # Blake3(z) /\ Blake3(y) # Blake3(z)
  <2> HIDE DEF z
  <2> QED BY <1>1, <1>2, <1>3, <1>6, Blake3Injective
<1> QED BY <1>4, <1>5, <1>7

\* The runs of n leaves from the i-th on lie within the segment.
InTree(segment, n, i) == n \in 1 .. Len(segment) /\ i \in 1 .. Len(segment) - n + 1

\* The tree of a segment.
Hash(segment, n, i) == TreeHashes(Leaves(segment))[n][i]

\* What the hash of a run is: a leaf, or a node of two shorter runs.
LEMMA HashOf ==
    ASSUME NEW a \in Seq(Seq(Nat)), NEW n \in Nat, NEW i \in Nat, InTree(a, n, i)
    PROVE  /\ i \in 1 .. Len(a) /\ a[i] \in Seq(Nat) /\ i - 1 \in Nat
           /\ n = 1 => Hash(a, n, i) = Leaf(i - 1, a[i])
           /\ n # 1 => /\ SplitPoint(n) \in 1 .. n - 1
                       /\ InTree(a, SplitPoint(n), i)
                       /\ InTree(a, n - SplitPoint(n), i + SplitPoint(n))
                       /\ Hash(a, n, i) = Node(Hash(a, SplitPoint(n), i),
                                               Hash(a, n - SplitPoint(n), i + SplitPoint(n)))
<1>1. Leaves(a) \in Seq(Seq(Nat)) /\ Len(Leaves(a)) = Len(a) /\ Len(a) \in Nat
  <2>1. Len(a) \in Nat
    OBVIOUS
  <2> QED BY <2>1, LeavesType
<1>2. n \in 1 .. Len(a) /\ i \in 1 .. Len(a) - n + 1
  BY DEF InTree
<1>3. i \in 1 .. Len(a) /\ i - 1 \in Nat
  BY <1>1, <1>2
<1>4. a[i] \in Seq(Nat)
  BY <1>3
<1>5. ASSUME n = 1 PROVE Hash(a, n, i) = Leaf(i - 1, a[i])
  <2>1. Hash(a, n, i) = Leaves(a)[i]
    BY <1>1, <1>2, <1>5, TreeSplits DEF Hash
  <2> QED BY <1>3, <2>1 DEF Leaves
<1>6. ASSUME n # 1
      PROVE  /\ SplitPoint(n) \in 1 .. n - 1
             /\ InTree(a, SplitPoint(n), i)
             /\ InTree(a, n - SplitPoint(n), i + SplitPoint(n))
             /\ Hash(a, n, i) = Node(Hash(a, SplitPoint(n), i),
                                     Hash(a, n - SplitPoint(n), i + SplitPoint(n)))
  <2> DEFINE p == SplitPoint(n)
  <2>1. p \in 1 .. n - 1
    <3>1. n > 1
      BY <1>1, <1>2, <1>6
    <3> QED BY <3>1, SplitPointIs
  <2>2. Hash(a, n, i) = Node(Hash(a, p, i), Hash(a, n - p, i + p))
    <3> DEFINE L == Leaves(a)
    <3>1. Len(L) \in Nat /\ n \in 1 .. Len(L) /\ i \in 1 .. Len(L) - n + 1
      BY <1>1, <1>2
    <3> HIDE DEF L
    <3>2. TreeHashes(L)[n][i] = Node(TreeHashes(L)[SplitPoint(n)][i],
                                     TreeHashes(L)[n - SplitPoint(n)][i + SplitPoint(n)])
      BY <1>6, <3>1, TreeSplits
    <3> QED BY <3>2 DEF Hash, L
  <2> HIDE DEF p
  <2>3. InTree(a, p, i) /\ InTree(a, n - p, i + p)
    BY <1>1, <1>2, <2>1 DEF InTree
  <2> QED BY <2>1, <2>2, <2>3 DEF p
<1> QED BY <1>3, <1>4, <1>5, <1>6

\* Every run of leaves has a hash.
LEMMA TreeIsHash ==
    ASSUME NEW a \in Seq(Seq(Nat))
    PROVE  \A n \in Nat : \A i \in Nat : InTree(a, n, i) => IsHash(Hash(a, n, i))
<1> DEFINE S == {n \in Nat : \A i \in Nat : InTree(a, n, i) => IsHash(Hash(a, n, i))}
<1>1. ASSUME NEW n \in Nat, \A m \in 0 .. n - 1 : m \in S PROVE n \in S
  <2> SUFFICES ASSUME NEW i \in Nat, InTree(a, n, i) PROVE IsHash(Hash(a, n, i))
    OBVIOUS
  <2>1. CASE n = 1
    <3>1. <<0, i - 1, 0>> \o a[i] \in Seq(Nat)
      BY HashOf, LeafBytes
    <3>2. IsHash(Leaf(i - 1, a[i]))
      BY <3>1, Blake3Injective DEF Leaf
    <3> QED BY <2>1, <3>2, HashOf
  <2>2. CASE n # 1
    <3> DEFINE p == SplitPoint(n)
    <3>1. /\ p \in 1 .. n - 1 /\ InTree(a, p, i) /\ InTree(a, n - p, i + p)
          /\ Hash(a, n, i) = Node(Hash(a, p, i), Hash(a, n - p, i + p))
      BY <2>2, HashOf
    <3> HIDE DEF p
    <3>2. p \in 0 .. n - 1 /\ n - p \in 0 .. n - 1 /\ i + p \in Nat
      BY <3>1
    <3>3. IsHash(Hash(a, p, i)) /\ IsHash(Hash(a, n - p, i + p))
      BY <1>1, <3>1, <3>2
    <3>4. <<1>> \o Hash(a, p, i) \o Hash(a, n - p, i + p) \in Seq(Nat)
      BY <3>3, NodeBytes DEF IsHash
    <3> QED BY <3>1, <3>4, Blake3Injective DEF Node
  <2> QED BY <2>1, <2>2
<1> HIDE DEF S
<1>2. \A n \in Nat : n \in S
  BY <1>1, StrongInduction
<1> QED BY <1>2 DEF S

\* The hash of a run tells its length and the packet hashes in it.
LEMMA HashIdentifiesRun ==
    ASSUME NEW a \in Seq(Seq(Nat)), NEW b \in Seq(Seq(Nat))
    PROVE  \A n \in Nat : \A m \in Nat, i \in Nat :
              InTree(a, n, i) /\ InTree(b, m, i) /\ Hash(a, n, i) = Hash(b, m, i) =>
                 n = m /\ \A j \in i .. i + n - 1 : a[j] = b[j]
<1> DEFINE Same(n, m, i) == n = m /\ \A j \in i .. i + n - 1 : a[j] = b[j]
           S == {n \in Nat : \A m \in Nat, i \in Nat :
                    InTree(a, n, i) /\ InTree(b, m, i) /\ Hash(a, n, i) = Hash(b, m, i) =>
                       Same(n, m, i)}
<1>1. ASSUME NEW n \in Nat, \A k \in 0 .. n - 1 : k \in S PROVE n \in S
  <2> SUFFICES ASSUME NEW m \in Nat, NEW i \in Nat, InTree(a, n, i), InTree(b, m, i),
                      Hash(a, n, i) = Hash(b, m, i)
               PROVE  Same(n, m, i)
    <3> HIDE DEF Same
    <3> QED OBVIOUS
  <2> DEFINE p == SplitPoint(n)
             q == SplitPoint(m)
  <2>1. ASSUME n # 1
        PROVE  /\ p \in 1 .. n - 1 /\ p \in Nat /\ n - p \in Nat /\ i + p \in Nat
               /\ InTree(a, p, i) /\ InTree(a, n - p, i + p)
               /\ Hash(a, n, i) = Node(Hash(a, p, i), Hash(a, n - p, i + p))
               /\ IsHash(Hash(a, p, i)) /\ IsHash(Hash(a, n - p, i + p))
    <3>1. /\ p \in 1 .. n - 1 /\ InTree(a, p, i) /\ InTree(a, n - p, i + p)
          /\ Hash(a, n, i) = Node(Hash(a, p, i), Hash(a, n - p, i + p))
      BY <2>1, HashOf
    <3> HIDE DEF p
    <3>2. p \in Nat /\ n - p \in Nat /\ i + p \in Nat
      BY <3>1
    <3> QED BY <3>1, <3>2, TreeIsHash
  <2>2. ASSUME m # 1
        PROVE  /\ q \in 1 .. m - 1 /\ q \in Nat /\ m - q \in Nat /\ i + q \in Nat
               /\ InTree(b, q, i) /\ InTree(b, m - q, i + q)
               /\ Hash(b, m, i) = Node(Hash(b, q, i), Hash(b, m - q, i + q))
               /\ IsHash(Hash(b, q, i)) /\ IsHash(Hash(b, m - q, i + q))
    <3>1. /\ q \in 1 .. m - 1 /\ InTree(b, q, i) /\ InTree(b, m - q, i + q)
          /\ Hash(b, m, i) = Node(Hash(b, q, i), Hash(b, m - q, i + q))
      BY <2>2, HashOf
    <3> HIDE DEF q
    <3>2. q \in Nat /\ m - q \in Nat /\ i + q \in Nat
      BY <3>1
    <3> QED BY <3>1, <3>2, TreeIsHash
  <2>3. CASE n = 1 /\ m = 1
    <3>1. Leaf(i - 1, a[i]) = Leaf(i - 1, b[i])
      BY <2>3, HashOf
    <3>2. a[i] = b[i]
      <4>1. i - 1 \in Nat /\ a[i] \in Seq(Nat) /\ b[i] \in Seq(Nat)
        BY HashOf
      <4> QED BY <3>1, <4>1, LeafInjective
    <3>3. \A j \in i .. i + n - 1 : j = i
      BY <2>3
    <3> QED BY <2>3, <3>2, <3>3
  <2>4. CASE n # 1 /\ m # 1
    <3> HIDE DEF p, q
    <3>1. Hash(a, p, i) = Hash(b, q, i) /\ Hash(a, n - p, i + p) = Hash(b, m - q, i + q)
      <4>1. Node(Hash(a, p, i), Hash(a, n - p, i + p)) =
              Node(Hash(b, q, i), Hash(b, m - q, i + q))
        BY <2>1, <2>2, <2>4
      <4>2. /\ IsHash(Hash(a, p, i)) /\ IsHash(Hash(a, n - p, i + p))
            /\ IsHash(Hash(b, q, i)) /\ IsHash(Hash(b, m - q, i + q))
        BY <2>1, <2>2, <2>4
      <4>3. /\ Hash(a, p, i) \in Seq(Nat) /\ Hash(a, n - p, i + p) \in Seq(Nat)
            /\ Hash(b, q, i) \in Seq(Nat) /\ Hash(b, m - q, i + q) \in Seq(Nat)
        BY <4>2 DEF IsHash
      <4> QED BY <4>1, <4>2, <4>3, NodeInjective
    <3>2. p \in S /\ n - p \in S
      <4>1. p \in 1 .. n - 1
        BY <2>1, <2>4
      <4>2. p \in 0 .. n - 1 /\ n - p \in 0 .. n - 1
        BY <4>1
      <4> QED BY <1>1, <4>2
    <3>3. Same(p, q, i)
      <4> HIDE DEF Same
      <4> QED BY <2>1, <2>2, <2>4, <3>1, <3>2
    <3>4. p = q
      BY <3>3
    <3>5. Same(n - p, m - p, i + p)
      <4>1. InTree(b, m - p, i + p) /\ Hash(a, n - p, i + p) = Hash(b, m - p, i + p)
        BY <2>2, <2>4, <3>1, <3>4
      <4>2. m - p \in Nat
        BY <2>2, <2>4, <3>4
      <4> HIDE DEF Same
      <4> QED BY <2>1, <2>4, <3>2, <4>1, <4>2
    <3>6. p \in Nat /\ p \in 1 .. n - 1
      BY <2>1, <2>4
    <3>7. n = m
      BY <3>5, <3>6
    <3>8. ASSUME NEW j \in i .. i + n - 1 PROVE a[j] = b[j]
      <4>1. j \in i .. i + p - 1 \/ j \in i + p .. (i + p) + (n - p) - 1
        BY <3>6
      <4> QED BY <3>3, <3>5, <4>1
    <3> QED BY <3>7, <3>8
  <2>5. CASE n = 1 /\ m # 1
    <3>1. Leaf(i - 1, a[i]) = Node(Hash(b, q, i), Hash(b, m - q, i + q))
      BY <2>2, <2>5, HashOf
    <3>2. IsHash(Hash(b, q, i)) /\ IsHash(Hash(b, m - q, i + q))
      BY <2>2, <2>5
    <3>3. i - 1 \in Nat /\ a[i] \in Seq(Nat)
      BY HashOf
    <3>4. Hash(b, q, i) \in Seq(Nat) /\ Hash(b, m - q, i + q) \in Seq(Nat)
      BY <3>2 DEF IsHash
    <3> QED BY <3>1, <3>2, <3>3, <3>4, HashKinds
  <2>6. CASE n # 1 /\ m = 1
    <3>1. Leaf(i - 1, b[i]) = Node(Hash(a, p, i), Hash(a, n - p, i + p))
      BY <2>1, <2>6, HashOf
    <3>2. IsHash(Hash(a, p, i)) /\ IsHash(Hash(a, n - p, i + p))
      BY <2>1, <2>6
    <3>3. i - 1 \in Nat /\ b[i] \in Seq(Nat)
      BY HashOf
    <3>4. Hash(a, p, i) \in Seq(Nat) /\ Hash(a, n - p, i + p) \in Seq(Nat)
      BY <3>2 DEF IsHash
    <3> QED BY <3>1, <3>2, <3>3, <3>4, HashKinds
  <2> QED BY <2>3, <2>4, <2>5, <2>6
<1> HIDE DEF S
<1>2. \A n \in Nat : n \in S
  BY <1>1, StrongInduction
<1> QED BY <1>2 DEF S

\* The root identifies the segment.
LEMMA RootInjective ==
    ASSUME NEW a \in Seq(Seq(Nat)), NEW b \in Seq(Seq(Nat)),
           localSegmentRoot(a) = localSegmentRoot(b)
    PROVE  a = b
<1>1. ASSUME NEW c \in Seq(Seq(Nat)), c # <<>>
      PROVE  /\ Len(c) \in Nat /\ InTree(c, Len(c), 1)
             /\ localSegmentRoot(c) = Hash(c, Len(c), 1)
             /\ localSegmentRoot(c) # localSegmentRoot(<<>>)
  <2>1. Len(c) \in Nat /\ Len(c) > 0
    BY <1>1
  <2> DEFINE n == Len(c)
  <2>2. InTree(c, n, 1)
    BY <2>1 DEF InTree
  <2>3. localSegmentRoot(c) = Hash(c, n, 1)
    BY <1>1, RootIsTree DEF Hash, MTH
  <2>4. localSegmentRoot(<<>>) = Blake3(<<1>>)
    BY DEF localSegmentRoot
  <2>5. Hash(c, n, 1) # Blake3(<<1>>)
    <3>1. CASE n = 1
      <4>1. Hash(c, n, 1) = Leaf(0, c[1]) /\ c[1] \in Seq(Nat)
        BY <2>1, <2>2, <3>1, HashOf
      <4>2. Blake3(<<>>) \in Seq(Nat) /\ IsHash(Blake3(<<>>))
        <5>1. <<>> \in Seq(Nat)
          OBVIOUS
        <5> QED BY <5>1, HashTypes, Blake3Injective
      <4> QED BY <4>1, <4>2, HashKinds
    <3>2. CASE n # 1
      <4> DEFINE p == SplitPoint(n)
      <4>0. n \in Nat /\ n > 0 /\ 1 \in Nat /\ n # 1
        BY <2>1, <3>2
      <4> HIDE DEF n
      <4>1. /\ p \in 1 .. n - 1 /\ InTree(c, p, 1) /\ InTree(c, n - p, 1 + p)
            /\ Hash(c, n, 1) = Node(Hash(c, p, 1), Hash(c, n - p, 1 + p))
        BY <2>2, <4>0, HashOf
      <4> HIDE DEF p
      <4>2. p \in Nat /\ n - p \in Nat /\ 1 + p \in Nat
        BY <2>1, <4>1 DEF n
      <4>3. IsHash(Hash(c, p, 1)) /\ IsHash(Hash(c, n - p, 1 + p))
        BY <4>1, <4>2, TreeIsHash
      <4>4. Hash(c, p, 1) \in Seq(Nat) /\ Hash(c, n - p, 1 + p) \in Seq(Nat)
        BY <4>3 DEF IsHash
      <4>5. <<>> \in Seq(Nat)
        OBVIOUS
      <4> QED BY <4>1, <4>3, <4>4, <4>5, HashKinds
    <3> QED BY <3>1, <3>2
  <2> QED BY <2>1, <2>2, <2>3, <2>4, <2>5
<1>2. CASE a # <<>> /\ b # <<>>
  <2>1. /\ Len(a) \in Nat /\ InTree(a, Len(a), 1) /\ localSegmentRoot(a) = Hash(a, Len(a), 1)
        /\ Len(b) \in Nat /\ InTree(b, Len(b), 1) /\ localSegmentRoot(b) = Hash(b, Len(b), 1)
    BY <1>1, <1>2
  <2>2. Len(a) = Len(b) /\ \A j \in 1 .. 1 + Len(a) - 1 : a[j] = b[j]
    <3> DEFINE m == Len(a)
               n == Len(b)
    <3>1. /\ m \in Nat /\ n \in Nat /\ 1 \in Nat /\ InTree(a, m, 1) /\ InTree(b, n, 1)
          /\ Hash(a, m, 1) = Hash(b, n, 1)
      BY <2>1
    <3> HIDE DEF m, n
    <3>2. m = n /\ \A j \in 1 .. 1 + m - 1 : a[j] = b[j]
      BY <3>1, HashIdentifiesRun
    <3> QED BY <3>2 DEF m, n
  <2>3. \A j \in 1 .. Len(a) : a[j] = b[j]
    <3>1. 1 + Len(a) - 1 = Len(a)
      BY <2>1
    <3> QED BY <2>2, <3>1
  <2> QED BY <2>2, <2>3, SameElements
<1> QED BY <1>1, <1>2

\* With a collision-free hash a root that localSegmentRoot computed stands for one
\* sequence of packet hashes only, of the same or of any other length.
THEOREM RootsIdentifySegments ==
    \A a, b \in Seq(Seq(Nat)) : localSegmentRoot(a) = localSegmentRoot(b) => a = b
BY RootInjective
=============================================================================
