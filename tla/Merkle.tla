------------------------------- MODULE Merkle -------------------------------
(***************************************************************************)
(* The segment root of internal/uploader: localSegmentRoot over the        *)
(* packet_blake3 hashes of a segment, and merkleReduce, which pairs a      *)
(* level's hashes until one is left and promotes an odd last one.          *)
(* BLAKE3 is symbolic: a hash is its preimage behind its length, so two    *)
(* hashes are equal exactly when their preimages are and a concatenation   *)
(* of hashes can be taken apart again, like that of 32-byte strings.       *)
(***************************************************************************)
EXTENDS Naturals, Sequences

Blake3(bytes) == <<Len(bytes)>> \o bytes

Leaf(index, hash) == Blake3(<<0, index, 0>> \o hash)
Node(left, right) == Blake3(<<1>> \o left \o right)

Pairs(level) ==
    [k \in 1 .. Len(level) \div 2 |-> Node(level[2 * k - 1], level[2 * k])]

\* Bug: the odd last hash of a level is paired with itself.
Bug_DuplicateOdd(level) ==
    IF Len(level) = 1 THEN level
    ELSE Pairs(level) \o (IF Len(level) % 2 = 1
                          THEN <<Node(level[Len(level)], level[Len(level)])>> ELSE <<>>)

\* The level above: pairs become nodes, an odd last hash moves up unchanged.
NextLevel(level) ==
    Pairs(level) \o (IF Len(level) % 2 = 1 THEN <<level[Len(level)]>> ELSE <<>>)

\* A level of one hash is its own next level, so Len(level) rounds suffice.
merkleReduce(level) ==
    LET round[n \in 0 .. Len(level)] ==
            IF n = 0 THEN level ELSE NextLevel(round[n - 1])
    IN  round[Len(level)][1]

localSegmentRoot(hashes) ==
    IF hashes = <<>> THEN Blake3(<<1>>)
    ELSE merkleReduce([i \in 1 .. Len(hashes) |-> Leaf(i - 1, hashes[i])])

-----------------------------------------------------------------------------
\* The reference: the Merkle Tree Hash of RFC 6962, section 2.1.

\* The powers of two up to the n-th.
PowersOfTwo(n) ==
    LET pow[e \in 0 .. n] == IF e = 0 THEN 1 ELSE 2 * pow[e - 1]
    IN  {pow[e] : e \in 0 .. n}

\* The largest power of two smaller than n, for n > 1.
SplitPoint(n) == CHOOSE p \in PowersOfTwo(n) : p < n /\ n <= 2 * p

\* The tree hash of every run of n leaves, by its first leaf i, split at the
\* largest power of two smaller than n.
TreeHashes(leaves) ==
    LET tree[n \in 1 .. Len(leaves)] ==
            [i \in 1 .. Len(leaves) - n + 1 |->
                IF n = 1 THEN leaves[i]
                ELSE Node(tree[SplitPoint(n)][i],
                          tree[n - SplitPoint(n)][i + SplitPoint(n)])]
    IN  tree

\* The leaves of a segment.  (The leaf prefix is the code's own.)
Leaves(hashes) == [i \in 1 .. Len(hashes) |-> Leaf(i - 1, hashes[i])]

\* The tree hash of one or more packet hashes.
MTH(hashes) == TreeHashes(Leaves(hashes))[Len(hashes)][1]
=============================================================================
