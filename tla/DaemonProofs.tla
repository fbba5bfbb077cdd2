---------------------------- MODULE DaemonProofs ----------------------------
(***************************************************************************)
(* Proofs about the daemon as a whole: the packetizer and the uploader on  *)
(* the same tables, in every interleaving, for every pattern of failures,  *)
(* crashes and power failures, and for batches of every size.              *)
(*                                                                         *)
(* What a power failure brings back is one of the table states that        *)
(* `unsynced' remembers, so the relation between the tables (Consistent)   *)
(* is claimed for the present tables and for each of those, and each of    *)
(* those is known to hold an initial part of the present packets.          *)
(***************************************************************************)
EXTENDS EdgeDaemon, PacketizerProofs, MerkleProofs, FiniteSetTheorems

-----------------------------------------------------------------------------
(***************************************************************************)
(* What flush does to the tables, for batches and segments of every size.  *)
(* The lemmas speak of any packets table P and segments table G, because   *)
(* they are needed for the tables as they are and for every state of them  *)
(* that a power failure may bring back.                                    *)
(***************************************************************************)

\* Row i of P is one of the packets that the segment covers.
Within(P, i, segment) ==
    /\ P[i].session_id = segment.session_id
    /\ P[i].seq \in segment.seq_start .. segment.seq_end

UniqueRows(P) ==
    \A i, j \in DOMAIN P :
        P[i].session_id = P[j].session_id /\ P[i].seq = P[j].seq => i = j

NoGaps(P) ==
    \A i \in DOMAIN P : P[i].seq # 0 =>
        \E j \in DOMAIN P : /\ P[j].session_id = P[i].session_id
                            /\ P[j].seq + 1 = P[i].seq

Shaped(G) ==
    \A s \in DOMAIN G :
        /\ G[s].seq_start <= G[s].seq_end
        /\ G[s].packet_count = G[s].seq_end - G[s].seq_start + 1

Apart(s, t) == \/ s.seq_end < t.seq_start
               \/ t.seq_end < s.seq_start

Tiled(G) ==
    \A s \in DOMAIN G :
        /\ \/ G[s].seq_start = 0
           \/ \E t \in 1 .. s - 1 : /\ G[t].session_id = G[s].session_id
                                    /\ G[t].seq_end + 1 = G[s].seq_start
        /\ \A t \in DOMAIN G :
             (t # s /\ G[t].session_id = G[s].session_id) => Apart(G[t], G[s])

Marked(P, G) ==
    \A i \in DOMAIN P :
        /\ P[i].upload_state = "uploaded" <=> \E s \in DOMAIN G : Within(P, i, G[s])
        /\ \A s \in DOMAIN G : Within(P, i, G[s]) <=> P[i].segment_id = s
        /\ P[i].segment_id \in {0} \cup DOMAIN G

Stored(P, segment) ==
    \A n \in segment.seq_start .. segment.seq_end :
        \E i \in DOMAIN P : P[i].session_id = segment.session_id /\ P[i].seq = n

\* The root of the segment is that of a list of hashes with which the stored
\* packets agree, at every position at which one is stored.
Agrees(P, segment) ==
    \E hashes \in Seq(Bytes) :
        /\ segment.merkle_root = localSegmentRoot(hashes)
        /\ Len(hashes) = segment.seq_end - segment.seq_start + 1
        /\ \A i \in DOMAIN P : Within(P, i, segment) =>
              P[i].packet_blake3 = hashes[P[i].seq - segment.seq_start + 1]

\* What relates the two tables in every state a power failure may bring back.
Consistent(P, G) ==
    /\ Shaped(G) /\ Tiled(G) /\ Marked(P, G)
    /\ \A s \in DOMAIN G : Stored(P, G[s]) /\ Agrees(P, G[s])

\* The columns the chain is made of.
SameLink(r, q) ==
    /\ r.session_id = q.session_id /\ r.seq = q.seq
    /\ r.prev_packet_blake3 = q.prev_packet_blake3
    /\ r.packet_blake3 = q.packet_blake3

\* The columns the uploader writes.
SameMark(r, q) == r.upload_state = q.upload_state /\ r.segment_id = q.segment_id

-----------------------------------------------------------------------------
\* The columns have the types of the schema.
LEMMA ColumnTypes ==
    ASSUME NEW P \in Seq(PacketRows), NEW i \in DOMAIN P
    PROVE  /\ P[i] \in PacketRows
           /\ P[i].seq \in Nat /\ P[i].session_id \in Nat
           /\ P[i].packet_blake3 \in Bytes
           /\ P[i].upload_state \in {"pending", "uploaded"}
<1>1. P[i] \in PacketRows
  OBVIOUS
<1> QED BY <1>1 DEF PacketRows

\* So do those of a segment.
LEMMA SegmentTypes ==
    ASSUME NEW G \in Seq(SegmentRows), NEW s \in DOMAIN G
    PROVE  /\ G[s] \in SegmentRows
           /\ G[s].seq_start \in Nat /\ G[s].seq_end \in Nat
           /\ G[s].session_id \in Nat /\ G[s].packet_count \in Nat
           /\ s \in Nat
<1>1. G[s] \in SegmentRows
  OBVIOUS
<1> QED BY <1>1 DEF SegmentRows

\* An UPDATE of other columns changes nothing between the two tables.
LEMMA ConsistentKept ==
    ASSUME NEW P, NEW Q, NEW G, Consistent(P, G), DOMAIN Q = DOMAIN P,
           \A i \in DOMAIN P : SameLink(Q[i], P[i]) /\ SameMark(Q[i], P[i])
    PROVE  Consistent(Q, G)
<1>1. \A i \in DOMAIN P : \A segment : Within(Q, i, segment) <=> Within(P, i, segment)
  BY DEF Within, SameLink
<1>2. Marked(Q, G)
  BY <1>1 DEF Consistent, Marked, SameMark
<1>3. \A s \in DOMAIN G : Stored(Q, G[s])
  BY DEF Consistent, Stored, SameLink
<1>4. ASSUME NEW s \in DOMAIN G PROVE Agrees(Q, G[s])
  BY <1>1 DEF Consistent, Agrees, SameLink
<1> QED BY <1>2, <1>3, <1>4 DEF Consistent

\* What a segment says of the packets stays true of any part of them.
LEMMA AgreesWithPart ==
    ASSUME NEW P, NEW Q, NEW segment, Agrees(P, segment),
           \A i \in DOMAIN Q : i \in DOMAIN P /\ SameLink(Q[i], P[i])
    PROVE  Agrees(Q, segment)
<1>1. PICK hashes \in Seq(Bytes) :
        /\ segment.merkle_root = localSegmentRoot(hashes)
        /\ Len(hashes) = segment.seq_end - segment.seq_start + 1
        /\ \A i \in DOMAIN P : Within(P, i, segment) =>
              P[i].packet_blake3 = hashes[P[i].seq - segment.seq_start + 1]
  BY DEF Agrees
<1>2. ASSUME NEW i \in DOMAIN Q, Within(Q, i, segment)
      PROVE  Q[i].packet_blake3 = hashes[Q[i].seq - segment.seq_start + 1]
  BY <1>1, <1>2 DEF Within, SameLink
<1> QED BY <1>1, <1>2 DEF Agrees

\* It stays true when a packet is added that it does not cover.
LEMMA AgreesAfterInsert ==
    ASSUME NEW P \in Seq(PacketRows), NEW row, NEW segment, Agrees(P, segment),
           ~(/\ row.session_id = segment.session_id
             /\ row.seq \in segment.seq_start .. segment.seq_end)
    PROVE  Agrees(Append(P, row), segment)
<1> DEFINE Q == Append(P, row)
<1>1. /\ DOMAIN Q = DOMAIN P \cup {Len(P) + 1}
      /\ \A i \in DOMAIN P : Q[i] = P[i]
      /\ Q[Len(P) + 1] = row
  OBVIOUS
<1> HIDE DEF Q
<1>2. PICK hashes \in Seq(Bytes) :
        /\ segment.merkle_root = localSegmentRoot(hashes)
        /\ Len(hashes) = segment.seq_end - segment.seq_start + 1
        /\ \A i \in DOMAIN P : Within(P, i, segment) =>
              P[i].packet_blake3 = hashes[P[i].seq - segment.seq_start + 1]
  BY DEF Agrees
<1>3. ASSUME NEW i \in DOMAIN Q, Within(Q, i, segment)
      PROVE  Q[i].packet_blake3 = hashes[Q[i].seq - segment.seq_start + 1]
  BY <1>1, <1>2, <1>3 DEF Within
<1>4. Agrees(Q, segment)
  BY <1>2, <1>3 DEF Agrees
<1> QED BY <1>4 DEF Q

\* WritePacket: the new row is pending and no segment covers it, because all
\* that a segment covers is stored already.
LEMMA ConsistentInsert ==
    ASSUME NEW P \in Seq(PacketRows), NEW G \in Seq(SegmentRows), NEW row,
           Consistent(P, G),
           row.upload_state = "pending", row.segment_id = 0,
           \A i \in DOMAIN P : ~(P[i].session_id = row.session_id /\ P[i].seq = row.seq)
    PROVE  Consistent(Append(P, row), G)
<1> DEFINE Q == Append(P, row)
           n == Len(P) + 1
<1>1. /\ DOMAIN Q = DOMAIN P \cup {n}
      /\ \A i \in DOMAIN P : Q[i] = P[i]
      /\ Q[n] = row /\ n \notin DOMAIN P
  OBVIOUS
<1>2. ASSUME NEW s \in DOMAIN G
      PROVE  ~(/\ row.session_id = G[s].session_id
               /\ row.seq \in G[s].seq_start .. G[s].seq_end)
  BY DEF Consistent, Stored
<1>3. \A s \in DOMAIN G : Agrees(Q, G[s])
  BY <1>2, AgreesAfterInsert DEF Consistent
<1> HIDE DEF Q, n
<1>4. \A s \in DOMAIN G : Stored(Q, G[s])
  BY <1>1 DEF Consistent, Stored
<1>5. ASSUME NEW i \in DOMAIN Q
      PROVE  /\ Q[i].upload_state = "uploaded" <=> \E s \in DOMAIN G : Within(Q, i, G[s])
             /\ \A s \in DOMAIN G : Within(Q, i, G[s]) <=> Q[i].segment_id = s
             /\ Q[i].segment_id \in {0} \cup DOMAIN G
  <2>1. CASE i \in DOMAIN P
    <3>1. Q[i] = P[i] /\ \A s \in DOMAIN G : Within(Q, i, G[s]) <=> Within(P, i, G[s])
      BY <1>1, <2>1 DEF Within
    <3>2. /\ P[i].upload_state = "uploaded" <=> \E s \in DOMAIN G : Within(P, i, G[s])
          /\ \A s \in DOMAIN G : Within(P, i, G[s]) <=> P[i].segment_id = s
          /\ P[i].segment_id \in {0} \cup DOMAIN G
      BY <2>1 DEF Consistent, Marked
    <3> QED BY <3>1, <3>2
  <2>2. CASE i = n
    <3>1. \A s \in DOMAIN G : ~Within(Q, i, G[s]) /\ s # 0
      BY <1>1, <1>2, <2>2 DEF Within
    <3> QED BY <1>1, <2>2, <3>1
  <2> QED BY <1>1, <2>1, <2>2
<1>6. Consistent(Q, G)
  BY <1>3, <1>4, <1>5 DEF Consistent, Marked
<1> QED BY <1>6 DEF Q

-----------------------------------------------------------------------------
(***************************************************************************)
(* A batch: the rows flush works on between PendingRange and WriteSegment. *)
(* They are pending, they have consecutive numbers from `first' on, and    *)
(* they are the oldest that are pending.                                   *)
(***************************************************************************)
Batch(P, rows, sid, first, n) ==
    /\ rows \subseteq DOMAIN P
    /\ \A i \in rows : /\ P[i].session_id = sid /\ P[i].upload_state = "pending"
                       /\ P[i].seq \in first .. first + n - 1
    /\ \A m \in first .. first + n - 1 : \E i \in rows : P[i].seq = m
    /\ \A i \in DOMAIN P :
          (P[i].session_id = sid /\ P[i].upload_state = "pending" /\ i \notin rows) =>
              first + n <= P[i].seq

\* The hashes are those of the batch, oldest first.
HashesOf(P, rows, first, n, hashes) ==
    /\ hashes \in Seq(Bytes) /\ Len(hashes) = n
    /\ \A i \in rows : hashes[P[i].seq - first + 1] = P[i].packet_blake3

\* No segment overlaps a batch.
LEMMA BatchApart ==
    ASSUME NEW P \in Seq(PacketRows), NEW G \in Seq(SegmentRows), Consistent(P, G),
           NEW rows, NEW sid, NEW first \in Nat, NEW n \in Nat \ {0},
           Batch(P, rows, sid, first, n), NEW s \in DOMAIN G
    PROVE  /\ \A i \in rows : ~Within(P, i, G[s])
           /\ G[s].session_id = sid =>
                 G[s].seq_end < first \/ first + n - 1 < G[s].seq_start
<1>1. ASSUME NEW i \in rows, Within(P, i, G[s]) PROVE FALSE
  BY <1>1 DEF Batch, Consistent, Marked
<1>2. ASSUME G[s].session_id = sid, G[s].seq_end >= first, first + n - 1 >= G[s].seq_start
      PROVE  FALSE
  <2>1. G[s].seq_start \in Nat /\ G[s].seq_end \in Nat /\ G[s].seq_start <= G[s].seq_end
    BY SegmentTypes DEF Consistent, Shaped
  <2>2. PICK m \in first .. first + n - 1 : m \in G[s].seq_start .. G[s].seq_end
    <3>1. CASE first <= G[s].seq_start
      <4>1. /\ G[s].seq_start \in first .. first + n - 1
            /\ G[s].seq_start \in G[s].seq_start .. G[s].seq_end
        BY <1>2, <2>1, <3>1
      <4> QED BY <4>1
    <3>2. CASE G[s].seq_start < first
      <4>1. first \in first .. first + n - 1 /\ first \in G[s].seq_start .. G[s].seq_end
        BY <1>2, <2>1, <3>2
      <4> QED BY <4>1
    <3> QED BY <2>1, <3>1, <3>2
  <2>3. PICK i \in rows : P[i].seq = m
    BY <2>2 DEF Batch
  <2>4. Within(P, i, G[s])
    BY <1>2, <2>2, <2>3 DEF Within, Batch
  <2> QED BY <1>1, <2>4
<1>3. G[s].seq_start \in Nat /\ G[s].seq_end \in Nat
  BY SegmentTypes
<1> QED BY <1>1, <1>2, <1>3

\* A batch begins where a segment ended, or with the session.
LEMMA BatchFollows ==
    ASSUME NEW P \in Seq(PacketRows), NEW G \in Seq(SegmentRows), Consistent(P, G),
           NoGaps(P), NEW rows, NEW sid, NEW first \in Nat, NEW n \in Nat \ {0},
           Batch(P, rows, sid, first, n), first # 0
    PROVE  \E t \in DOMAIN G : G[t].session_id = sid /\ G[t].seq_end + 1 = first
<1>1. PICK i \in rows : P[i].seq = first /\ i \in DOMAIN P /\ P[i].session_id = sid
  <2>1. first \in first .. first + n - 1
    OBVIOUS
  <2> QED BY <2>1 DEF Batch
<1>2. PICK j \in DOMAIN P : P[j].session_id = sid /\ P[j].seq + 1 = first
  BY <1>1 DEF NoGaps
<1>3. P[j].seq \in Nat /\ P[j].upload_state \in {"pending", "uploaded"}
  BY ColumnTypes
<1>4. P[j].upload_state = "uploaded"
  <2>1. P[j].seq < first /\ P[j].seq < first + n
    BY <1>2, <1>3
  <2>2. j \notin rows
    BY <2>1, <1>3 DEF Batch
  <2> QED BY <1>2, <1>3, <2>1, <2>2 DEF Batch
<1>5. PICK t \in DOMAIN G : Within(P, j, G[t])
  BY <1>4 DEF Consistent, Marked
<1>6. G[t].seq_start \in Nat /\ G[t].seq_end \in Nat
  BY SegmentTypes
<1>7. ~Within(P, i, G[t])
  BY BatchApart
<1>8. G[t].session_id = sid /\ G[t].seq_start <= first - 1 /\ first - 1 <= G[t].seq_end
  BY <1>2, <1>3, <1>5, <1>6 DEF Within
<1>9. G[t].seq_end < first
  BY <1>1, <1>6, <1>7, <1>8 DEF Within
<1> QED BY <1>6, <1>8, <1>9

\* WriteSegment: the batch becomes a segment of its own, which begins where one
\* before it ended, covers the rows it marks and no other, and has their root.
LEMMA ConsistentRecord ==
    ASSUME NEW P \in Seq(PacketRows), NEW G \in Seq(SegmentRows), Consistent(P, G),
           NoGaps(P), UniqueRows(P),
           NEW rows, NEW sid \in Nat, NEW first \in Nat, NEW n \in Nat \ {0}, NEW hashes,
           Batch(P, rows, sid, first, n), HashesOf(P, rows, first, n, hashes),
           NEW new, new = [session_id |-> sid, seq_start |-> first,
                           seq_end |-> first + n - 1, packet_count |-> n,
                           merkle_root |-> localSegmentRoot(hashes)],
           NEW Q, DOMAIN Q = DOMAIN P,
           \A i \in DOMAIN P : SameLink(Q[i], P[i]),
           \A i \in rows : Q[i].upload_state = "uploaded" /\ Q[i].segment_id = Len(G) + 1,
           \A i \in DOMAIN P \ rows : SameMark(Q[i], P[i])
    PROVE  Consistent(Q, Append(G, new))
<1> DEFINE G2 == Append(G, new)
           last == Len(G) + 1
<1>1. /\ DOMAIN G2 = DOMAIN G \cup {last} /\ last \notin DOMAIN G
      /\ \A s \in DOMAIN G : G2[s] = G[s]
      /\ G2[last] = new
      /\ DOMAIN G = 1 .. last - 1 /\ last \in Nat /\ last # 0
      /\ \A s \in DOMAIN G : s \in Nat
  OBVIOUS
<1> HIDE DEF G2, last
<1>2. /\ new.session_id = sid /\ new.seq_start = first /\ new.seq_end = first + n - 1
      /\ new.packet_count = n /\ new.merkle_root = localSegmentRoot(hashes)
      /\ first + n - 1 \in Nat /\ first <= first + n - 1
  OBVIOUS
<1>3. \A i \in DOMAIN P : \A segment : Within(Q, i, segment) <=> Within(P, i, segment)
  BY DEF Within, SameLink
<1>4. ASSUME NEW i \in DOMAIN P PROVE Within(P, i, new) <=> i \in rows
  <2>1. ASSUME i \in rows PROVE Within(P, i, new)
    BY <1>2, <2>1 DEF Within, Batch
  <2>2. ASSUME Within(P, i, new) PROVE i \in rows
    <3>1. P[i].session_id = sid /\ P[i].seq \in first .. first + n - 1
      BY <1>2, <2>2 DEF Within
    <3>2. PICK j \in rows : P[j].seq = P[i].seq /\ j \in DOMAIN P /\ P[j].session_id = sid
      BY <3>1 DEF Batch
    <3>3. i = j
      BY <3>1, <3>2 DEF UniqueRows
    <3> QED BY <3>2, <3>3
  <2> QED BY <2>1, <2>2
<1>5. ASSUME NEW i \in rows, NEW s \in DOMAIN G PROVE ~Within(P, i, G[s])
  BY BatchApart
<1>6. Shaped(G2)
  <2>1. new.packet_count = new.seq_end - new.seq_start + 1
    BY <1>2
  <2> QED BY <1>1, <1>2, <2>1 DEF Shaped, Consistent
<1>7. Tiled(G2)
  <2>1. ASSUME NEW s \in DOMAIN G2
        PROVE  \/ G2[s].seq_start = 0
               \/ \E t \in 1 .. s - 1 : /\ G2[t].session_id = G2[s].session_id
                                        /\ G2[t].seq_end + 1 = G2[s].seq_start
    <3>1. CASE s \in DOMAIN G
      <4>1. \/ G[s].seq_start = 0
            \/ \E t \in 1 .. s - 1 : /\ G[t].session_id = G[s].session_id
                                     /\ G[t].seq_end + 1 = G[s].seq_start
        BY <3>1 DEF Consistent, Tiled
      <4>2. \A t \in 1 .. s - 1 : t \in DOMAIN G
        BY <1>1, <3>1
      <4> QED BY <1>1, <3>1, <4>1, <4>2
    <3>2. CASE s = last
      <4>1. first # 0 => \E t \in DOMAIN G : G[t].session_id = sid /\ G[t].seq_end + 1 = first
        BY BatchFollows
      <4> QED BY <1>1, <1>2, <3>2, <4>1
    <3> QED BY <1>1, <3>1, <3>2
  <2>2. ASSUME NEW s \in DOMAIN G, G[s].session_id = sid
        PROVE  Apart(G[s], new) /\ Apart(new, G[s])
    BY <1>2, <2>2, BatchApart DEF Apart
  <2>3. ASSUME NEW s \in DOMAIN G2, NEW t \in DOMAIN G2, t # s,
               G2[t].session_id = G2[s].session_id
        PROVE  Apart(G2[t], G2[s])
    <3>1. CASE s \in DOMAIN G /\ t \in DOMAIN G
      BY <1>1, <2>3, <3>1 DEF Consistent, Tiled
    <3>2. CASE s = last \/ t = last
      BY <1>1, <1>2, <2>2, <2>3, <3>2
    <3> QED BY <1>1, <3>1, <3>2
  <2> QED BY <2>1, <2>3 DEF Tiled
<1>8. ASSUME NEW i \in DOMAIN Q
      PROVE  /\ Q[i].upload_state = "uploaded" <=> \E s \in DOMAIN G2 : Within(Q, i, G2[s])
             /\ \A s \in DOMAIN G2 : Within(Q, i, G2[s]) <=> Q[i].segment_id = s
             /\ Q[i].segment_id \in {0} \cup DOMAIN G2
  <2>1. CASE i \in rows
    <3>1. Within(Q, i, G2[last]) /\ \A s \in DOMAIN G : ~Within(Q, i, G2[s])
      BY <1>1, <1>3, <1>4, <1>5, <2>1
    <3>2. Q[i].upload_state = "uploaded" /\ Q[i].segment_id = last
      BY <2>1 DEF last
    <3> QED BY <1>1, <3>1, <3>2
  <2>2. CASE i \notin rows
    <3>1. ~Within(Q, i, G2[last])
          /\ \A s \in DOMAIN G : Within(Q, i, G2[s]) <=> Within(P, i, G[s])
      BY <1>1, <1>3, <1>4, <2>2
    <3>2. /\ P[i].upload_state = "uploaded" <=> \E s \in DOMAIN G : Within(P, i, G[s])
          /\ \A s \in DOMAIN G : Within(P, i, G[s]) <=> P[i].segment_id = s
          /\ P[i].segment_id \in {0} \cup DOMAIN G
      BY DEF Consistent, Marked
    <3>3. Q[i].upload_state = P[i].upload_state /\ Q[i].segment_id = P[i].segment_id
      BY <2>2 DEF SameMark
    <3> QED BY <1>1, <3>1, <3>2, <3>3
  <2> QED BY <2>1, <2>2
<1>9. ASSUME NEW s \in DOMAIN G2 PROVE Stored(Q, G2[s])
  <2>1. CASE s \in DOMAIN G
    BY <1>1, <2>1 DEF Consistent, Stored, SameLink
  <2>2. CASE s = last
    <3>1. ASSUME NEW m \in first .. first + n - 1
          PROVE  \E i \in DOMAIN Q : Q[i].session_id = sid /\ Q[i].seq = m
      <4>1. PICK i \in rows : P[i].seq = m /\ i \in DOMAIN P /\ P[i].session_id = sid
        BY DEF Batch
      <4> QED BY <4>1 DEF SameLink
    <3> QED BY <1>1, <1>2, <2>2, <3>1 DEF Stored
  <2> QED BY <1>1, <2>1, <2>2
<1>10. ASSUME NEW s \in DOMAIN G2 PROVE Agrees(Q, G2[s])
  <2>1. CASE s \in DOMAIN G
    <3>1. Agrees(P, G[s]) /\ G2[s] = G[s]
      BY <1>1, <2>1 DEF Consistent
    <3>2. \A i \in DOMAIN Q : i \in DOMAIN P /\ SameLink(Q[i], P[i])
      OBVIOUS
    <3> QED BY <3>1, <3>2, AgreesWithPart
  <2>2. CASE s = last
    <3>1. ASSUME NEW i \in DOMAIN Q, Within(Q, i, new)
          PROVE  Q[i].packet_blake3 = hashes[Q[i].seq - new.seq_start + 1]
      <4>1. i \in rows
        BY <1>3, <1>4, <3>1
      <4> QED BY <1>2, <4>1 DEF HashesOf, SameLink
    <3>2. /\ hashes \in Seq(Bytes)
          /\ Len(hashes) = new.seq_end - new.seq_start + 1
      BY <1>2 DEF HashesOf
    <3>3. Agrees(Q, new)
      BY <1>2, <3>1, <3>2 DEF Agrees
    <3> QED BY <1>1, <2>2, <3>3
  <2> QED BY <1>1, <2>1, <2>2
<1>11. Consistent(Q, G2)
  BY <1>6, <1>7, <1>8, <1>9, <1>10 DEF Consistent, Marked
<1> QED BY <1>11 DEF G2

-----------------------------------------------------------------------------
\* What flush computes from the packets table.

\* PendingRange returns a batch whenever something is pending.
LEMMA PendingBatch ==
    ASSUME packets \in Seq(PacketRows), NEW sid, NEW size \in Nat \ {0}, Pending(sid) # {}
    PROVE  \E first \in Nat, n \in Nat \ {0} :
              Batch(packets, PendingRange(sid, size), sid, first, n)
<1> DEFINE rows == Pending(sid)
           Seqs == {packets[i].seq : i \in rows}
<1>1. \A i \in rows : /\ i \in DOMAIN packets /\ packets[i].seq \in Nat
                      /\ packets[i].session_id = sid /\ packets[i].upload_state = "pending"
  BY ColumnTypes DEF Pending
<1>2. \A i \in DOMAIN packets :
         packets[i].session_id = sid /\ packets[i].upload_state = "pending" => i \in rows
  BY DEF Pending
<1> HIDE DEF rows
<1>3. Seqs \in SUBSET Nat /\ Seqs # {}
  BY <1>1 DEF rows
<1> DEFINE first == OldestSeq(rows)
<1>4. first \in Seqs /\ \A i \in rows : first <= packets[i].seq
  <2>1. PICK x \in Seqs : \A y \in Seqs : x <= y
    <3> HIDE DEF Seqs
    <3> QED BY <1>3, LeastNatural
  <2>2. \E y \in Seqs : \A i \in rows : y <= packets[i].seq
    BY <2>1
  <2> QED BY <2>2 DEF OldestSeq
<1>5. first \in Nat
  BY <1>3, <1>4
<1> HIDE DEF first
<1> DEFINE Ends == {m \in Nat : /\ first <= m
                               /\ \/ m = first + size
                                  \/ \A i \in rows : packets[i].seq # m}
<1>6. PICK end \in Ends : \A m \in Ends : end <= m
  <2>1. first + size \in Ends
    BY <1>5
  <2>2. Ends \in SUBSET Nat /\ Ends # {}
    BY <2>1
  <2> HIDE DEF Ends
  <2> QED BY <2>2, LeastNatural
<1>7. /\ end \in Nat /\ first <= end /\ end <= first + size
      /\ end = first + size \/ \A i \in rows : packets[i].seq # end
  <2>1. first + size \in Ends
    BY <1>5
  <2> QED BY <1>6, <2>1
<1>8. first # end
  <2>1. PICK i \in rows : packets[i].seq = first
    BY <1>4
  <2> QED BY <1>5, <1>7, <2>1
<1>9. ASSUME NEW m \in Nat, first <= m, m < end
      PROVE  \E i \in rows : packets[i].seq = m
  <2>1. m \notin Ends
    BY <1>6, <1>7, <1>9
  <2> QED BY <1>9, <2>1
<1> DEFINE taken == PendingRange(sid, size)
<1>10. taken = {i \in rows : packets[i].seq < end}
  <2>1. taken = {i \in rows :
                   /\ packets[i].seq < first + size
                   /\ \A m \in first .. packets[i].seq : \E j \in rows : packets[j].seq = m}
    BY DEF PendingRange, first, rows
  <2>2. ASSUME NEW i \in rows, packets[i].seq < end
        PROVE  /\ packets[i].seq < first + size
               /\ \A m \in first .. packets[i].seq : \E j \in rows : packets[j].seq = m
    <3>1. packets[i].seq \in Nat
      BY <1>1
    <3>2. packets[i].seq < first + size
      BY <1>5, <1>7, <2>2, <3>1
    <3>3. ASSUME NEW m \in first .. packets[i].seq PROVE \E j \in rows : packets[j].seq = m
      <4>1. m \in Nat /\ first <= m /\ m < end
        BY <1>5, <1>7, <2>2, <3>1, <3>3
      <4> QED BY <1>9, <4>1
    <3> QED BY <3>2, <3>3
  <2>3. ASSUME NEW i \in rows, packets[i].seq < first + size,
               \A m \in first .. packets[i].seq : \E j \in rows : packets[j].seq = m
        PROVE  packets[i].seq < end
    <3>1. packets[i].seq \in Nat
      BY <1>1
    <3>2. SUFFICES ASSUME end <= packets[i].seq PROVE FALSE
      BY <1>7, <3>1
    <3>3. end \in first .. packets[i].seq
      BY <1>5, <1>7, <3>1, <3>2
    <3>4. end # first + size
      BY <1>5, <1>7, <2>3, <3>1, <3>2
    <3> QED BY <1>7, <2>3, <3>3, <3>4
  <2> QED BY <2>1, <2>2, <2>3
<1> HIDE DEF taken
<1> DEFINE n == end - first
<1>11. n \in Nat \ {0} /\ first + n = end /\ first .. first + n - 1 = first .. end - 1
  BY <1>5, <1>7, <1>8
<1> HIDE DEF n
<1>12. Batch(packets, taken, sid, first, n)
  <2>1. taken \subseteq DOMAIN packets
    BY <1>1, <1>10
  <2>2. ASSUME NEW i \in taken
        PROVE  /\ packets[i].session_id = sid /\ packets[i].upload_state = "pending"
               /\ packets[i].seq \in first .. end - 1
    <3>1. i \in rows /\ packets[i].seq < end
      BY <1>10
    <3>2. packets[i].seq \in Nat /\ first <= packets[i].seq
      BY <1>1, <1>4, <3>1
    <3> QED BY <1>1, <1>5, <1>7, <3>1, <3>2
  <2>3. ASSUME NEW m \in first .. end - 1 PROVE \E i \in taken : packets[i].seq = m
    <3>1. m \in Nat /\ first <= m /\ m < end
      BY <1>5, <1>7
    <3> QED BY <1>9, <1>10, <3>1
  <2>4. ASSUME NEW i \in DOMAIN packets, packets[i].session_id = sid,
               packets[i].upload_state = "pending", i \notin taken
        PROVE  end <= packets[i].seq
    <3>1. i \in rows
      BY <1>2, <2>4
    <3> QED BY <1>1, <1>7, <1>10, <2>4, <3>1
  <2> QED BY <1>11, <2>1, <2>2, <2>3, <2>4 DEF Batch
<1> QED BY <1>5, <1>11, <1>12 DEF taken

\* The number of rows of a batch, and its first sequence number.
LEMMA BatchSizes ==
    ASSUME UniqueRows(packets), NEW rows, NEW sid, NEW first \in Nat, NEW n \in Nat \ {0},
           Batch(packets, rows, sid, first, n)
    PROVE  OldestSeq(rows) = first /\ Cardinality(rows) = n
<1> DEFINE range == first .. first + n - 1
<1>1. first \in range /\ \A m \in range : m \in Nat /\ first <= m
  OBVIOUS
<1>2. /\ \A i \in rows : packets[i].seq \in range
      /\ \A m \in range : \E i \in rows : packets[i].seq = m
  BY DEF Batch
<1>3. OldestSeq(rows) = first
  <2> DEFINE Seqs == {packets[i].seq : i \in rows}
  <2> HIDE DEF range
  <2>1. first \in Seqs /\ \A i \in rows : first <= packets[i].seq
    BY <1>1, <1>2
  <2>2. ASSUME NEW x \in Seqs, \A i \in rows : x <= packets[i].seq PROVE x = first
    <3>1. x \in Nat /\ x <= first /\ first <= x
      BY <1>1, <1>2, <2>1, <2>2
    <3> QED BY <3>1
  <2>3. OldestSeq(rows) = CHOOSE x \in Seqs : \A i \in rows : x <= packets[i].seq
    BY DEF OldestSeq
  <2> HIDE DEF Seqs
  <2> QED BY <2>1, <2>2, <2>3
<1>4. Cardinality(rows) = n
  <2> DEFINE f == [i \in rows |-> packets[i].seq]
  <2>1. f \in [rows -> range] /\ \A i \in rows : f[i] = packets[i].seq
    BY <1>2
  <2>2. DOMAIN f = rows
    OBVIOUS
  <2> HIDE DEF f, range
  <2>3. f \in Injection(rows, range)
    <3>1. ASSUME NEW i \in rows, NEW j \in rows, f[i] = f[j] PROVE i = j
      BY <2>1, <3>1 DEF Batch, UniqueRows
    <3> QED BY <2>1, <2>2, <3>1 DEF Injection, IsInjective
  <2>4. f \in Surjection(rows, range)
    BY <1>2, <2>1 DEF Surjection
  <2>5. IsFiniteSet(range) /\ Cardinality(range) = n
    <3>1. first \in Int /\ first + n - 1 \in Int /\ ~(first > first + n - 1)
          /\ first + n - 1 - first + 1 = n
      OBVIOUS
    <3>2. /\ IsFiniteSet(first .. first + n - 1)
          /\ Cardinality(first .. first + n - 1) =
               IF first > first + n - 1 THEN 0 ELSE first + n - 1 - first + 1
      BY <3>1, FS_Interval
    <3> QED BY <3>1, <3>2 DEF range
  <2> QED BY <2>3, <2>4, <2>5, FS_Injection
<1> QED BY <1>3, <1>4

\* PacketHashes returns the hashes of a batch, oldest first.
LEMMA BatchHashes ==
    ASSUME packets \in Seq(PacketRows), UniqueRows(packets),
           NEW rows, NEW sid, NEW first \in Nat, NEW n \in Nat \ {0},
           Batch(packets, rows, sid, first, n)
    PROVE  HashesOf(packets, rows, first, n, PacketHashes(rows))
<1> DEFINE At(k) == CHOOSE j \in rows : packets[j].seq = first + k - 1
           hashes == [k \in 1 .. n |-> packets[At(k)].packet_blake3]
<1>1. PacketHashes(rows) = hashes
  <2>1. OldestSeq(rows) = first /\ Cardinality(rows) = n
    BY BatchSizes
  <2> QED BY <2>1 DEF PacketHashes
<1>2. ASSUME NEW k \in 1 .. n
      PROVE  At(k) \in rows /\ packets[At(k)].seq = first + k - 1
  <2>1. first + k - 1 \in first .. first + n - 1
    OBVIOUS
  <2>2. \E j \in rows : packets[j].seq = first + k - 1
    BY <2>1 DEF Batch
  <2> QED BY <2>2
<1> HIDE DEF At
<1>3. \A k \in 1 .. n : packets[At(k)].packet_blake3 \in Bytes
  BY <1>2, ColumnTypes DEF Batch
<1>4. hashes \in Seq(Bytes) /\ Len(hashes) = n
  <2>1. hashes \in [1 .. n -> Bytes]
    BY <1>3
  <2> HIDE DEF hashes
  <2> QED BY <2>1, FunctionIsSequence
<1>5. ASSUME NEW i \in rows
      PROVE  hashes[packets[i].seq - first + 1] = packets[i].packet_blake3
  <2>1. packets[i].seq \in first .. first + n - 1 /\ i \in DOMAIN packets
        /\ packets[i].session_id = sid
    BY DEF Batch
  <2> DEFINE k == packets[i].seq - first + 1
  <2>2. k \in 1 .. n /\ first + k - 1 = packets[i].seq
    BY <2>1
  <2> HIDE DEF k
  <2>3. At(k) \in DOMAIN packets /\ packets[At(k)].session_id = sid
        /\ packets[At(k)].seq = packets[i].seq
    BY <1>2, <2>2 DEF Batch
  <2>4. At(k) = i
    BY <2>1, <2>3 DEF UniqueRows
  <2>5. hashes[k] = packets[i].packet_blake3
    BY <2>2, <2>4
  <2> QED BY <2>5 DEF k
<1> HIDE DEF hashes
<1> QED BY <1>1, <1>4, <1>5 DEF HashesOf

\* A root that agrees with the stored packets is theirs, once all are stored.
LEMMA AgreesMeansRoot ==
    ASSUME UniqueRows(packets), NEW segment,
           segment.seq_start \in Nat, segment.seq_end \in Nat,
           segment.packet_count = segment.seq_end - segment.seq_start + 1,
           segment.seq_start <= segment.seq_end,
           AllStored(segment), Agrees(packets, segment)
    PROVE  /\ segment.merkle_root = localSegmentRoot(CoveredHashes(segment))
           /\ CoveredHashes(segment) \in Seq(Bytes) /\ CoveredHashes(segment) # <<>>
<1>1. PICK hashes \in Seq(Bytes) :
        /\ segment.merkle_root = localSegmentRoot(hashes)
        /\ Len(hashes) = segment.seq_end - segment.seq_start + 1
        /\ \A i \in DOMAIN packets : Within(packets, i, segment) =>
              packets[i].packet_blake3 = hashes[packets[i].seq - segment.seq_start + 1]
  BY DEF Agrees
<1> DEFINE start == segment.seq_start
           n == segment.packet_count
           Rows == {packets[i] : i \in DOMAIN packets}
           At(k) == CHOOSE row \in Rows : /\ row.session_id = segment.session_id
                                          /\ row.seq = start + k - 1
<1>2. n \in Nat /\ n = Len(hashes) /\ segment.seq_end = start + n - 1 /\ start \in Nat
  BY <1>1
<1>3. CoveredHashes(segment) = [k \in 1 .. n |-> At(k).packet_blake3]
  BY DEF CoveredHashes
<1> HIDE DEF n
<1>4. ASSUME NEW k \in 1 .. n PROVE At(k).packet_blake3 = hashes[k]
  <2>1. start + k - 1 \in start .. segment.seq_end /\ start + k - 1 - start + 1 = k
    BY <1>2
  <2>2. \E i \in DOMAIN packets : /\ packets[i].session_id = segment.session_id
                                  /\ packets[i].seq = start + k - 1
    BY <2>1 DEF AllStored
  <2>3. At(k) \in Rows /\ At(k).session_id = segment.session_id /\ At(k).seq = start + k - 1
    <3>1. \E row \in Rows : row.session_id = segment.session_id /\ row.seq = start + k - 1
      BY <2>2
    <3> HIDE DEF Rows
    <3> QED BY <3>1
  <2> HIDE DEF At
  <2>4. PICK i \in DOMAIN packets : packets[i] = At(k)
    BY <2>3
  <2>5. Within(packets, i, segment)
    BY <2>1, <2>3, <2>4 DEF Within
  <2>6. packets[i].packet_blake3 = hashes[start + k - 1 - start + 1]
    BY <1>1, <2>3, <2>4, <2>5
  <2> QED BY <2>1, <2>4, <2>6
<1>5. hashes = [k \in 1 .. n |-> hashes[k]]
  BY <1>2
<1> HIDE DEF At
<1>6. CoveredHashes(segment) = hashes
  BY <1>3, <1>4, <1>5
<1>7. hashes # <<>>
  BY <1>1
<1> QED BY <1>1, <1>6, <1>7

\* The properties of the segments, read off the relation between the tables.
LEMMA ConsistentMeans ==
    ASSUME packets \in Seq(PacketRows), segments \in Seq(SegmentRows),
           UniqueRows(packets), Consistent(packets, segments)
    PROVE  SegmentsTile /\ UploadedIffCovered /\ RootCoversPackets /\ RootIsRFC6962
<1>1. SegmentsTile
  BY DEF Consistent, Shaped, Tiled, Apart, SegmentsTile
<1>2. UploadedIffCovered
  BY DEF Consistent, Marked, Within, UploadedIffCovered, Covers
<1>3. ASSUME NEW s \in DOMAIN segments
      PROVE  /\ segments[s].merkle_root = localSegmentRoot(CoveredHashes(segments[s]))
             /\ segments[s].merkle_root = MTH(CoveredHashes(segments[s]))
  <2>1. segments[s].seq_start \in Nat /\ segments[s].seq_end \in Nat
    BY SegmentTypes
  <2>2. /\ segments[s].seq_start <= segments[s].seq_end
        /\ segments[s].packet_count = segments[s].seq_end - segments[s].seq_start + 1
    BY DEF Consistent, Shaped
  <2>3. AllStored(segments[s]) /\ Agrees(packets, segments[s])
    BY DEF Consistent, Stored, AllStored
  <2>4. /\ segments[s].merkle_root = localSegmentRoot(CoveredHashes(segments[s]))
        /\ CoveredHashes(segments[s]) \in Seq(Seq(Nat)) /\ CoveredHashes(segments[s]) # <<>>
    BY <2>1, <2>2, <2>3, AgreesMeansRoot DEF Bytes
  <2> QED BY <2>4, RootIsTree
<1> QED BY <1>1, <1>2, <1>3 DEF RootCoversPackets, RootIsRFC6962

-----------------------------------------------------------------------------
\* The parts of the invariant.

\* Row ids and sequence numbers of a session grow together.
RowsOrdered(P) ==
    \A i, j \in DOMAIN P :
        (i < j /\ P[i].session_id = P[j].session_id) => P[i].seq < P[j].seq

\* The rows of P are the first rows of Q, but for signatures and marks.
InitialPart(P, Q) == \A i \in DOMAIN P : i \in DOMAIN Q /\ SameLink(P[i], Q[i])

TableStates == [packets : Seq(PacketRows), quotes : Seq(QuoteRows),
                segments : Seq(SegmentRows), faults : Seq(FaultRows)]

\* The states a power failure may bring back.
Snapshots == {unsynced[n] : n \in DOMAIN unsynced}

Recoverable(T) ==
    /\ T \in TableStates
    /\ InitialPart(T.packets, packets)
    /\ Consistent(T.packets, T.segments)

\* The batch flush holds in its locals.
FlushMemory ==
    /\ upc \in {"hash", "record"} =>
          \E first \in Nat, n \in Nat \ {0} :
              /\ Batch(packets, seg.rows, UploadSession, first, n)
              /\ upc = "record" => HashesOf(packets, seg.rows, first, n, seg.hashes)
    /\ upc = "ship" => seg.id \in DOMAIN segments

\* The numbers of the current session that are used up.
Taken == IF pc = "setsig" THEN session.seq + 1 ELSE session.seq

\* What is true for ever of a segment that was shipped.  No packet to come will
\* have one of its numbers, even if those it covers are lost.
Received(u) ==
    /\ u.seq_start <= u.seq_end
    /\ u.packet_count = u.seq_end - u.seq_start + 1
    /\ Agrees(packets, u)
    /\ u.session_id \in 1 .. started
    /\ u.session_id = session.id => u.seq_end < Taken

Shipped == {upstream[a] : a \in DOMAIN upstream}

TablesInv == ChainInv /\ RowsOrdered(packets) /\ Consistent(packets, segments)
FlushInv == UploaderTypeOK /\ FlushMemory /\ \A u \in Shipped : Received(u)
PowerInv == unsynced \in Seq(TableStates) /\ \A T \in Snapshots : Recoverable(T)

DaemonInv == TablesInv /\ FlushInv /\ PowerInv

-----------------------------------------------------------------------------
\* The tables.

\* The order of the rows gives UNIQUE (session_id, seq), and the chain gives
\* that no number is missing.
LEMMA OrderedRows ==
    ASSUME ChainInv, RowsOrdered(packets)
    PROVE  UniqueRows(packets) /\ NoGaps(packets)
<1>1. \A i \in DOMAIN packets : i \in Nat /\ packets[i].seq \in Nat
  <2>1. packets \in Seq(PacketRows)
    BY DEF ChainInv, TypeOK, BufferTypeOK
  <2> QED BY <2>1, ColumnTypes
<1>2. ASSUME NEW i \in DOMAIN packets, NEW j \in DOMAIN packets,
             packets[i].session_id = packets[j].session_id, packets[i].seq = packets[j].seq
      PROVE  i = j
  <2>1. ~(i < j) /\ ~(j < i)
    BY <1>1, <1>2 DEF RowsOrdered
  <2> QED BY <1>1, <2>1
<1>3. ASSUME NEW i \in DOMAIN packets, packets[i].seq # 0
      PROVE  \E j \in DOMAIN packets : /\ packets[j].session_id = packets[i].session_id
                                       /\ packets[j].seq + 1 = packets[i].seq
  BY <1>3 DEF ChainInv, ChainLinked, Precedes
<1>4. UniqueRows(packets)
  BY <1>2 DEF UniqueRows
<1> QED BY <1>3, <1>4 DEF NoGaps

\* An UPDATE that leaves the columns of the chain alone leaves the order alone.
LEMMA OrderKept ==
    ASSUME NEW P, NEW Q, RowsOrdered(P), DOMAIN Q \subseteq DOMAIN P,
           \A i \in DOMAIN Q : SameLink(Q[i], P[i])
    PROVE  RowsOrdered(Q)
  BY DEF RowsOrdered, SameLink

\* An initial part of an initial part is one.
LEMMA PartOfPart ==
    ASSUME NEW P, NEW Q, NEW R, InitialPart(P, Q), InitialPart(Q, R)
    PROVE  InitialPart(P, R)
  BY DEF InitialPart, SameLink

\* Of what the custody loop stores, all that the other part of the daemon
\* depends on.
LEMMA CustodyTables ==
    ASSUME TablesInv, [PacketizerNext]_packetizerVars
    PROVE  /\ segments' = segments
           /\ InitialPart(packets, packets')
           /\ \A i \in DOMAIN packets : SameMark(packets'[i], packets[i])
           /\ \/ DOMAIN packets' = DOMAIN packets
              \/ /\ packets' = Append(packets, packets'[Len(packets) + 1])
                 /\ pc = "write"
                 /\ packets'[Len(packets) + 1].session_id = session.id
                 /\ packets'[Len(packets) + 1].seq = session.seq
                 /\ packets'[Len(packets) + 1].upload_state = "pending"
                 /\ packets'[Len(packets) + 1].segment_id = 0
<1> USE DEF TablesInv
<1>1. segments' = segments
  <2>1. ASSUME NEW sig \in Signatures, StorePacket(sig) PROVE segments' = segments
    BY <2>1 DEF StorePacket
  <2>2. ASSUME NEW state \in PrintStates, ApplyDelta(state) PROVE segments' = segments
    BY <2>2 DEF ApplyDelta, bufferVars
  <2>3. CASE TickerFires \/ TickIdle \/ BeginTick \/ SkipQuote \/ TakeQuote \/ QuoteFails
    BY <2>3 DEF TickerFires, TickIdle, BeginTick, SkipQuote, TakeQuote, QuoteFails,
                bufferVars
  <2>4. CASE StoreFails \/ BackfillSig \/ BackfillFails \/ Crash \/ Restart
             \/ UNCHANGED packetizerVars
    BY <2>4 DEF StoreFails, BackfillSig, BackfillFails, Crash, Restart, packetizerVars,
                bufferVars
  <2> QED BY <2>1, <2>2, <2>3, <2>4 DEF PacketizerNext, onTick
<1>2. packets \in Seq(PacketRows)
  BY DEF ChainInv, TypeOK, BufferTypeOK
<1>3. CASE packets' = packets
  BY <1>1, <1>3 DEF InitialPart, SameLink, SameMark
<1>4. ASSUME NEW b3 \in Bytes, pc = "write", packets' = Append(packets, NewRow(b3))
      PROVE  /\ InitialPart(packets, packets')
             /\ \A i \in DOMAIN packets : SameMark(packets'[i], packets[i])
             /\ packets' = Append(packets, packets'[Len(packets) + 1])
             /\ pc = "write"
             /\ packets'[Len(packets) + 1].session_id = session.id
             /\ packets'[Len(packets) + 1].seq = session.seq
             /\ packets'[Len(packets) + 1].upload_state = "pending"
             /\ packets'[Len(packets) + 1].segment_id = 0
  <2>1. /\ DOMAIN packets' = DOMAIN packets \cup {Len(packets) + 1}
        /\ \A i \in DOMAIN packets : packets'[i] = packets[i]
        /\ packets'[Len(packets) + 1] = NewRow(b3)
    BY <1>2, <1>4, InsertedRow
  <2>2. /\ NewRow(b3).session_id = session.id /\ NewRow(b3).seq = session.seq
        /\ NewRow(b3).upload_state = "pending" /\ NewRow(b3).segment_id = 0
    BY DEF NewRow
  <2>3. InitialPart(packets, packets')
    BY <2>1 DEF InitialPart, SameLink
  <2>4. \A i \in DOMAIN packets : SameMark(packets'[i], packets[i])
    BY <2>1 DEF SameMark
  <2> QED BY <1>4, <2>1, <2>2, <2>3, <2>4
<1>5. ASSUME DOMAIN packets' = DOMAIN packets,
             \A i \in DOMAIN packets : packets'[i] = packets[i] \/ OnlySignature(i)
      PROVE  /\ InitialPart(packets, packets')
             /\ \A i \in DOMAIN packets : SameMark(packets'[i], packets[i])
  <2>1. ASSUME NEW i \in DOMAIN packets
        PROVE  SameLink(packets[i], packets'[i]) /\ SameMark(packets'[i], packets[i])
    <3>1. packets[i] \in PacketRows
      BY <1>2, ColumnTypes
    <3>2. CASE packets'[i] = packets[i]
      BY <3>2 DEF SameLink, SameMark
    <3>3. CASE OnlySignature(i)
      BY <3>1, <3>3 DEF OnlySignature, PacketRows, SameLink, SameMark
    <3> QED BY <1>5, <3>2, <3>3
  <2> QED BY <1>5, <2>1 DEF InitialPart
<1> QED BY <1>1, <1>3, <1>4, <1>5, TableStep

\* The custody loop keeps the tables in order.
LEMMA CustodyKeepsTables ==
    ASSUME TablesInv, [PacketizerNext]_packetizerVars
    PROVE  TablesInv'
<1>1. ChainInv'
  BY StepType, StepChain DEF TablesInv, ChainInv
<1>2. /\ packets \in Seq(PacketRows) /\ segments \in Seq(SegmentRows)
      /\ packets' \in Seq(PacketRows)
  BY <1>1 DEF TablesInv, ChainInv, TypeOK, BufferTypeOK
<1>3. CASE DOMAIN packets' = DOMAIN packets
  <2>1. /\ segments' = segments
        /\ \A i \in DOMAIN packets :
              SameLink(packets'[i], packets[i]) /\ SameMark(packets'[i], packets[i])
    BY CustodyTables DEF InitialPart, SameLink
  <2>2. RowsOrdered(packets')
    BY <1>3, <2>1, OrderKept DEF TablesInv
  <2>3. Consistent(packets', segments')
    BY <1>3, <2>1, ConsistentKept DEF TablesInv
  <2> QED BY <1>1, <2>2, <2>3 DEF TablesInv
<1>4. ASSUME NEW row, packets' = Append(packets, row), pc = "write",
             row.session_id = session.id, row.seq = session.seq,
             row.upload_state = "pending", row.segment_id = 0
      PROVE  TablesInv'
  <2>1. /\ DOMAIN packets' = DOMAIN packets \cup {Len(packets) + 1}
        /\ \A i \in DOMAIN packets : packets'[i] = packets[i] /\ i < Len(packets) + 1
        /\ packets'[Len(packets) + 1] = row
        /\ \A i \in DOMAIN packets : i \in Nat
        /\ Len(packets) + 1 \in Nat
    BY <1>2, <1>4, InsertedRow
  <2>2. \A i \in DOMAIN packets : packets[i].session_id = session.id =>
                                    packets[i].seq < session.seq
    BY <1>4 DEF TablesInv, ChainInv, ChainMemory, Settled
  <2>3. RowsOrdered(packets')
    <3>1. ASSUME NEW i \in DOMAIN packets', NEW j \in DOMAIN packets', i < j,
                 packets'[i].session_id = packets'[j].session_id
          PROVE  packets'[i].seq < packets'[j].seq
      <4>1. i \in DOMAIN packets
        BY <2>1, <3>1
      <4>2. CASE j \in DOMAIN packets
        BY <2>1, <3>1, <4>1, <4>2 DEF TablesInv, RowsOrdered
      <4>3. CASE j = Len(packets) + 1
        BY <1>4, <2>1, <2>2, <3>1, <4>1, <4>3
      <4> QED BY <2>1, <4>2, <4>3
    <3> QED BY <3>1 DEF RowsOrdered
  <2>4. session.seq \in Nat
    BY DEF TablesInv, ChainInv, TypeOK, Sessions
  <2>5. \A i \in DOMAIN packets :
           ~(packets[i].session_id = row.session_id /\ packets[i].seq = row.seq)
    BY <1>4, <2>2, <2>4
  <2>6. Consistent(packets', segments)
    BY <1>2, <1>4, <2>5, ConsistentInsert DEF TablesInv
  <2>7. segments' = segments
    BY CustodyTables
  <2> QED BY <1>1, <2>3, <2>6, <2>7 DEF TablesInv
<1> QED BY <1>3, <1>4, CustodyTables

-----------------------------------------------------------------------------
\* What the other goroutine may rely on while the custody loop runs.

\* A session's numbers are used up in order, and a new session is a new id.
LEMMA CustodyTakes ==
    ASSUME ChainInv, [PacketizerNext]_packetizerVars
    PROVE  \/ session'.id = 0 /\ started' = started
           \/ session'.id = started + 1 /\ started' = started + 1
           \/ session'.id = session.id /\ started' = started /\ Taken <= Taken'
<1> USE DEF ChainInv
<1>1. session.seq \in Nat /\ session \in Sessions
  BY DEF TypeOK, Sessions
<1>2. ASSUME session'.id = session.id, session'.seq = session.seq, pc # "setsig",
             started' = started
      PROVE  session'.id = session.id /\ started' = started /\ Taken <= Taken'
  BY <1>1, <1>2 DEF Taken
<1>3. ASSUME UNCHANGED <<session, pc, started>>
      PROVE  session'.id = session.id /\ started' = started /\ Taken <= Taken'
  BY <1>1, <1>3 DEF Taken
<1>4. ASSUME NEW b3 \in Bytes, session' = Advance(b3), pc' # "setsig", started' = started
      PROVE  session'.id = session.id /\ started' = started /\ Taken <= Taken'
  <2>1. session'.id = session.id /\ session'.seq = session.seq + 1
    BY <1>1, <1>4, AdvanceType
  <2> QED BY <1>1, <1>4, <2>1 DEF Taken
<1>5. ASSUME NEW state \in PrintStates, ApplyDelta(state)
      PROVE  \/ session'.id = started + 1 /\ started' = started + 1
             \/ session'.id = session.id /\ started' = started /\ Taken <= Taken'
  <2>1. CASE StartsSession(printState, state)
    BY <1>5, <2>1 DEF ApplyDelta, startNewSession, NewSession
  <2>2. CASE ~StartsSession(printState, state)
    <3>1. session' = [session EXCEPT !.silentTicks = 0] /\ started' = started /\ pc = "select"
      BY <1>5, <2>2 DEF ApplyDelta
    <3>2. session'.id = session.id /\ session'.seq = session.seq
      BY <1>1, <3>1 DEF Sessions
    <3> QED BY <1>2, <3>1, <3>2
  <2> QED BY <2>1, <2>2
<1>6. CASE BeginTick
  <2>1. TickSession \in Sessions
    BY SessionTypes DEF TypeOK
  <2>2. session'.id = TickSession.id /\ session'.seq = TickSession.seq /\ pc = "select"
    BY <1>6, <2>1 DEF BeginTick, Sessions
  <2>3. CASE session.id = 0
    BY <1>6, <2>2, <2>3 DEF BeginTick, TickSession, startNewSession, NewSession
  <2>4. CASE session.id # 0
    <3>1. TickSession = session /\ started' = started
      BY <1>6, <2>4 DEF BeginTick, TickSession
    <3> QED BY <1>2, <2>2, <3>1
  <2> QED BY <2>3, <2>4
<1>7. CASE SkipQuote \/ QuoteFails \/ StoreFails
  <2>1. UNCHANGED <<session, started>> /\ pc # "setsig"
    BY <1>7 DEF SkipQuote, QuoteFails, StoreFails, envVars
  <2> QED BY <1>2, <2>1
<1>8. CASE TakeQuote
  <2>1. /\ session'.id = session.id /\ session'.seq = session.seq
        /\ started' = started /\ pc # "setsig"
    BY <1>1, <1>8 DEF TakeQuote, Sessions, envVars
  <2> QED BY <1>2, <2>1
<1>9. ASSUME NEW sig \in Signatures, StorePacket(sig)
      PROVE  session'.id = session.id /\ started' = started /\ Taken <= Taken'
  <2> DEFINE b3 == computePacketBLAKE3(session.seq, session.id, pkt.canonical,
                                       sig, session.prevBlake3)
  <2>1. b3 \in Bytes
    <3>1. sig \in Bytes /\ pkt.canonical \in Bytes
      BY SignatureType DEF TypeOK, Packets
    <3>2. session.seq \in Nat /\ session.id \in Nat /\ session.prevBlake3 \in Bytes
      BY DEF TypeOK, Sessions
    <3> QED BY <3>1, <3>2, BytesTypes, ZeroSession
  <2>2. /\ pc = "write" /\ started' = started
        /\ \/ session' = Advance(b3) /\ pc' = "select"
           \/ session' = session
    BY <1>9 DEF StorePacket, envVars
  <2> HIDE DEF b3
  <2>3. CASE session' = Advance(b3) /\ pc' = "select"
    BY <1>4, <2>1, <2>2, <2>3
  <2>4. CASE session' = session
    BY <1>2, <2>2, <2>4
  <2> QED BY <2>2, <2>3, <2>4
<1>10. CASE BackfillSig \/ BackfillFails
  <2>1. session' = Advance(pkt.blake3) /\ pc' = "select" /\ started' = started
    BY <1>10 DEF BackfillSig, BackfillFails, envVars
  <2>2. pkt.blake3 \in Bytes
    BY DEF TypeOK, Packets
  <2> QED BY <1>4, <2>1, <2>2
<1>11. CASE Crash
  BY <1>11 DEF Crash, Dies, NewSession
<1>12. CASE Restart
  <2>1. UNCHANGED <<session, started>> /\ pc # "setsig"
    BY <1>12 DEF Restart, envVars
  <2> QED BY <1>2, <2>1
<1>13. CASE TickerFires \/ TickIdle \/ UNCHANGED packetizerVars
  BY <1>3, <1>13 DEF TickerFires, TickIdle, packetizerVars, loopVars, envVars
<1> QED BY <1>5, <1>6, <1>7, <1>8, <1>9, <1>10, <1>11, <1>12, <1>13
        DEF PacketizerNext, onTick

\* What was shipped is not contradicted by what the custody loop stores.
LEMMA ReceivedKept ==
    ASSUME TablesInv, [PacketizerNext]_packetizerVars,
           NEW u \in SegmentRows, Received(u)
    PROVE  Received(u)'
<1>1. /\ packets \in Seq(PacketRows) /\ started \in Nat
      /\ session.seq \in Nat /\ session \in Sessions
  BY DEF TablesInv, ChainInv, TypeOK, BufferTypeOK, Sessions
<1>2. u.seq_end \in Nat /\ u.seq_start \in Nat
  BY DEF SegmentRows
<1>3. Agrees(packets', u)
  <2>1. CASE DOMAIN packets' = DOMAIN packets
    <3>1. \A i \in DOMAIN packets' : i \in DOMAIN packets /\ SameLink(packets'[i], packets[i])
      BY <2>1, CustodyTables DEF InitialPart, SameLink
    <3> QED BY <3>1, AgreesWithPart DEF Received
  <2>2. ASSUME NEW row, packets' = Append(packets, row), pc = "write",
               row.session_id = session.id, row.seq = session.seq
        PROVE  Agrees(packets', u)
    <3>1. ~(row.session_id = u.session_id /\ row.seq \in u.seq_start .. u.seq_end)
      BY <1>1, <1>2, <2>2 DEF Received, Taken
    <3> QED BY <1>1, <2>2, <3>1, AgreesAfterInsert DEF Received
  <2> QED BY <2>1, <2>2, CustodyTables
<1>4. Taken \in Nat
  BY <1>1 DEF Taken
<1>5. Taken' \in Nat
  <2>1. session'.seq \in Nat
    BY CustodyKeepsTables DEF TablesInv, ChainInv, TypeOK, Sessions
  <2> QED BY <2>1 DEF Taken
<1>6. /\ u.session_id \in 1 .. started'
      /\ u.session_id = session'.id => u.seq_end < Taken'
  <2>1. u.session_id \in 1 .. started /\ (u.session_id = session.id => u.seq_end < Taken)
    BY DEF Received
  <2> HIDE DEF Taken
  <2> QED BY <1>1, <1>2, <1>4, <1>5, <2>1, CustodyTakes DEF TablesInv
<1> QED BY <1>3, <1>6 DEF Received

\* The batch that flush holds stays the oldest of the pending rows.
LEMMA BatchKept ==
    ASSUME TablesInv, [PacketizerNext]_packetizerVars,
           NEW rows, NEW sid, NEW first \in Nat, NEW n \in Nat \ {0},
           Batch(packets, rows, sid, first, n)
    PROVE  /\ Batch(packets', rows, sid, first, n)
           /\ \A hashes : HashesOf(packets, rows, first, n, hashes) =>
                             HashesOf(packets', rows, first, n, hashes)
<1>1. /\ rows \subseteq DOMAIN packets
      /\ \A i \in rows : /\ packets[i].session_id = sid
                         /\ packets[i].upload_state = "pending"
                         /\ packets[i].seq \in first .. first + n - 1
      /\ \A m \in first .. first + n - 1 : \E i \in rows : packets[i].seq = m
      /\ \A i \in DOMAIN packets :
            (packets[i].session_id = sid /\ packets[i].upload_state = "pending"
             /\ i \notin rows) => first + n <= packets[i].seq
  BY DEF Batch
<1>2. \A i \in DOMAIN packets : /\ i \in DOMAIN packets'
                                /\ SameLink(packets[i], packets'[i])
                                /\ SameMark(packets'[i], packets[i])
  BY CustodyTables DEF InitialPart
<1>3. \A hashes : HashesOf(packets, rows, first, n, hashes) =>
                     HashesOf(packets', rows, first, n, hashes)
  BY <1>1, <1>2 DEF HashesOf, SameLink
<1>4. ASSUME NEW i \in DOMAIN packets', packets'[i].session_id = sid,
             packets'[i].upload_state = "pending", i \notin rows
      PROVE  first + n <= packets'[i].seq
  <2>1. CASE i \in DOMAIN packets
    BY <1>1, <1>2, <1>4, <2>1 DEF SameLink, SameMark
  <2>2. CASE i \notin DOMAIN packets
    <3>1. /\ packets' = Append(packets, packets'[Len(packets) + 1]) /\ pc = "write"
          /\ packets'[Len(packets) + 1].session_id = session.id
          /\ packets'[Len(packets) + 1].seq = session.seq
      BY <2>2, CustodyTables
    <3>2. i = Len(packets) + 1
      <4>1. packets \in Seq(PacketRows)
        BY DEF TablesInv, ChainInv, TypeOK, BufferTypeOK
      <4>2. DOMAIN packets' = DOMAIN packets \cup {Len(packets) + 1}
        BY <3>1, <4>1, InsertedRow
      <4> QED BY <2>2, <4>2
    <3>3. first + n - 1 \in first .. first + n - 1
      OBVIOUS
    <3>4. PICK j \in rows : packets[j].seq = first + n - 1
      BY <1>1, <3>3
    <3>5. packets[j].seq < session.seq
      BY <1>1, <1>4, <3>1, <3>2 DEF TablesInv, ChainInv, ChainMemory, Settled
    <3>6. session.seq \in Nat
      BY DEF TablesInv, ChainInv, TypeOK, Sessions
    <3> QED BY <3>1, <3>2, <3>4, <3>5, <3>6
  <2> QED BY <2>1, <2>2
<1>5. Batch(packets', rows, sid, first, n)
  BY <1>1, <1>2, <1>4 DEF Batch, SameLink, SameMark
<1> QED BY <1>3, <1>5

\* The custody loop does not disturb a flush that is under way.
LEMMA CustodyKeepsFlush ==
    ASSUME TablesInv, FlushMemory, [PacketizerNext]_packetizerVars,
           UNCHANGED <<upc, seg>>
    PROVE  FlushMemory'
<1>1. ASSUME upc \in {"hash", "record"}
      PROVE  \E first \in Nat, n \in Nat \ {0} :
                /\ Batch(packets', seg.rows, UploadSession, first, n)
                /\ upc = "record" => HashesOf(packets', seg.rows, first, n, seg.hashes)
  <2>1. PICK first \in Nat, n \in Nat \ {0} :
              /\ Batch(packets, seg.rows, UploadSession, first, n)
              /\ upc = "record" => HashesOf(packets, seg.rows, first, n, seg.hashes)
    BY <1>1 DEF FlushMemory
  <2> QED BY <2>1, BatchKept
<1>2. segments' = segments
  BY CustodyTables
<1> QED BY <1>1, <1>2 DEF FlushMemory

-----------------------------------------------------------------------------
\* The steps of flush.

\* The rows differ at most in the columns that the uploader writes.
OnlyMarks(r, q) ==
    /\ SameLink(r, q)
    /\ r.tick_utc = q.tick_utc /\ r.telemetry_json = q.telemetry_json
    /\ r.packet_sha256 = q.packet_sha256
    /\ r.tpm_sig = q.tpm_sig /\ r.quote_ref = q.quote_ref

\* The marks of the uploader are not part of the chain.
LEMMA MarksKeepChain ==
    ASSUME ChainInv, packets' \in Seq(PacketRows), segments' \in Seq(SegmentRows),
           UNCHANGED <<quotes, faults, loopVars, envVars>>,
           DOMAIN packets' = DOMAIN packets,
           \A i \in DOMAIN packets : OnlyMarks(packets'[i], packets[i])
    PROVE  ChainInv'
<1> USE DEF ChainInv
<1>1. TypeOK'
  BY DEF TypeOK, BufferTypeOK, loopVars, envVars
<1>2. UNCHANGED <<session, pc, pkt, started>>
  BY DEF loopVars, envVars
<1>3. ChainLinked'
  BY DEF ChainLinked, Precedes, OnlyMarks, SameLink
<1>4. ChainMemory'
  BY <1>2 DEF ChainMemory, Settled, OnlyMarks, SameLink
<1> QED BY <1>1, <1>3, <1>4

\* WriteSegment, with what PendingRange and PacketHashes returned some steps ago.
LEMMA RecordEffect ==
    ASSUME TablesInv, FlushMemory, RecordSegment
    PROVE  /\ packets' \in Seq(PacketRows)
           /\ DOMAIN packets' = DOMAIN packets
           /\ \A i \in DOMAIN packets : /\ SameLink(packets'[i], packets[i])
                                        /\ OnlyMarks(packets'[i], packets[i])
           /\ \E new \in SegmentRows : segments' = Append(segments, new)
           /\ Consistent(packets', segments')
<1>1. PICK first \in Nat, n \in Nat \ {0} :
              /\ Batch(packets, seg.rows, UploadSession, first, n)
              /\ HashesOf(packets, seg.rows, first, n, seg.hashes)
  BY DEF FlushMemory, RecordSegment
<1>2. /\ packets \in Seq(PacketRows) /\ segments \in Seq(SegmentRows)
      /\ UniqueRows(packets) /\ NoGaps(packets) /\ Consistent(packets, segments)
  BY OrderedRows DEF TablesInv, ChainInv, TypeOK, BufferTypeOK
<1>3. OldestSeq(seg.rows) = first /\ Cardinality(seg.rows) = n
  BY <1>1, <1>2, BatchSizes
<1> DEFINE new == [session_id |-> UploadSession, seq_start |-> first,
                   seq_end |-> first + n - 1, packet_count |-> n,
                   merkle_root |-> localSegmentRoot(seg.hashes)]
           marked(i) == IF i \in seg.rows
                        THEN [packets[i] EXCEPT !.upload_state = "uploaded",
                                                !.segment_id = Len(segments) + 1]
                        ELSE packets[i]
<1>4. /\ segments' = Append(segments, new)
      /\ packets' = [i \in DOMAIN packets |-> marked(i)]
  BY <1>3 DEF RecordSegment, WriteSegment
<1>5. new \in SegmentRows
  <2>1. localSegmentRoot(seg.hashes) \in Bytes
    <3>1. seg.hashes \in Seq(Seq(Nat))
      BY <1>1 DEF HashesOf, Bytes
    <3> QED BY <3>1, RootType DEF Bytes
  <2>2. UploadSession \in Nat /\ first + n - 1 \in Nat
    BY UploadAssumption
  <2> QED BY <2>1, <2>2 DEF SegmentRows
<1>6. Len(segments) + 1 \in Nat
  BY <1>2
<1>7. ASSUME NEW i \in DOMAIN packets
      PROVE  /\ marked(i) \in PacketRows
             /\ SameLink(marked(i), packets[i])
             /\ OnlyMarks(marked(i), packets[i])
             /\ i \in seg.rows => /\ marked(i).upload_state = "uploaded"
                                  /\ marked(i).segment_id = Len(segments) + 1
             /\ i \notin seg.rows => SameMark(marked(i), packets[i])
  <2>1. packets[i] \in PacketRows
    BY <1>2, ColumnTypes
  <2> QED BY <1>6, <2>1 DEF PacketRows, OnlyMarks, SameLink, SameMark
<1> HIDE DEF marked, new
<1>8. /\ DOMAIN packets' = DOMAIN packets
      /\ \A i \in DOMAIN packets : packets'[i] = marked(i)
  BY <1>4
<1>9. packets' \in Seq(PacketRows)
  <2>1. packets' = [i \in DOMAIN packets |-> packets'[i]]
    BY <1>4
  <2> QED BY <1>2, <1>7, <1>8, <2>1, UpdatedTable
<1>10. Consistent(packets', segments')
  <2>1. seg.rows \subseteq DOMAIN packets /\ UploadSession \in Nat
    BY <1>1, UploadAssumption DEF Batch
  <2>2. /\ \A i \in DOMAIN packets : SameLink(packets'[i], packets[i])
        /\ \A i \in seg.rows : /\ packets'[i].upload_state = "uploaded"
                               /\ packets'[i].segment_id = Len(segments) + 1
        /\ \A i \in DOMAIN packets \ seg.rows : SameMark(packets'[i], packets[i])
    BY <1>7, <1>8, <2>1
  <2>3. new = [session_id |-> UploadSession, seq_start |-> first,
               seq_end |-> first + n - 1, packet_count |-> n,
               merkle_root |-> localSegmentRoot(seg.hashes)]
    BY DEF new
  <2>4. Consistent(packets', Append(segments, new))
    BY <1>1, <1>2, <1>8, <2>1, <2>2, <2>3, ConsistentRecord
  <2> QED BY <1>4, <2>4
<1> QED BY <1>4, <1>5, <1>7, <1>8, <1>9, <1>10

\* A step of flush keeps the tables in order.
LEMMA FlushKeepsTables ==
    ASSUME TablesInv, FlushMemory, flush, UNCHANGED <<loopVars, envVars>>
    PROVE  /\ TablesInv'
           /\ InitialPart(packets, packets')
<1>1. CASE RecordSegment
  <2>1. segments' \in Seq(SegmentRows)
    <3>1. segments \in Seq(SegmentRows)
      BY DEF TablesInv, ChainInv, TypeOK, BufferTypeOK
    <3>2. PICK new \in SegmentRows : segments' = Append(segments, new)
      BY <1>1, RecordEffect
    <3> QED BY <3>1, <3>2
  <2>2. UNCHANGED <<quotes, faults>>
    BY <1>1 DEF RecordSegment
  <2>3. ChainInv'
    BY <1>1, <2>1, <2>2, RecordEffect, MarksKeepChain DEF TablesInv
  <2>4. RowsOrdered(packets')
    BY <1>1, RecordEffect, OrderKept DEF TablesInv
  <2>5. InitialPart(packets, packets')
    BY <1>1, RecordEffect DEF InitialPart, SameLink
  <2>6. Consistent(packets', segments')
    BY <1>1, RecordEffect
  <2> QED BY <2>3, <2>4, <2>5, <2>6 DEF TablesInv
<1>2. CASE UNCHANGED bufferVars
  <2>1. UNCHANGED <<packets, quotes, segments, faults>>
    BY <1>2 DEF bufferVars
  <2>2. packets' \in Seq(PacketRows) /\ segments' \in Seq(SegmentRows)
    BY <2>1 DEF TablesInv, ChainInv, TypeOK, BufferTypeOK
  <2>3. \A i \in DOMAIN packets : SameLink(packets'[i], packets[i])
                                  /\ OnlyMarks(packets'[i], packets[i])
    BY <2>1 DEF OnlyMarks, SameLink
  <2>4. ChainInv'
    BY <2>1, <2>2, <2>3, MarksKeepChain DEF TablesInv
  <2> QED BY <2>1, <2>3, <2>4 DEF TablesInv, InitialPart
<1>3. RecordSegment \/ UNCHANGED bufferVars
  BY DEF flush, ReadPending, ReadHashes, FlushFails, Ship, ShipFails
<1> QED BY <1>1, <1>2, <1>3

\* What flush ships is a segment of the table: its packets are stored, so their
\* numbers are used up, and its root is theirs.
LEMMA PayloadReceived ==
    ASSUME TablesInv, FlushMemory, upc = "ship"
    PROVE  Payload \in SegmentRows /\ Received(Payload)
<1>1. seg.id \in DOMAIN segments /\ segments \in Seq(SegmentRows)
      /\ packets \in Seq(PacketRows) /\ session.seq \in Nat
  BY DEF TablesInv, ChainInv, TypeOK, BufferTypeOK, Sessions, FlushMemory
<1> DEFINE u == segments[seg.id]
<1>2. u \in SegmentRows /\ u.seq_start \in Nat /\ u.seq_end \in Nat
  BY <1>1, SegmentTypes
<1>3. /\ u.seq_start <= u.seq_end /\ u.packet_count = u.seq_end - u.seq_start + 1
      /\ Agrees(packets, u) /\ Stored(packets, u)
  BY <1>1 DEF TablesInv, Consistent, Shaped
<1> HIDE DEF u
<1>4. PICK i \in DOMAIN packets : /\ packets[i].session_id = u.session_id
                                  /\ packets[i].seq = u.seq_end
  <2>1. u.seq_end \in u.seq_start .. u.seq_end
    BY <1>2, <1>3
  <2> QED BY <1>3, <2>1 DEF Stored
<1>5. u.session_id \in 1 .. started
  BY <1>4 DEF TablesInv, ChainInv, ChainMemory
<1>6. ASSUME u.session_id = session.id PROVE u.seq_end < Taken
  <2>1. packets[i].seq < session.seq \/ (pc = "setsig" /\ packets[i].seq = session.seq)
    BY <1>4, <1>6 DEF TablesInv, ChainInv, ChainMemory, Settled
  <2> QED BY <1>1, <1>2, <1>4, <2>1 DEF Taken
<1>7. Received(u)
  BY <1>3, <1>5, <1>6 DEF Received
<1> QED BY <1>2, <1>7 DEF Payload, u

\* What was shipped stays true when flush marks rows.
LEMMA FlushKeepsReceived ==
    ASSUME TablesInv, FlushMemory, flush, UNCHANGED <<loopVars, envVars>>,
           NEW u, Received(u)
    PROVE  Received(u)'
<1>1. UNCHANGED <<session, pc, started>>
  BY DEF loopVars, envVars
<1>2. \A i \in DOMAIN packets' : i \in DOMAIN packets /\ SameLink(packets'[i], packets[i])
  <2>1. RecordSegment \/ UNCHANGED bufferVars
    BY DEF flush, ReadPending, ReadHashes, FlushFails, Ship, ShipFails
  <2>2. CASE RecordSegment
    BY <2>2, RecordEffect
  <2>3. CASE UNCHANGED bufferVars
    BY <2>3 DEF bufferVars, SameLink
  <2> QED BY <2>1, <2>2, <2>3
<1>3. Agrees(packets', u)
  BY <1>2, AgreesWithPart DEF Received
<1> QED BY <1>1, <1>3 DEF Received, Taken

\* A POST adds its payload to what the endpoint has, or nothing.
LEMMA PostAdds ==
    ASSUME upstream \in Seq(SegmentRows),
           upstream' = upstream \/ (upstream' = Append(upstream, Payload) /\ upc = "ship"),
           TablesInv, FlushMemory
    PROVE  /\ upstream' \in Seq(SegmentRows)
           /\ \A u \in Shipped' : u \in SegmentRows /\ (u \in Shipped \/ Received(u))
<1>1. CASE upstream' = upstream
  BY <1>1 DEF Shipped
<1>2. CASE upstream' = Append(upstream, Payload) /\ upc = "ship"
  <2>1. Payload \in SegmentRows /\ Received(Payload)
    BY <1>2, PayloadReceived
  <2>2. Shipped' = Shipped \cup {Payload}
    <3>1. /\ DOMAIN upstream' = DOMAIN upstream \cup {Len(upstream) + 1}
          /\ \A a \in DOMAIN upstream : upstream'[a] = upstream[a]
          /\ upstream'[Len(upstream) + 1] = Payload
      BY <1>2, InsertedRow
    <3> QED BY <3>1 DEF Shipped
  <2>3. \A u \in Shipped : u \in SegmentRows
    BY DEF Shipped
  <2> QED BY <1>2, <2>1, <2>2, <2>3
<1> QED BY <1>1, <1>2

\* Every step of flush keeps its locals and what it has shipped in order.
LEMMA FlushStep ==
    ASSUME TablesInv, FlushInv, flush, UNCHANGED <<loopVars, envVars>>
    PROVE  FlushInv'
<1> USE DEF FlushInv
<1>1. /\ packets \in Seq(PacketRows) /\ segments \in Seq(SegmentRows)
      /\ UniqueRows(packets)
  BY OrderedRows DEF TablesInv, ChainInv, TypeOK, BufferTypeOK
<1>2. NoFlush.rows = {} /\ NoFlush.hashes = <<>> /\ NoFlush.id = 0
      /\ NoFlush \in [rows : {{}}, hashes : Seq(Bytes), id : Nat]
  <2>1. <<>> \in Seq(Bytes)
    OBVIOUS
  <2> QED BY <2>1 DEF NoFlush
<1>3. UploaderTypeOK' /\ FlushMemory' /\ \A u \in Shipped' : u \in Shipped \/ Received(u)
  <2>1. CASE ReadPending
    <3>1. PICK size \in 1 .. BatchSize :
             seg' = [NoFlush EXCEPT !.rows = PendingRange(UploadSession, size)]
      BY <2>1 DEF ReadPending
    <3>2. seg'.rows = PendingRange(UploadSession, size) /\ seg'.hashes = <<>> /\ seg'.id = 0
          /\ seg' \in [rows : {seg'.rows}, hashes : Seq(Bytes), id : Nat]
      <4>1. <<>> \in Seq(Bytes)
        OBVIOUS
      <4> QED BY <3>1, <4>1 DEF NoFlush
    <3>3. /\ upc' = "hash" /\ Pending(UploadSession) # {}
          /\ UNCHANGED <<packets, segments, upstream>>
      BY <2>1 DEF ReadPending, bufferVars
    <3>4. size \in Nat \ {0}
      BY UploadAssumption
    <3>5. \E first \in Nat, n \in Nat \ {0} :
             Batch(packets, seg'.rows, UploadSession, first, n)
      BY <1>1, <3>2, <3>3, <3>4, PendingBatch
    <3>6. seg'.rows \subseteq DOMAIN packets
      BY <3>5 DEF Batch
    <3>7. UploaderTypeOK'
      BY <3>2, <3>3, <3>6 DEF UploaderTypeOK
    <3>8. FlushMemory'
      BY <3>3, <3>5 DEF FlushMemory
    <3> QED BY <3>3, <3>7, <3>8 DEF Shipped
  <2>2. CASE ReadHashes
    <3>1. /\ upc = "hash" /\ upc' = "record" /\ UNCHANGED <<packets, segments, upstream>>
          /\ seg' = [seg EXCEPT !.hashes = PacketHashes(seg.rows)]
      BY <2>2 DEF ReadHashes, bufferVars
    <3>2. PICK first \in Nat, n \in Nat \ {0} :
             Batch(packets, seg.rows, UploadSession, first, n)
      BY <3>1 DEF FlushMemory
    <3>3. HashesOf(packets, seg.rows, first, n, PacketHashes(seg.rows))
      BY <1>1, <3>2, BatchHashes
    <3>4. /\ seg'.rows = seg.rows /\ seg'.hashes = PacketHashes(seg.rows)
          /\ seg' \in [rows : {seg'.rows}, hashes : Seq(Bytes), id : Nat]
      BY <3>1, <3>3 DEF UploaderTypeOK, HashesOf
    <3>5. UploaderTypeOK'
      BY <3>1, <3>4 DEF UploaderTypeOK
    <3>6. FlushMemory'
      BY <3>1, <3>2, <3>3, <3>4 DEF FlushMemory
    <3> QED BY <3>1, <3>5, <3>6 DEF Shipped
  <2>3. CASE RecordSegment
    <3>1. /\ upc' = "ship" /\ upstream' = upstream
          /\ seg' = [NoFlush EXCEPT !.id = Len(segments) + 1]
      BY <2>3 DEF RecordSegment
    <3>2. PICK new \in SegmentRows : segments' = Append(segments, new)
      BY <2>3, RecordEffect
    <3>3. Len(segments) + 1 \in Nat /\ Len(segments) + 1 \in DOMAIN segments'
      BY <1>1, <3>2
    <3>4. /\ seg'.rows = {} /\ seg'.id = Len(segments) + 1
          /\ seg' \in [rows : {seg'.rows}, hashes : Seq(Bytes), id : Nat]
      <4>1. <<>> \in Seq(Bytes)
        OBVIOUS
      <4> QED BY <3>1, <3>3, <4>1 DEF NoFlush
    <3>5. UploaderTypeOK'
      BY <3>1, <3>4 DEF UploaderTypeOK
    <3>6. FlushMemory'
      BY <3>1, <3>3, <3>4 DEF FlushMemory
    <3> QED BY <3>1, <3>5, <3>6 DEF Shipped
  <2>4. CASE FlushFails \/ Ship \/ ShipFails
    <3>1. /\ upc' = "poll" /\ seg' = NoFlush
          /\ upstream' = upstream \/ (upstream' = Append(upstream, Payload) /\ upc = "ship")
      BY <2>4 DEF FlushFails, Ship, ShipFails
    <3>2. /\ upstream' \in Seq(SegmentRows)
          /\ \A u \in Shipped' : u \in Shipped \/ Received(u)
      BY <3>1, PostAdds DEF UploaderTypeOK
    <3>3. UploaderTypeOK'
      BY <1>2, <3>1, <3>2 DEF UploaderTypeOK
    <3>4. FlushMemory'
      BY <3>1 DEF FlushMemory
    <3> QED BY <3>2, <3>3, <3>4
  <2> QED BY <2>1, <2>2, <2>3, <2>4 DEF flush
<1>4. ASSUME NEW u \in Shipped' PROVE Received(u)'
  <2>1. Received(u)
    BY <1>3
  <2> QED BY <2>1, FlushKeepsReceived
<1> QED BY <1>3, <1>4

\* The process dies, and the flush with it; its last request may arrive.
LEMMA StopsFlush ==
    ASSUME TablesInv, FlushInv, UploaderStops
    PROVE  /\ UploaderTypeOK' /\ FlushMemory'
           /\ \A u \in Shipped' : u \in SegmentRows /\ Received(u)
<1>1. /\ upc' = "poll" /\ seg' = NoFlush
      /\ upstream' = upstream \/ (upstream' = Append(upstream, Payload) /\ upc = "ship")
  BY DEF UploaderStops
<1>2. upstream' \in Seq(SegmentRows) /\ \A u \in Shipped' : u \in SegmentRows /\ Received(u)
  BY <1>1, PostAdds DEF UploaderTypeOK, FlushInv
<1>3. NoFlush.rows = {} /\ NoFlush \in [rows : {{}}, hashes : Seq(Bytes), id : Nat]
  <2>1. <<>> \in Seq(Bytes)
    OBVIOUS
  <2> QED BY <2>1 DEF NoFlush
<1>4. UploaderTypeOK'
  BY <1>1, <1>2, <1>3 DEF UploaderTypeOK
<1> QED BY <1>1, <1>2, <1>4 DEF FlushMemory

-----------------------------------------------------------------------------
\* The log of unsynced commits, and its loss.

\* Without its first element a sequence has the others, one place earlier.
LEMMA TailElements ==
    ASSUME NEW S, NEW q \in Seq(S), q # <<>>
    PROVE  /\ Tail(q) \in Seq(S)
           /\ \A n \in DOMAIN Tail(q) : n + 1 \in DOMAIN q /\ Tail(q)[n] = q[n + 1]
  OBVIOUS

\* The log grows by the tables as they are, and may forget its oldest entry.
LEMMA CommitsLog ==
    ASSUME unsynced \in Seq(TableStates), NEW T, T = Tables, T \in TableStates, Commits
    PROVE  unsynced' \in Seq(TableStates) /\ Snapshots' \subseteq Snapshots \cup {T}
<1> DEFINE log == Append(unsynced, T)
<1>1. /\ log \in Seq(TableStates) /\ log # <<>>
      /\ DOMAIN log = DOMAIN unsynced \cup {Len(unsynced) + 1}
      /\ \A n \in DOMAIN unsynced : log[n] = unsynced[n]
      /\ log[Len(unsynced) + 1] = T
  <2>1. log # <<>>
    <3>1. Len(log) = Len(unsynced) + 1 /\ Len(unsynced) \in Nat
      OBVIOUS
    <3> HIDE DEF log
    <3> QED BY <3>1
  <2> QED BY <2>1, InsertedRow
<1>2. unsynced' = unsynced \/ unsynced' = log \/ unsynced' = Tail(log)
  BY DEF Commits
<1> HIDE DEF log
<1>3. {log[n] : n \in DOMAIN log} \subseteq Snapshots \cup {T}
  BY <1>1 DEF Snapshots
<1>4. CASE unsynced' = unsynced
  BY <1>4 DEF Snapshots
<1>5. CASE unsynced' = log
  BY <1>1, <1>3, <1>5 DEF Snapshots
<1>6. CASE unsynced' = Tail(log)
  <2>1. /\ Tail(log) \in Seq(TableStates)
        /\ \A n \in DOMAIN Tail(log) : n + 1 \in DOMAIN log /\ Tail(log)[n] = log[n + 1]
    BY <1>1, TailElements
  <2> QED BY <1>3, <1>6, <2>1 DEF Snapshots
<1> QED BY <1>2, <1>4, <1>5, <1>6

\* A step that only adds to the packets keeps every logged state recoverable.
LEMMA CommitsKept ==
    ASSUME TablesInv, PowerInv, TablesInv', InitialPart(packets, packets'), Commits
    PROVE  PowerInv'
<1>1. PICK T : T = Tables
  OBVIOUS
<1>2. /\ T.packets = packets /\ T.segments = segments
      /\ T \in TableStates
  BY <1>1 DEF Tables, TableStates, TablesInv, ChainInv, TypeOK, BufferTypeOK
<1>3. unsynced' \in Seq(TableStates) /\ Snapshots' \subseteq Snapshots \cup {T}
  BY <1>1, <1>2, CommitsLog DEF PowerInv
<1>4. ASSUME NEW S \in Snapshots' PROVE Recoverable(S)'
  <2>1. CASE S \in Snapshots
    <3>1. S \in TableStates /\ InitialPart(S.packets, packets) /\ Consistent(S.packets, S.segments)
      BY <2>1 DEF PowerInv, Recoverable
    <3>2. InitialPart(S.packets, packets')
      BY <3>1, PartOfPart
    <3> QED BY <3>1, <3>2 DEF Recoverable
  <2>2. CASE S = T
    BY <1>2, <2>2 DEF Recoverable, TablesInv
  <2> QED BY <1>3, <2>1, <2>2
<1> QED BY <1>3, <1>4 DEF PowerInv

\* The power fails: what is left is an initial part of the packets, with the
\* segments that were recorded over it, and no session goes on.
LEMMA PowerStep ==
    ASSUME DaemonInv, PowerFails
    PROVE  DaemonInv' /\ InitialPart(packets', packets)
<1>1. PICK T \in Snapshots : /\ packets' = T.packets /\ quotes' = T.quotes
                             /\ segments' = T.segments /\ faults' = T.faults
  BY DEF PowerFails, Snapshots
<1>2. /\ packets' \in Seq(PacketRows) /\ quotes' \in Seq(QuoteRows)
      /\ segments' \in Seq(SegmentRows) /\ faults' \in Seq(FaultRows)
      /\ InitialPart(packets', packets)
      /\ Consistent(packets', segments')
  BY <1>1 DEF DaemonInv, PowerInv, Recoverable, TableStates
<1>3. /\ pc' = "down" /\ session' = NewSession(0)
      /\ pkt' = NoPacket /\ printState' = ""
  BY DEF PowerFails, Dies
<1>4. TypeOK /\ packets \in Seq(PacketRows)
  BY DEF DaemonInv, TablesInv, ChainInv, TypeOK, BufferTypeOK
<1>5. started' = started /\ started \in Nat
  BY <1>4 DEF PowerFails, Dies, TypeOK
<1>6. TypeOK'
  <2>1. immediateQuote' \in BOOLEAN /\ tpm' \in BOOLEAN
    BY <1>4, Zenon DEF PowerFails, Dies, TypeOK
  <2>2. session' \in Sessions /\ pkt' \in Packets /\ printState' \in PrintStates
    BY <1>3, ZeroSession, NoPacketType DEF PrintStates
  <2>3. /\ pc' \in {"select", "quote", "write", "setsig", "down"}
        /\ tickC' \in Nat /\ now' \in Nat /\ started' \in Nat /\ crashes' \in Nat
        /\ lastDelta' \in Nat
    <3>1. tickC' = 0 /\ crashes' = crashes + 1 /\ UNCHANGED <<now, lastDelta>>
      BY DEF PowerFails, Dies
    <3>2. now \in Nat /\ started \in Nat /\ crashes \in Nat /\ lastDelta \in Nat
      BY <1>4 DEF TypeOK
    <3>3. pc' \in {"select", "quote", "write", "setsig", "down"}
      BY <1>3
    <3> QED BY <1>5, <3>1, <3>2, <3>3
  <2> QED BY <1>2, <2>1, <2>2, <2>3 DEF TypeOK, BufferTypeOK
<1>7. \A i \in DOMAIN packets' : /\ i \in DOMAIN packets /\ i \in Nat
                                 /\ packets'[i].session_id = packets[i].session_id
                                 /\ packets'[i].seq = packets[i].seq
                                 /\ packets'[i].prev_packet_blake3 = packets[i].prev_packet_blake3
                                 /\ packets'[i].packet_blake3 = packets[i].packet_blake3
  BY <1>2 DEF InitialPart, SameLink
<1>8. ChainLinked'
  <2>1. ASSUME NEW i \in DOMAIN packets', packets'[i].seq # 0
        PROVE  \E j \in DOMAIN packets' :
                  /\ j < i /\ packets'[j].session_id = packets'[i].session_id
                  /\ packets'[i].seq = packets'[j].seq + 1
                  /\ packets'[i].prev_packet_blake3 = packets'[j].packet_blake3
    <3>1. PICK j \in DOMAIN packets :
                  /\ j < i /\ packets[j].session_id = packets[i].session_id
                  /\ packets[i].seq = packets[j].seq + 1
                  /\ packets[i].prev_packet_blake3 = packets[j].packet_blake3
      BY <1>7, <2>1 DEF DaemonInv, TablesInv, ChainInv, ChainLinked, Precedes
    <3>2. j \in DOMAIN packets'
      BY <1>2, <1>4, <3>1
    <3> QED BY <1>7, <3>1, <3>2
  <2>2. ASSUME NEW i \in DOMAIN packets', packets'[i].seq = 0
        PROVE  packets'[i].prev_packet_blake3 = Nil
    BY <1>7, <2>2 DEF DaemonInv, TablesInv, ChainInv, ChainLinked
  <2> QED BY <2>1, <2>2 DEF ChainLinked, Precedes
<1>9. ChainMemory'
  <2>1. session'.id = 0 /\ session'.seq = 0 /\ session'.prevBlake3 = Nil
    BY <1>3 DEF NewSession
  <2>2. \A i \in DOMAIN packets' : packets'[i].session_id \in 1 .. started'
    BY <1>5, <1>7 DEF DaemonInv, TablesInv, ChainInv, ChainMemory
  <2>3. \A i \in DOMAIN packets' : packets'[i].session_id # session'.id
    BY <1>5, <2>1, <2>2
  <2>4. session'.id \in 0 .. started' /\ pc' \notin {"quote", "write", "setsig"}
    <3>1. session'.id \in 0 .. started'
      BY <1>5, <2>1
    <3>2. pc' \notin {"quote", "write", "setsig"}
      BY <1>3
    <3> QED BY <3>1, <3>2
  <2> QED BY <2>1, <2>2, <2>3, <2>4 DEF ChainMemory, Settled
<1>10. RowsOrdered(packets')
  <2>1. DOMAIN packets' \subseteq DOMAIN packets
        /\ \A i \in DOMAIN packets' : SameLink(packets'[i], packets[i])
    BY <1>2 DEF InitialPart
  <2> QED BY <2>1, OrderKept DEF DaemonInv, TablesInv
<1>11. TablesInv'
  BY <1>2, <1>6, <1>8, <1>9, <1>10 DEF TablesInv, ChainInv
<1>12. PowerInv'
  <2>1. unsynced' = <<>>
    BY DEF PowerFails
  <2>2. <<>> \in Seq(TableStates)
    OBVIOUS
  <2> QED BY <2>1, <2>2 DEF PowerInv, Snapshots
<1>13. FlushInv'
  <2>1. /\ UploaderTypeOK' /\ FlushMemory'
        /\ \A u \in Shipped' : Received(u)
    BY StopsFlush DEF DaemonInv, PowerFails
  <2>2. ASSUME NEW u \in Shipped' PROVE Received(u)'
    <3>1. Received(u)
      BY <2>1
    <3>2. Agrees(packets', u)
      BY <1>2, <3>1, AgreesWithPart DEF Received, InitialPart
    <3>3. u.session_id \in 1 .. started' /\ u.session_id # session'.id
      <4>1. session'.id = 0
        BY <1>3 DEF NewSession
      <4> QED BY <1>5, <3>1, <4>1 DEF Received
    <3> QED BY <3>1, <3>2, <3>3 DEF Received
  <2> QED BY <2>1, <2>2 DEF FlushInv
<1> QED BY <1>2, <1>11, <1>12, <1>13 DEF DaemonInv

-----------------------------------------------------------------------------
\* The daemon.

\* Every step of the daemon keeps the invariant.
LEMMA DaemonStep == DaemonInv /\ [DaemonNext]_daemonVars => DaemonInv'
<1> SUFFICES ASSUME DaemonInv, [DaemonNext]_daemonVars PROVE DaemonInv'
  OBVIOUS
<1>1. TablesInv /\ FlushInv /\ PowerInv
  BY DEF DaemonInv
<1>2. ASSUME [PacketizerNext]_packetizerVars, UNCHANGED uploaderVars PROVE FlushInv'
  <2>1. UNCHANGED <<upc, seg, upstream>>
    BY <1>2 DEF uploaderVars
  <2>2. FlushMemory'
    BY <1>1, <1>2, <2>1, CustodyKeepsFlush DEF FlushInv
  <2>3. UploaderTypeOK'
    <3>1. DOMAIN packets \subseteq DOMAIN packets'
      BY <1>1, <1>2, CustodyTables DEF InitialPart
    <3> QED BY <1>1, <2>1, <3>1 DEF FlushInv, UploaderTypeOK
  <2>4. ASSUME NEW u \in Shipped' PROVE Received(u)'
    <3>1. u \in SegmentRows /\ Received(u)
      BY <1>1, <2>1 DEF FlushInv, UploaderTypeOK, Shipped
    <3> QED BY <1>1, <1>2, <3>1, ReceivedKept
  <2> QED BY <2>2, <2>3, <2>4 DEF FlushInv
<1>3. CASE PacketizerStep
  <2>1. PacketizerNext /\ UNCHANGED uploaderVars /\ Commits
    BY <1>3 DEF PacketizerStep, PacketizerNext
  <2>2. TablesInv' /\ InitialPart(packets, packets')
    BY <1>1, <2>1, CustodyKeepsTables, CustodyTables
  <2>3. PowerInv'
    BY <1>1, <2>1, <2>2, CommitsKept
  <2> QED BY <1>2, <2>1, <2>2, <2>3 DEF DaemonInv
<1>4. CASE UploaderStep
  <2>1. flush /\ UNCHANGED <<loopVars, envVars>> /\ Commits
    BY <1>4 DEF UploaderStep
  <2>2. TablesInv' /\ InitialPart(packets, packets')
    BY <1>1, <2>1, FlushKeepsTables DEF FlushInv
  <2>3. FlushInv'
    BY <1>1, <2>1, FlushStep
  <2>4. PowerInv'
    BY <1>1, <2>1, <2>2, CommitsKept
  <2> QED BY <2>2, <2>3, <2>4 DEF DaemonInv
<1>5. ASSUME UNCHANGED <<packets, segments, powerVars>> PROVE PowerInv'
  BY <1>1, <1>5 DEF PowerInv, Snapshots, Recoverable, powerVars
<1>6. CASE DaemonStops
  <2>1. PacketizerNext /\ UploaderStops /\ UNCHANGED powerVars
        /\ UNCHANGED <<packets, segments>>
    BY <1>6 DEF DaemonStops, PacketizerNext, Crash, bufferVars
  <2>2. TablesInv'
    BY <1>1, <2>1, CustodyKeepsTables
  <2>3. /\ UploaderTypeOK' /\ FlushMemory'
        /\ \A u \in Shipped' : u \in SegmentRows /\ Received(u)
    BY <1>1, <2>1, StopsFlush
  <2>4. \A u \in Shipped' : Received(u)'
    BY <1>1, <2>1, <2>3, ReceivedKept
  <2> QED BY <1>5, <2>1, <2>2, <2>3, <2>4 DEF DaemonInv, FlushInv
<1>7. CASE DaemonStarts
  <2>1. PacketizerNext /\ UNCHANGED <<uploaderVars, powerVars>>
        /\ UNCHANGED <<packets, segments>>
    BY <1>7 DEF DaemonStarts, PacketizerNext, Restart, bufferVars
  <2>2. TablesInv'
    BY <1>1, <2>1, CustodyKeepsTables
  <2> QED BY <1>2, <1>5, <2>1, <2>2 DEF DaemonInv
<1>8. CASE PowerFails
  BY <1>8, PowerStep
<1>9. CASE UNCHANGED daemonVars
  <2>1. UNCHANGED <<packetizerVars, uploaderVars, powerVars>>
    BY <1>9 DEF daemonVars
  <2>2. TablesInv'
    BY <1>1, <2>1, CustodyKeepsTables
  <2>3. UNCHANGED <<packets, segments>>
    BY <2>1 DEF packetizerVars, bufferVars
  <2> QED BY <1>2, <1>5, <2>1, <2>2, <2>3 DEF DaemonInv
<1> QED BY <1>3, <1>4, <1>6, <1>7, <1>8, <1>9 DEF DaemonNext

\* A daemon on an empty buffer satisfies the invariant.
LEMMA DaemonStarted == DaemonInit => DaemonInv
<1> SUFFICES ASSUME DaemonInit PROVE DaemonInv
  OBVIOUS
<1>1. PacketizerInit /\ UploaderInit /\ unsynced = <<>>
  BY DEF DaemonInit
<1>2. packets = <<>> /\ segments = <<>>
  BY <1>1 DEF PacketizerInit, BufferInit
<1>3. TablesInv
  <2>1. ChainInv
    BY <1>1, InitType, InitChain DEF ChainInv
  <2>2. DOMAIN packets = {} /\ DOMAIN segments = {}
    BY <1>2
  <2> QED BY <2>1, <2>2 DEF TablesInv, RowsOrdered, Consistent, Shaped, Tiled, Marked
<1>4. PowerInv
  <2>1. <<>> \in Seq(TableStates) /\ DOMAIN unsynced = {}
    BY <1>1
  <2> QED BY <1>1, <2>1 DEF PowerInv, Snapshots
<1>5. FlushInv
  <2>1. upc = "poll" /\ seg = NoFlush /\ upstream = <<>>
    BY <1>1 DEF UploaderInit
  <2>2. /\ <<>> \in Seq(Bytes) /\ <<>> \in Seq(SegmentRows) /\ DOMAIN upstream = {}
    BY <2>1
  <2>3. UploaderTypeOK
    BY <2>1, <2>2 DEF UploaderTypeOK, NoFlush
  <2> QED BY <2>1, <2>2, <2>3 DEF FlushInv, FlushMemory, Shipped
<1> QED BY <1>3, <1>4, <1>5 DEF DaemonInv

\* The invariant holds in every reachable state of the daemon.
LEMMA DaemonInvariant == DaemonSpec => []DaemonInv
  BY DaemonStarted, DaemonStep, PTL DEF DaemonSpec

-----------------------------------------------------------------------------
\* What the invariant says.

\* The locals of flush keep their types, and its rows are rows of the table,
\* even across a power failure.
THEOREM UploaderTypeCorrect == DaemonSpec => []UploaderTypeOK
<1>1. DaemonInv => UploaderTypeOK
  BY DEF DaemonInv, FlushInv
<1> QED BY <1>1, DaemonInvariant, PTL

\* With the uploader writing to the same rows, and commits lost with the power,
\* each session in the buffer still is one gap-free hash chain.
THEOREM DaemonChainCorrect == DaemonSpec => []ChainLinked
<1>1. DaemonInv => ChainLinked
  BY DEF DaemonInv, TablesInv, ChainInv
<1> QED BY <1>1, DaemonInvariant, PTL

\* And the packetizer's seq and prevBlake3 still agree with it at every step.
THEOREM DaemonMemoryCorrect == DaemonSpec => []ChainMemory
<1>1. DaemonInv => ChainMemory
  BY DEF DaemonInv, TablesInv, ChainInv
<1> QED BY <1>1, DaemonInvariant, PTL

\* The relation between the tables gives the properties of the segments.
LEMMA SegmentsInOrder ==
    DaemonInv => SegmentsTile /\ UploadedIffCovered /\ RootCoversPackets /\ RootIsRFC6962
<1> SUFFICES ASSUME DaemonInv
             PROVE  SegmentsTile /\ UploadedIffCovered /\ RootCoversPackets /\ RootIsRFC6962
  OBVIOUS
<1>1. ChainInv /\ RowsOrdered(packets) /\ Consistent(packets, segments)
  BY DEF DaemonInv, TablesInv
<1>2. packets \in Seq(PacketRows) /\ segments \in Seq(SegmentRows)
  BY <1>1 DEF ChainInv, TypeOK, BufferTypeOK
<1> QED BY <1>1, <1>2, OrderedRows, ConsistentMeans

\* The segments of a session tile its packets, for batches of every size.
THEOREM SegmentsTileCorrect == DaemonSpec => []SegmentsTile
  BY SegmentsInOrder, DaemonInvariant, PTL

\* A packet is marked as uploaded exactly when the segment it names covers it.
THEOREM UploadedCorrect == DaemonSpec => []UploadedIffCovered
  BY SegmentsInOrder, DaemonInvariant, PTL

\* The root of a segment is that of the packets it covers, although flush reads
\* the rows, reads the hashes and records the segment in three transactions.
THEOREM RootsCorrect == DaemonSpec => []RootCoversPackets
  BY SegmentsInOrder, DaemonInvariant, PTL

\* It is their RFC 6962 tree hash, for segments of every length: merkleReduce,
\* which works level by level, agrees with the definition from the top.
THEOREM RootIsTheTreeHash == DaemonSpec => []RootIsRFC6962
  BY SegmentsInOrder, DaemonInvariant, PTL

\* The buffer never contradicts a segment that the endpoint received, whatever
\* a power failure takes back.
THEOREM UpstreamCorrect == DaemonSpec => []UpstreamAgrees
<1>1. DaemonInv => UpstreamAgrees
  <2> SUFFICES ASSUME DaemonInv, NEW a \in DOMAIN upstream, AllStored(upstream[a])
               PROVE  upstream[a].merkle_root = localSegmentRoot(CoveredHashes(upstream[a]))
    BY DEF UpstreamAgrees
  <2>1. UniqueRows(packets)
    BY OrderedRows DEF DaemonInv, TablesInv
  <2> DEFINE u == upstream[a]
  <2>2. u \in SegmentRows /\ Received(u)
    BY DEF DaemonInv, FlushInv, UploaderTypeOK, Shipped
  <2>3. AllStored(u)
    OBVIOUS
  <2> HIDE DEF u
  <2>4. u.seq_start \in Nat /\ u.seq_end \in Nat
    BY <2>2 DEF SegmentRows
  <2>5. u.merkle_root = localSegmentRoot(CoveredHashes(u))
    BY <2>1, <2>2, <2>3, <2>4, AgreesMeansRoot DEF Received
  <2> QED BY <2>5 DEF u
<1> QED BY <1>1, DaemonInvariant, PTL

-----------------------------------------------------------------------------
(***************************************************************************)
(* What reaches the endpoint.  That no packet is shipped twice depends on  *)
(* the segment being shipped: it is not among those shipped before.        *)
(***************************************************************************)
OnRecord(a) == \E s \in DOMAIN segments : /\ segments[s] = upstream[a]
                                          /\ upc = "ship" => s # seg.id

EachOnce ==
    /\ \A a, b \in DOMAIN upstream :
          (a # b /\ upstream[a].session_id = upstream[b].session_id) =>
              Apart(upstream[a], upstream[b])
    /\ \A a \in DOMAIN upstream : OnRecord(a)

OnceInv == ~outage => EachOnce

\* A payload that arrives overlaps none that arrived before.
LEMMA PostOnce ==
    ASSUME TablesInv, FlushInv, EachOnce, segments' = segments, upc' = "poll",
           upstream' = upstream \/ (upstream' = Append(upstream, Payload) /\ upc = "ship")
    PROVE  EachOnce'
<1>1. CASE upstream' = upstream
  BY <1>1 DEF EachOnce, OnRecord
<1>2. CASE upstream' = Append(upstream, Payload) /\ upc = "ship"
  <2> DEFINE last == Len(upstream) + 1
  <2>1. /\ DOMAIN upstream' = DOMAIN upstream \cup {last}
        /\ \A a \in DOMAIN upstream : upstream'[a] = upstream[a]
        /\ upstream'[last] = segments[seg.id]
    BY <1>2, InsertedRow DEF FlushInv, UploaderTypeOK, Payload
  <2> HIDE DEF last
  <2>2. seg.id \in DOMAIN segments
    BY <1>2 DEF FlushInv, FlushMemory
  <2>3. ASSUME NEW a \in DOMAIN upstream,
               upstream[a].session_id = segments[seg.id].session_id
        PROVE  Apart(upstream[a], segments[seg.id]) /\ Apart(segments[seg.id], upstream[a])
    <3>1. PICK s \in DOMAIN segments : segments[s] = upstream[a] /\ s # seg.id
      BY <1>2 DEF EachOnce, OnRecord
    <3>2. Apart(segments[s], segments[seg.id])
      BY <2>2, <2>3, <3>1 DEF TablesInv, Consistent, Tiled
    <3> QED BY <3>1, <3>2 DEF Apart
  <2>4. ASSUME NEW a \in DOMAIN upstream', NEW b \in DOMAIN upstream', a # b,
               upstream'[a].session_id = upstream'[b].session_id
        PROVE  Apart(upstream'[a], upstream'[b])
    <3>1. CASE a \in DOMAIN upstream /\ b \in DOMAIN upstream
      BY <2>1, <2>4, <3>1 DEF EachOnce
    <3>2. CASE a = last
      BY <2>1, <2>3, <2>4, <3>2
    <3>3. CASE b = last
      BY <2>1, <2>3, <2>4, <3>3
    <3> QED BY <2>1, <3>1, <3>2, <3>3
  <2>5. \A a \in DOMAIN upstream' : \E s \in DOMAIN segments : segments[s] = upstream'[a]
    BY <2>1, <2>2 DEF EachOnce, OnRecord
  <2> QED BY <2>4, <2>5 DEF EachOnce, OnRecord
<1> QED BY <1>1, <1>2

\* Every step that loses no commit keeps what was shipped on record.
LEMMA StepOnce == DaemonInv /\ OnceInv /\ [DaemonNext]_daemonVars => OnceInv'
<1> SUFFICES ASSUME DaemonInv, OnceInv, [DaemonNext]_daemonVars, ~outage' PROVE EachOnce'
  BY DEF OnceInv
<1>1. TablesInv /\ FlushInv
  BY DEF DaemonInv
<1>2. ~outage
  BY DEF DaemonNext, PacketizerStep, UploaderStep, DaemonStops, DaemonStarts, PowerFails,
         Commits, powerVars, daemonVars
<1>3. EachOnce
  BY <1>2 DEF OnceInv
<1>4. ASSUME UNCHANGED <<segments, upstream>>, UNCHANGED <<upc, seg>> \/ upc' # "ship"
      PROVE  EachOnce'
  BY <1>3, <1>4 DEF EachOnce, OnRecord
<1>5. ASSUME [PacketizerNext]_packetizerVars, UNCHANGED uploaderVars PROVE EachOnce'
  BY <1>1, <1>4, <1>5, CustodyTables DEF uploaderVars
<1>6. CASE PacketizerStep \/ DaemonStarts
  BY <1>5, <1>6 DEF PacketizerStep, DaemonStarts, PacketizerNext
<1>7. CASE UploaderStep
  <2>1. CASE RecordSegment
    <3>1. PICK new \in SegmentRows : segments' = Append(segments, new)
      BY <1>1, <2>1, RecordEffect DEF FlushInv
    <3>2. segments \in Seq(SegmentRows) /\ Len(segments) + 1 \notin DOMAIN segments
      BY <1>1 DEF TablesInv, ChainInv, TypeOK, BufferTypeOK
    <3>3. \A s \in DOMAIN segments : s \in DOMAIN segments' /\ segments'[s] = segments[s]
      BY <3>1, <3>2, InsertedRow
    <3>4. upstream' = upstream /\ seg'.id = Len(segments) + 1
      BY <2>1 DEF RecordSegment, NoFlush
    <3>5. \A s \in DOMAIN segments : s # seg'.id
      BY <3>2, <3>4
    <3> QED BY <1>3, <3>3, <3>4, <3>5 DEF EachOnce, OnRecord
  <2>2. CASE ReadPending \/ ReadHashes \/ FlushFails
    BY <1>4, <2>2 DEF ReadPending, ReadHashes, FlushFails, bufferVars
  <2>3. CASE Ship \/ ShipFails
    <3>1. /\ segments' = segments /\ upc' = "poll"
          /\ upstream' = upstream \/ (upstream' = Append(upstream, Payload) /\ upc = "ship")
      BY <2>3 DEF Ship, ShipFails, bufferVars
    <3> QED BY <1>1, <1>3, <3>1, PostOnce
  <2> QED BY <1>7, <2>1, <2>2, <2>3 DEF UploaderStep, flush
<1>8. CASE DaemonStops
  <2>1. /\ segments' = segments /\ upc' = "poll"
        /\ upstream' = upstream \/ (upstream' = Append(upstream, Payload) /\ upc = "ship")
    BY <1>8 DEF DaemonStops, Crash, bufferVars, UploaderStops
  <2> QED BY <1>1, <1>3, <2>1, PostOnce
<1>9. CASE UNCHANGED daemonVars
  BY <1>5, <1>9 DEF daemonVars
<1>10. ~PowerFails
  BY DEF PowerFails
<1> QED BY <1>6, <1>7, <1>8, <1>9, <1>10 DEF DaemonNext

\* Without a power failure no packet reaches the endpoint in two segments, and
\* all that reaches it is on record, whatever crashes and whatever POST fails.
THEOREM ShippedOnceCorrect == DaemonSpec => []ShippedOncePowered
<1>1. DaemonInit => OnceInv
  <2> SUFFICES ASSUME DaemonInit PROVE OnceInv
    OBVIOUS
  <2>1. DOMAIN upstream = {}
    BY DEF DaemonInit, UploaderInit
  <2> QED BY <2>1 DEF OnceInv, EachOnce
<1>2. OnceInv => ShippedOncePowered
  BY DEF OnceInv, EachOnce, OnRecord, Apart, ShippedOncePowered, ShippedOnce
<1> QED BY <1>1, <1>2, StepOnce, DaemonInvariant, PTL DEF DaemonSpec

-----------------------------------------------------------------------------
(***************************************************************************)
(* What is marked as uploaded has been uploaded, as long as no POST fails  *)
(* and the daemon runs on: flush marks the rows before it ships them.      *)
(***************************************************************************)
EachShipped ==
    \A s \in DOMAIN segments :
        \/ \E a \in DOMAIN upstream : upstream[a] = segments[s]
        \/ upc = "ship" /\ seg.id = s

\* Without crashes and failed POSTs a recorded segment is shipped next.
LEMMA StepShipped ==
    ASSUME "post" \notin UploadMayFail, MaxCrashes = 0,
           DaemonInv, EachShipped, [DaemonNext]_daemonVars
    PROVE  EachShipped'
<1>1. TablesInv /\ FlushInv /\ crashes \in Nat
  BY DEF DaemonInv, TablesInv, ChainInv, TypeOK
<1>2. ~DaemonStops /\ ~PowerFails
  BY <1>1 DEF DaemonStops, Crash, PowerFails
<1>3. ASSUME UNCHANGED <<segments, upstream>>, UNCHANGED <<upc, seg>> \/ upc # "ship"
      PROVE  EachShipped'
  BY <1>3 DEF EachShipped
<1>4. ASSUME [PacketizerNext]_packetizerVars, UNCHANGED uploaderVars PROVE EachShipped'
  BY <1>1, <1>3, <1>4, CustodyTables DEF uploaderVars
<1>5. CASE PacketizerStep \/ DaemonStarts \/ UNCHANGED daemonVars
  BY <1>4, <1>5 DEF PacketizerStep, DaemonStarts, PacketizerNext, daemonVars
<1>6. CASE UploaderStep
  <2>1. CASE RecordSegment
    <3>1. PICK new \in SegmentRows : segments' = Append(segments, new)
      BY <1>1, <2>1, RecordEffect DEF FlushInv
    <3>2. /\ DOMAIN segments' = DOMAIN segments \cup {Len(segments) + 1}
          /\ \A s \in DOMAIN segments : segments'[s] = segments[s]
      BY <1>1, <3>1, InsertedRow DEF TablesInv, ChainInv, TypeOK, BufferTypeOK
    <3>3. /\ upstream' = upstream /\ upc = "record" /\ upc' = "ship"
          /\ seg'.id = Len(segments) + 1
      BY <2>1 DEF RecordSegment, NoFlush
    <3> QED BY <3>2, <3>3 DEF EachShipped
  <2>2. CASE ReadPending \/ ReadHashes \/ FlushFails
    BY <1>3, <2>2 DEF ReadPending, ReadHashes, FlushFails, bufferVars
  <2>3. CASE Ship
    <3>1. /\ segments' = segments /\ upc = "ship"
          /\ upstream' = Append(upstream, segments[seg.id])
      BY <2>3 DEF Ship, bufferVars, Payload
    <3>2. /\ DOMAIN upstream' = DOMAIN upstream \cup {Len(upstream) + 1}
          /\ \A a \in DOMAIN upstream : upstream'[a] = upstream[a]
          /\ upstream'[Len(upstream) + 1] = segments[seg.id]
      BY <1>1, <3>1, InsertedRow DEF FlushInv, UploaderTypeOK
    <3> QED BY <3>1, <3>2 DEF EachShipped
  <2>4. ~ShipFails
    BY DEF ShipFails
  <2> QED BY <1>6, <2>1, <2>2, <2>3, <2>4 DEF UploaderStep, flush
<1> QED BY <1>2, <1>5, <1>6 DEF DaemonNext

\* Every packet that is marked as uploaded has reached the endpoint, or its
\* segment is being shipped, as long as no POST fails and nothing crashes.  The
\* hypotheses are what the run ShipmentLost shows to be needed.
THEOREM UploadedShipped ==
    ASSUME "post" \notin UploadMayFail, MaxCrashes = 0
    PROVE  DaemonSpec => []UploadedMeansShipped
<1>1. DaemonInit => EachShipped
  <2> SUFFICES ASSUME DaemonInit PROVE EachShipped
    OBVIOUS
  <2>1. segments = <<>>
    BY DEF DaemonInit, PacketizerInit, BufferInit
  <2> QED BY <2>1 DEF EachShipped
<1>2. DaemonInv /\ EachShipped /\ [DaemonNext]_daemonVars => EachShipped'
  BY StepShipped
<1>3. DaemonInv /\ EachShipped => UploadedMeansShipped
  <2> SUFFICES ASSUME DaemonInv, EachShipped, NEW i \in DOMAIN packets,
                      packets[i].upload_state = "uploaded"
               PROVE  \/ \E a \in DOMAIN upstream :
                            upstream[a] = segments[packets[i].segment_id]
                      \/ upc = "ship" /\ seg.id = packets[i].segment_id
    BY DEF UploadedMeansShipped
  <2>1. packets[i].segment_id \in DOMAIN segments
    BY DEF DaemonInv, TablesInv, Consistent, Marked
  <2> QED BY <2>1 DEF EachShipped
<1> QED BY <1>1, <1>2, <1>3, DaemonInvariant, PTL DEF DaemonSpec

-----------------------------------------------------------------------------
\* The uploader's marks change no link.
LEMMA FlushKeepsLinks ==
    ASSUME TablesInv, FlushMemory, flush
    PROVE  Links' = Links
<1>1. RecordSegment \/ UNCHANGED bufferVars
  BY DEF flush, ReadPending, ReadHashes, FlushFails, Ship, ShipFails
<1>2. CASE RecordSegment
  BY <1>2, RecordEffect DEF Links, SameLink
<1>3. CASE UNCHANGED bufferVars
  BY <1>3 DEF bufferVars, Links
<1> QED BY <1>1, <1>2, <1>3

\* A power failure takes links from the ends of the sessions only.
LEMMA PowerLosesTails ==
    ASSUME DaemonInv, PowerFails
    PROVE  HC!LoseTails
<1>1. InitialPart(packets', packets) /\ DaemonInv'
  BY PowerStep
<1>2. packets \in Seq(PacketRows) /\ packets' \in Seq(PacketRows)
  BY <1>1 DEF DaemonInv, TablesInv, ChainInv, TypeOK, BufferTypeOK
<1> DEFINE link(P, i) == [session |-> P[i].session_id, seq |-> P[i].seq,
                          prev |-> P[i].prev_packet_blake3, hash |-> P[i].packet_blake3]
<1>3. /\ Links = {link(packets, i) : i \in DOMAIN packets}
      /\ Links' = {link(packets', i) : i \in DOMAIN packets'}
  BY DEF Links
<1>4. \A i \in DOMAIN packets' : i \in DOMAIN packets /\ link(packets', i) = link(packets, i)
  BY <1>1 DEF InitialPart, SameLink
<1>5. ASSUME NEW i \in DOMAIN packets', NEW j \in DOMAIN packets,
             packets[j].session_id = packets[i].session_id, packets[j].seq < packets[i].seq
      PROVE  j \in DOMAIN packets'
  <2>1. i \in DOMAIN packets /\ i \in Nat /\ j \in Nat
    BY <1>1, <1>2 DEF InitialPart
  <2>2. packets[i].seq \in Nat /\ packets[j].seq \in Nat
    BY <1>2, <2>1, ColumnTypes
  <2>3. ~(i < j) /\ i # j
    BY <1>5, <2>1, <2>2 DEF DaemonInv, TablesInv, RowsOrdered
  <2> QED BY <1>2, <2>1, <2>3
<1>6. \A i, j \in DOMAIN packets :
         /\ link(packets, i).session = packets[i].session_id
         /\ link(packets, i).seq = packets[i].seq
  OBVIOUS
<1> HIDE DEF link
<1>7. Links' \subseteq Links
  BY <1>3, <1>4
<1>8. ASSUME NEW kept \in Links', NEW l \in Links, l.session = kept.session,
             l.seq < kept.seq
      PROVE  l \in Links'
  <2>1. PICK i \in DOMAIN packets' : kept = link(packets, i) /\ i \in DOMAIN packets
    BY <1>3, <1>4
  <2>2. PICK j \in DOMAIN packets : l = link(packets, j)
    BY <1>3
  <2>3. j \in DOMAIN packets'
    BY <1>5, <1>6, <1>8, <2>1, <2>2
  <2> QED BY <1>3, <1>4, <2>2, <2>3
<1> QED BY <1>7, <1>8 DEF HC!LoseTails

\* The daemon implements the abstract chain that may lose its ends: a step adds
\* the next link of one session, takes links from the ends of sessions (when the
\* power fails), or changes none.
THEOREM RefinesLossyChain == DaemonSpec => ImplementsLossyChain
<1>1. DaemonInit => HC!ChainInit
  <2> SUFFICES ASSUME DaemonInit PROVE HC!ChainInit
    OBVIOUS
  <2>1. packets = <<>>
    BY DEF DaemonInit, PacketizerInit, BufferInit
  <2> QED BY <2>1 DEF Links, HC!ChainInit
<1>2. DaemonInv /\ [DaemonNext]_daemonVars => [HC!ChainNext \/ HC!LoseTails]_Links
  <2> SUFFICES ASSUME DaemonInv, [DaemonNext]_daemonVars
               PROVE  HC!ChainNext \/ HC!LoseTails \/ Links' = Links
    OBVIOUS
  <2>1. TablesInv /\ FlushInv /\ ChainInv
    BY DEF DaemonInv, TablesInv
  <2>2. CASE PacketizerStep \/ DaemonStops \/ DaemonStarts \/ UNCHANGED daemonVars
    <3>1. [PacketizerNext]_packetizerVars
      BY <2>2 DEF PacketizerStep, DaemonStops, DaemonStarts, PacketizerNext, daemonVars
    <3> QED BY <2>1, <3>1, StepLinks
  <2>3. CASE UploaderStep
    BY <2>1, <2>3, FlushKeepsLinks DEF UploaderStep, FlushInv
  <2>4. CASE PowerFails
    BY <2>4, PowerLosesTails
  <2> QED BY <2>2, <2>3, <2>4 DEF DaemonNext
<1> QED BY <1>1, <1>2, DaemonInvariant, PTL
        DEF DaemonSpec, ImplementsLossyChain, HC!LossyChainSpec
=============================================================================
