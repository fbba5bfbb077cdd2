----------------------------- MODULE HotBuffer -----------------------------
(***************************************************************************)
(* The trust buffer (internal/hotbuffer): an SQLite database with one      *)
(* table per variable below.  A table is the sequence of its rows and the  *)
(* INTEGER PRIMARY KEY AUTOINCREMENT id of a row is its index: no          *)
(* statement of the code ever deletes a row.                               *)
(*                                                                         *)
(* Each operator is one method of Buffer, as an action on the tables it    *)
(* writes (its success); that a call can fail, and what its caller then    *)
(* does, is said where it is called.  A write is one SQLite transaction.   *)
(*                                                                         *)
(* Byte strings are sequences of numbers and SQL NULL, like Go's nil       *)
(* slice, is the empty one; a NULL reference is 0, which is no row's id.   *)
(***************************************************************************)
EXTENDS Integers, Sequences, FiniteSets

VARIABLES packets, quotes, segments, faults

bufferVars == <<packets, quotes, segments, faults>>

Bytes == Seq(Nat)
Nil == <<>>

PacketRows ==
    [session_id : Nat, seq : Nat, tick_utc : Nat, telemetry_json : Bytes,
     prev_packet_blake3 : Bytes, packet_sha256 : Bytes, packet_blake3 : Bytes,
     tpm_sig : Bytes, quote_ref : Nat,
     upload_state : {"pending", "uploaded"}, segment_id : Nat]

QuoteRows == [session_id : Nat, seq : Nat, nonce : Bytes]

FaultRows == [session_id : Nat, seq : Nat]

SegmentRows ==
    [session_id : Nat, seq_start : Nat, seq_end : Nat, packet_count : Nat,
     merkle_root : Bytes]

BufferInit ==
    /\ packets = <<>>
    /\ quotes = <<>>
    /\ segments = <<>>
    /\ faults = <<>>

BufferTypeOK ==
    /\ packets \in Seq(PacketRows)
    /\ quotes \in Seq(QuoteRows)
    /\ segments \in Seq(SegmentRows)
    /\ faults \in Seq(FaultRows)

-----------------------------------------------------------------------------
\* The schema's UNIQUE (session_id, seq): an insert of a second such row fails.
Duplicate(sid, seq) ==
    \E i \in DOMAIN packets : /\ packets[i].session_id = sid
                              /\ packets[i].seq = seq

\* Bug: the INSERT does not name prev_packet_blake3, so the column stays NULL.
Bug_InsertWithoutPrev(sid, seq, tick, json, prev, sha, b3) ==
    /\ ~Duplicate(sid, seq)
    /\ packets' = Append(packets,
         [session_id |-> sid, seq |-> seq, tick_utc |-> tick,
          telemetry_json |-> json, prev_packet_blake3 |-> Nil,
          packet_sha256 |-> sha, packet_blake3 |-> b3,
          tpm_sig |-> Nil, quote_ref |-> 0,
          upload_state |-> "pending", segment_id |-> 0])

\* The columns the INSERT does not name take their defaults.
WritePacket(sid, seq, tick, json, prev, sha, b3) ==
    /\ ~Duplicate(sid, seq)
    /\ packets' = Append(packets,
         [session_id |-> sid, seq |-> seq, tick_utc |-> tick,
          telemetry_json |-> json, prev_packet_blake3 |-> prev,
          packet_sha256 |-> sha, packet_blake3 |-> b3,
          tpm_sig |-> Nil, quote_ref |-> 0,
          upload_state |-> "pending", segment_id |-> 0])

\* quote_ref REFERENCES quotes(id), and foreign_keys is ON: the UPDATE fails
\* when there is no such quote.  0 is not NULL to SQLite, so it fails too.
QuoteExists(quoteRef) == quoteRef \in DOMAIN quotes

\* Bug: the UPDATE has no WHERE clause.
Bug_SetSigEveryRow(rowID, tpmSig, quoteRef) ==
    /\ QuoteExists(quoteRef)
    /\ packets' = [i \in DOMAIN packets |->
                      [packets[i] EXCEPT !.tpm_sig = tpmSig, !.quote_ref = quoteRef]]

SetTPMSig(rowID, tpmSig, quoteRef) ==
    /\ QuoteExists(quoteRef)
    /\ packets' = [i \in DOMAIN packets |->
                      IF i = rowID
                      THEN [packets[i] EXCEPT !.tpm_sig = tpmSig, !.quote_ref = quoteRef]
                      ELSE packets[i]]

RecordProvenanceFault(sid, seq) ==
    faults' = Append(faults, [session_id |-> sid, seq |-> seq])

\* Bug: the quote is filed under the next packet.
Bug_QuoteAtNextSeq(sid, seq, nonce) ==
    quotes' = Append(quotes, [session_id |-> sid, seq |-> seq + 1, nonce |-> nonce])

\* The id WriteQuote returns is Len(quotes').
WriteQuote(sid, seq, nonce) ==
    quotes' = Append(quotes, [session_id |-> sid, seq |-> seq, nonce |-> nonce])

-----------------------------------------------------------------------------
\* The pending rows of a session.
Pending(sid) ==
    {i \in DOMAIN packets : /\ packets[i].session_id = sid
                            /\ packets[i].upload_state = "pending"}

OldestSeq(rows) ==
    CHOOSE s \in {packets[i].seq : i \in rows} :
        \A i \in rows : s <= packets[i].seq

\* Bug: the newest pending row is taken on its own, whatever precedes it.
Bug_PendingNewest(sid, maxBatch) ==
    {i \in Pending(sid) : \A j \in Pending(sid) : packets[j].seq <= packets[i].seq}

\* Bug: sequence numbers are returned in place of row ids.
Bug_PendingSeqs(sid, maxBatch) == {packets[i].seq : i \in Pending(sid)}

\* The oldest maxBatch pending rows of the session, cut at the first gap.  The
\* code gets them as a list ordered by seq; the order is in the rows.
PendingRange(sid, maxBatch) ==
    LET rows == Pending(sid)
        oldest == OldestSeq(rows)
    IN  {i \in rows :
            /\ packets[i].seq < oldest + maxBatch
            /\ \A s \in oldest .. packets[i].seq : \E j \in rows : packets[j].seq = s}

\* Bug: the hashes come newest first.
Bug_HashesNewestFirst(rows) ==
    [k \in 1 .. Cardinality(rows) |->
        LET i == CHOOSE j \in rows :
                    packets[j].seq = OldestSeq(rows) + Cardinality(rows) - k
        IN  packets[i].packet_blake3]

\* The hashes of the given rows of one session, in the order of their seq.
PacketHashes(rows) ==
    [k \in 1 .. Cardinality(rows) |->
        LET i == CHOOSE j \in rows : packets[j].seq = OldestSeq(rows) + k - 1
        IN  packets[i].packet_blake3]

\* Bug: the rows get their segment but stay pending.
Bug_SegmentKeepsPending(sid, seqStart, seqEnd, root, rows) ==
    /\ segments' = Append(segments,
         [session_id |-> sid, seq_start |-> seqStart, seq_end |-> seqEnd,
          packet_count |-> Cardinality(rows), merkle_root |-> root])
    /\ packets' = [i \in DOMAIN packets |->
                      IF i \in rows
                      THEN [packets[i] EXCEPT !.segment_id = Len(segments) + 1]
                      ELSE packets[i]]

\* Bug: the rows are replaced, with the columns the uploader knows.
Bug_SegmentReplacesRows(sid, seqStart, seqEnd, root, rows) ==
    /\ segments' = Append(segments,
         [session_id |-> sid, seq_start |-> seqStart, seq_end |-> seqEnd,
          packet_count |-> Cardinality(rows), merkle_root |-> root])
    /\ packets' = [i \in DOMAIN packets |->
                      IF i \in rows
                      THEN [packets[i] EXCEPT !.upload_state = "uploaded", !.tpm_sig = Nil,
                                              !.segment_id = Len(segments) + 1]
                      ELSE packets[i]]

\* One transaction: the segment and the mark on its packets.
WriteSegment(sid, seqStart, seqEnd, root, rows) ==
    /\ segments' = Append(segments,
         [session_id |-> sid, seq_start |-> seqStart, seq_end |-> seqEnd,
          packet_count |-> Cardinality(rows), merkle_root |-> root])
    /\ packets' = [i \in DOMAIN packets |->
                      IF i \in rows
                      THEN [packets[i] EXCEPT !.upload_state = "uploaded",
                                              !.segment_id = Len(segments) + 1]
                      ELSE packets[i]]
=============================================================================
