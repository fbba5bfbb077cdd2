------------------------------ MODULE Uploader ------------------------------
(***************************************************************************)
(* The uploader goroutine (internal/uploader/uploader.go) over the trust   *)
(* buffer.  Each time its ticker fires it runs flush: read the pending     *)
(* rows, read their hashes, record the segment, ship it.  The packetizer   *)
(* writes to the same database between any two of these steps.             *)
(*                                                                         *)
(*   poll --ReadPending--> hash --ReadHashes--> record --Record--> ship    *)
(*    ^                                                              |     *)
(*    +--------------------------------------------------------------+     *)
(***************************************************************************)
EXTENDS HotBuffer, Merkle

CONSTANTS
    UploadSession,  \* the sessionID that Run is called with
    BatchSize,      \* cfg.Uploader.BatchSize
    UploadMayFail   \* the calls of flush that may fail

UploadFailures == {"read", "record", "post"}

ASSUME UploadAssumption == /\ UploadSession \in Nat
                           /\ BatchSize \in Nat
                           /\ UploadMayFail \subseteq UploadFailures

VARIABLES
    upc,        \* where the goroutine is
    seg,        \* the locals of flush: the rows, their hashes, the segment's id
    upstream    \* external: the payloads the endpoint received, in order

uploaderVars == <<upc, seg, upstream>>

Flushes == [rows : SUBSET Nat, hashes : Seq(Bytes), id : Nat]
NoFlush == [rows |-> {}, hashes |-> <<>>, id |-> 0]

UploaderInit == upc = "poll" /\ seg = NoFlush /\ upstream = <<>>

-----------------------------------------------------------------------------
\* Bug: flush waits until a batch is full.
Bug_FullBatchesOnly ==
    /\ upc = "poll"
    /\ Cardinality(Pending(UploadSession)) >= BatchSize
    /\ seg' = [NoFlush EXCEPT !.rows = PendingRange(UploadSession, BatchSize)]
    /\ upc' = "hash"
    /\ UNCHANGED <<bufferVars, upstream>>

\* With nothing pending, or a batch size of 0 (LIMIT 0, what a configuration file
\* without one gives), flush returns and the goroutine waits for the next tick.
\* PendingRange does not look at rows.Err(): a read that breaks off half way
\* looks like one of fewer rows.
ReadPending ==
    /\ upc = "poll"
    /\ Pending(UploadSession) # {}
    /\ \E n \in 1 .. BatchSize :
          /\ n = BatchSize \/ "read" \in UploadMayFail
          /\ seg' = [NoFlush EXCEPT !.rows = PendingRange(UploadSession, n)]
    /\ upc' = "hash"
    /\ UNCHANGED <<bufferVars, upstream>>

ReadHashes ==
    /\ upc = "hash"
    /\ seg' = [seg EXCEPT !.hashes = PacketHashes(seg.rows)]
    /\ upc' = "record"
    /\ UNCHANGED <<bufferVars, upstream>>

\* Bug: the first segment is shipped, whichever was recorded.
Bug_ShipsFirstSegment ==
    LET start == OldestSeq(seg.rows)
    IN  /\ upc = "record"
        /\ WriteSegment(UploadSession, start, start + Cardinality(seg.rows) - 1,
                        localSegmentRoot(seg.hashes), seg.rows)
        /\ seg' = [NoFlush EXCEPT !.id = 1]
        /\ upc' = "ship"
        /\ UNCHANGED <<quotes, faults, upstream>>

\* seqStart and seqEnd are those PendingRange returned with the rows.
RecordSegment ==
    LET start == OldestSeq(seg.rows)
    IN  /\ upc = "record"
        /\ WriteSegment(UploadSession, start, start + Cardinality(seg.rows) - 1,
                        localSegmentRoot(seg.hashes), seg.rows)
        /\ seg' = [NoFlush EXCEPT !.id = Len(segments) + 1]
        /\ upc' = "ship"
        /\ UNCHANGED <<quotes, faults, upstream>>

\* A database error ends the flush; nothing was changed, all is read again.
FlushFails ==
    /\ \/ upc = "hash" /\ "read" \in UploadMayFail
       \/ upc = "record" /\ "record" \in UploadMayFail
    /\ seg' = NoFlush
    /\ upc' = "poll"
    /\ UNCHANGED <<bufferVars, upstream>>

\* What is shipped: the payload has the columns of the row WriteSegment wrote.
Payload == segments[seg.id]

\* The POST is answered below 300, or no endpoint is configured.
Ship ==
    /\ upc = "ship"
    /\ upstream' = Append(upstream, Payload)
    /\ seg' = NoFlush
    /\ upc' = "poll"
    /\ UNCHANGED bufferVars

\* Bug: a failed POST is repeated although it may have arrived.
Bug_BlindRetry ==
    /\ upc = "ship" /\ "post" \in UploadMayFail
    /\ upstream' \in {upstream, Append(upstream, Payload)}
    /\ Len(upstream') <= Len(segments) + 1
    /\ UNCHANGED <<bufferVars, seg, upc>>

\* The POST fails: on its way, or, with the segment received, on its way back.
\* Run logs the error.
ShipFails ==
    /\ upc = "ship" /\ "post" \in UploadMayFail
    /\ upstream' \in {upstream, Append(upstream, Payload)}
    /\ seg' = NoFlush
    /\ upc' = "poll"
    /\ UNCHANGED bufferVars

\* The process dies; a request under way may still reach the endpoint.
UploaderStops ==
    /\ upc' = "poll" /\ seg' = NoFlush
    /\ \/ UNCHANGED upstream
       \/ upc = "ship" /\ upstream' = Append(upstream, Payload)

flush ==
    \/ ReadPending
    \/ ReadHashes
    \/ RecordSegment
    \/ FlushFails
    \/ Ship
    \/ ShipFails

-----------------------------------------------------------------------------
\* Properties.

\* The locals of flush have their types; in particular the rows flush works on
\* are row ids of the packets table.
UploaderTypeOK ==
    /\ upc \in {"poll", "hash", "record", "ship"}
    /\ seg.rows \subseteq DOMAIN packets
    /\ seg \in [rows : {seg.rows}, hashes : Seq(Bytes), id : Nat]
    /\ upstream \in Seq(SegmentRows)

Covers(s, i) == /\ packets[i].session_id = segments[s].session_id
                /\ packets[i].seq \in segments[s].seq_start .. segments[s].seq_end

\* The segments of a session tile its packets: each begins where the one before
\* it ended, the first at 0, and none overlaps another, although flush picks
\* its rows several steps before it marks them, while packets keep arriving and
\* the daemon may die in between.
SegmentsTile ==
    \A s \in DOMAIN segments :
        /\ segments[s].packet_count = segments[s].seq_end - segments[s].seq_start + 1
        /\ \/ segments[s].seq_start = 0
           \/ \E t \in 1 .. s - 1 : /\ segments[t].session_id = segments[s].session_id
                                    /\ segments[t].seq_end + 1 = segments[s].seq_start
        /\ \A t \in DOMAIN segments :
             (t # s /\ segments[t].session_id = segments[s].session_id) =>
                \/ segments[t].seq_end < segments[s].seq_start
                \/ segments[s].seq_end < segments[t].seq_start

\* A packet is marked as uploaded exactly when one segment covers it, and its
\* segment_id is that segment.
UploadedIffCovered ==
    \A i \in DOMAIN packets :
        /\ packets[i].upload_state = "uploaded" <=>
              \E s \in DOMAIN segments : Covers(s, i)
        /\ \A s \in DOMAIN segments : Covers(s, i) <=> packets[i].segment_id = s

\* The packets at the positions a segment covers are stored.
AllStored(segment) ==
    \A n \in segment.seq_start .. segment.seq_end :
        \E i \in DOMAIN packets : /\ packets[i].session_id = segment.session_id
                                  /\ packets[i].seq = n

\* The stored hashes of the packets a segment covers, oldest first.
CoveredHashes(segment) ==
    [k \in 1 .. segment.packet_count |->
        (CHOOSE row \in {packets[i] : i \in DOMAIN packets} :
            /\ row.session_id = segment.session_id
            /\ row.seq = segment.seq_start + k - 1).packet_blake3]

\* The recorded root is the root of the packets the segment covers, as they are
\* stored: the hashes read earlier in flush were still the right ones.
RootCoversPackets ==
    \A s \in DOMAIN segments :
        segments[s].merkle_root = localSegmentRoot(CoveredHashes(segments[s]))

\* The recorded root is the tree hash that RFC 6962 defines from the top, by
\* splitting at a power of two, over the packets the segment covers ("RFC 6962:
\* promote odd leaf" in merkleReduce), full batch or not.
RootIsRFC6962 ==
    \A s \in DOMAIN segments :
        segments[s].merkle_root = MTH(CoveredHashes(segments[s]))

\* What the endpoint received is never contradicted by the buffer: as long as the
\* packets of a segment are stored they give the root that was shipped.  A
\* packet that was lost after it was shipped is not replaced by another with
\* the same session and number.
UpstreamAgrees ==
    \A a \in DOMAIN upstream :
        AllStored(upstream[a]) =>
            upstream[a].merkle_root = localSegmentRoot(CoveredHashes(upstream[a]))

\* No two payloads the endpoint receives overlap, and each is on record: flush
\* never ships again what it shipped.
ShippedOnce ==
    /\ \A a, b \in DOMAIN upstream :
          (a # b /\ upstream[a].session_id = upstream[b].session_id) =>
              \/ upstream[a].seq_end < upstream[b].seq_start
              \/ upstream[b].seq_end < upstream[a].seq_start
    /\ \A a \in DOMAIN upstream : \E s \in DOMAIN segments : segments[s] = upstream[a]

\* What is marked as uploaded has reached the endpoint, except for the segment
\* being shipped.
UploadedMeansShipped ==
    \A i \in DOMAIN packets :
        packets[i].upload_state = "uploaded" =>
            \/ \E a \in DOMAIN upstream : upstream[a] = segments[packets[i].segment_id]
            \/ upc = "ship" /\ seg.id = packets[i].segment_id
=============================================================================
