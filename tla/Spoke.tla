------------------------------- MODULE Spoke -------------------------------
(***************************************************************************)
(* The Python spoke (python/src/axm_sfn) beside the daemon: the function   *)
(* compile_session reads a session from the trust buffer and seals it.     *)
(*                                                                         *)
(* load_session has a SELECT for each table and no transaction around      *)
(* them, so each is a step of its own and the packetizer writes between    *)
(* any two.  What follows works on the loaded data only and is one step:   *)
(*                                                                         *)
(*   idle --packets--> faults --> quotes --> keys --> build --> sealed     *)
(*             |                                        |                  *)
(*             v                                        v                  *)
(*         loadRaised                                raised                *)
(*                                                                         *)
(* A shard is the record stream (cam_latents.bin), the faults of the       *)
(* journal, and the packets@1 and tpm-attestation@1 tables with the files  *)
(* they index.  Verdicts, counts and the text of the journal are left out. *)
(***************************************************************************)
EXTENDS Packetizer, SequencesExt

CONSTANTS
    LoadMayFail,       \* the SELECTs whose errors load_session passes over
    MaxShards          \* bound: shards sealed

ASSUME SpokeAssumption == LoadMayFail \subseteq {"quotes", "keys"} /\ MaxShards \in Nat

VARIABLES
    attestation_keys,  \* the roles of the keys in the attestation_keys table
    at,                \* where compile_session is
    sd,                \* its SessionData
    shards             \* the sealed shards, in order

spokeVars == <<packetizerVars, attestation_keys, at, sd, shards>>

NoData == [session_id |-> 0, packets |-> <<>>, faults |-> <<>>, quotes |-> <<>>,
           keys |-> {}]

\* runDaemon stores the keys of the TPM it opened before the packetizer starts
\* (module Startup); of each role the last one is meant.
NodeKeys(opened) == IF opened THEN {"sign_pub", "ak_pub"} ELSE {}

SpokeInit ==
    /\ PacketizerInit
    /\ attestation_keys = NodeKeys(tpm)
    /\ at = "idle" /\ sd = NoData /\ shards = <<>>

-----------------------------------------------------------------------------
\* load_session

\* The rows of a table with these ids, in the order of seq and, among equals, of id.
InOrder(table, ids) ==
    LET order == CHOOSE p \in [1 .. Cardinality(ids) -> ids] :
                    \A k, l \in DOMAIN p : k < l =>
                        \/ table[p[k]].seq < table[p[l]].seq
                        \/ table[p[k]].seq = table[p[l]].seq /\ p[k] < p[l]
    IN  [k \in DOMAIN order |-> table[order[k]]]

\* Bug: the WHERE clause is missing.
Bug_WhereAnySession(table, sid) == InOrder(table, DOMAIN table)

\* SELECT ... WHERE session_id = ? ORDER BY seq ASC
Select(table, sid) == InOrder(table, {i \in DOMAIN table : table[i].session_id = sid})

\* SetTPMSig stores the bytes of the signature and _hex_to_bytes expects text:
\* bytes.fromhex raises on every signature.
_hex_to_bytesRaises(row) == row.tpm_sig # Nil

LoadPackets(sid) ==
    LET rows == Select(packets, sid)
    IN  /\ at \in {"idle", "loadRaised", "raised"} /\ Len(shards) < MaxShards
        /\ sd' = [NoData EXCEPT !.session_id = sid, !.packets = rows]
        /\ at' = IF rows = <<>> \/ \E k \in DOMAIN rows : _hex_to_bytesRaises(rows[k])
                 THEN "loadRaised" ELSE "faults"
        /\ UNCHANGED shards

LoadFaults ==
    /\ at = "faults"
    /\ sd' = [sd EXCEPT !.faults = Select(faults, sd.session_id)]
    /\ at' = "quotes"
    /\ UNCHANGED shards

\* Bug: the packets are read when the faults have been, not before.
Bug_PacketsAfterFaults ==
    /\ at = "quotes"
    /\ sd' = [sd EXCEPT !.quotes = Select(quotes, sd.session_id),
                        !.packets = Select(packets, sd.session_id)]
    /\ at' = "keys"
    /\ UNCHANGED shards

\* An OperationalError, meant for a buffer without the table but raised for a
\* locked or unreadable one too, is caught: there are no quotes.
_load_quotes ==
    /\ at = "quotes"
    /\ \/ sd' = [sd EXCEPT !.quotes = Select(quotes, sd.session_id)]
       \/ "quotes" \in LoadMayFail /\ UNCHANGED sd
    /\ at' = "keys"
    /\ UNCHANGED shards

\* The same for the keys.
_load_attestation_keys ==
    /\ at = "keys"
    /\ \/ sd' = [sd EXCEPT !.keys = attestation_keys]
       \/ "keys" \in LoadMayFail /\ UNCHANGED sd
    /\ at' = "build"
    /\ UNCHANGED shards

-----------------------------------------------------------------------------
\* The shard.

FILE_HEADER_LEN == 4
LATENT_REC_LEN == 269

\* The AXLR record of a packet: its payload, and the frame_id of its header.
_pack_payload(packet, keys) ==
    [frame_id |-> packet.seq, packet_blake3 |-> packet.packet_blake3,
     packet_sha256 |-> packet.packet_sha256, tpm_present |-> packet.tpm_sig # Nil,
     sign_key_fp |-> packet.tpm_sig # Nil /\ "sign_pub" \in keys]

build_axlf_stream(pkts, keys) ==
    [k \in DOMAIN pkts |-> _pack_payload(pkts[k], keys)]

build_streams_rows(pkts) ==
    [k \in DOMAIN pkts |->
        [frame_id |-> pkts[k].seq, offset |-> FILE_HEADER_LEN + (k - 1) * LATENT_REC_LEN,
         content_hash |-> pkts[k].packet_blake3]]

\* Bug: the offset is taken when the blob has been extended.
Bug_OffsetAfterExtend(parts, k) == Len(FlattenSeq(SubSeq(parts, 1, k)))

\* len(blob) before the k-th of its parts is added.
Offset(parts, k) == Len(FlattenSeq(SubSeq(parts, 1, k - 1)))

\* The canonical bytes, and the index into them.
build_packets(pkts) ==
    LET parts == [k \in DOMAIN pkts |-> pkts[k].telemetry_json]
    IN  [blob |-> FlattenSeq(parts),
         rows |-> [k \in DOMAIN pkts |->
                     [seq |-> pkts[k].seq, offset |-> Offset(parts, k),
                      length |-> Len(parts[k]), packet_sha256 |-> Sha256(parts[k])]]]

\* What build_packets refuses to seal.
HashMismatch(packet) == Sha256(packet.telemetry_json) # packet.packet_sha256

\* The calls of _put, in their order: those for the signatures of packets, three
\* for each quote, and those for the keys.  The attest blob holds the nonce.
Evidence(data) ==
    LET signed == [k \in DOMAIN data.packets |->
                    LET p == data.packets[k] IN
                    IF p.tpm_sig = Nil THEN <<>>
                    ELSE <<[kind |-> "packet_sig", seq |-> p.seq,
                            field |-> "signature", data |-> p.tpm_sig]>>]
        quoted == [k \in DOMAIN data.quotes |->
                    LET q == data.quotes[k] IN
                    <<[kind |-> "quote", seq |-> q.seq, field |-> "signature",
                       data |-> <<2>> \o q.nonce],
                      [kind |-> "quote", seq |-> q.seq, field |-> "attest",
                       data |-> <<1>> \o q.nonce],
                      [kind |-> "quote", seq |-> q.seq, field |-> "nonce",
                       data |-> q.nonce]>>]
        roles == SetToSeq(data.keys)
        keys == [k \in DOMAIN roles |->
                    [kind |-> roles[k], seq |-> 0, field |-> "public", data |-> <<3>>]]
    IN  FlattenSeq(signed) \o FlattenSeq(quoted) \o keys

build_tpm_attestation(data) ==
    LET puts == Evidence(data)
        parts == [k \in DOMAIN puts |-> puts[k].data]
    IN  [blob |-> FlattenSeq(parts),
         rows |-> [k \in DOMAIN puts |->
                     [kind |-> puts[k].kind, seq |-> puts[k].seq,
                      field |-> puts[k].field, offset |-> Offset(parts, k),
                      length |-> Len(parts[k])]]]

\* What compile_session hands to the kernel.
Shard(data) ==
    [session_id |-> data.session_id,
     stream |-> build_axlf_stream(data.packets, data.keys),
     locators |-> build_streams_rows(data.packets),
     faults |-> data.faults,
     packets |-> build_packets(data.packets),
     attestation |-> build_tpm_attestation(data)]

\* build_packets raises on a packet whose bytes do not have its hash.
Seal ==
    /\ at = "build"
    /\ IF \E k \in DOMAIN sd.packets : HashMismatch(sd.packets[k])
       THEN at' = "raised" /\ UNCHANGED <<sd, shards>>
       ELSE /\ shards' = Append(shards, Shard(sd))
            /\ at' = "idle" /\ sd' = NoData

\* The kernel does not verify what it compiled, or compile_session is stopped.
\* It can be run again: it overwrites what it left in its work directory.
SealFails ==
    /\ at \in {"faults", "quotes", "keys", "build"}
    /\ at' = "raised"
    /\ UNCHANGED <<sd, shards>>

compile_session ==
    \/ \E sid \in 1 .. MaxSessions : LoadPackets(sid)
    \/ LoadFaults
    \/ _load_quotes
    \/ _load_attestation_keys
    \/ Seal
    \/ SealFails

\* The daemon does not know of its reader, and the reader writes nothing.
DaemonStep ==
    /\ PacketizerNext
    /\ attestation_keys' = attestation_keys \cup NodeKeys(tpm')
    /\ UNCHANGED <<at, sd, shards>>

SpokeStep == compile_session /\ UNCHANGED <<packetizerVars, attestation_keys>>

SpokeNext == DaemonStep \/ SpokeStep

SpokeSpec == SpokeInit /\ [][SpokeNext]_spokeVars

-----------------------------------------------------------------------------
\* Properties: what holds of a sealed shard from then on.

\* The shard is a prefix of the session as the buffer has it, now and ever after:
\* the record at the place that STREAM_FORMAT.md's "offset(fid) = 4 + fid * 269"
\* computes is the packet with that number, without a gap, although the session
\* was read while it grew.
ShardIsPrefix ==
    \A n \in DOMAIN shards : \A k \in DOMAIN shards[n].stream :
        LET record == shards[n].stream[k] IN
        /\ record.frame_id = k - 1
        /\ shards[n].locators[k].frame_id = k - 1
        /\ shards[n].locators[k].offset = 4 + record.frame_id * 269
        /\ \E i \in DOMAIN packets : /\ packets[i].session_id = shards[n].session_id
                                     /\ packets[i].seq = record.frame_id
                                     /\ packets[i].packet_blake3 = record.packet_blake3

SealedSeqs(shard) == {shard.stream[k].frame_id : k \in DOMAIN shard.stream}

QuoteRowsOf(shard) ==
    {k \in DOMAIN shard.attestation.rows : shard.attestation.rows[k].kind = "quote"}

\* No fault and no quote that belongs to a sealed packet is missing from the
\* shard, also none that is yet to be written: load_session reads them after the
\* packets, and the packetizer writes them before.  Where an error of the SELECT
\* is passed over, all quotes may be missing, but never some of them.
ShardComplete ==
    \A n \in DOMAIN shards :
        LET shard == shards[n] IN
        /\ \A f \in DOMAIN faults :
              (faults[f].session_id = shard.session_id /\ faults[f].seq \in SealedSeqs(shard))
                 => \E k \in DOMAIN shard.faults : shard.faults[k].seq = faults[f].seq
        /\ \/ "quotes" \in LoadMayFail /\ QuoteRowsOf(shard) = {}
           \/ \A q \in DOMAIN quotes :
                (quotes[q].session_id = shard.session_id /\ quotes[q].seq \in SealedSeqs(shard))
                   => \E k \in QuoteRowsOf(shard) :
                         shard.attestation.rows[k].seq = quotes[q].seq

\* The bytes that a row of an index locates, as far as the file has them.
Slice(table, k) ==
    SubSeq(table.blob, table.rows[k].offset + 1,
           Min({Len(table.blob), table.rows[k].offset + table.rows[k].length}))

\* STREAM_FORMAT.md, rule 1: the slice of packets.bin that packets@1 locates for a
\* record hashes to the record's packet_sha256.
SlicesHash ==
    \A n \in DOMAIN shards : \A k \in DOMAIN shards[n].stream :
        \E r \in DOMAIN shards[n].packets.rows :
            /\ shards[n].packets.rows[r].seq = shards[n].stream[k].frame_id
            /\ Sha256(Slice(shards[n].packets, r)) = shards[n].stream[k].packet_sha256

PrevInShard(shard, seq) == IF seq = 0 THEN Nil ELSE shard.stream[seq].packet_blake3

\* The slices of the evidence of a kind for a packet.
SealedEvidence(shard, kind, field, seq) ==
    {Slice(shard.attestation, r) : r \in
        {r \in DOMAIN shard.attestation.rows : /\ shard.attestation.rows[r].kind = kind
                                               /\ shard.attestation.rows[r].field = field
                                               /\ shard.attestation.rows[r].seq = seq}}

\* STREAM_FORMAT.md, rule 3, and its last paragraph, for a node that never opened a
\* TPM: the whole chain, the last packet included, is recomputed from the shard
\* alone with no signature at all, and the shard has no tpm-attestation@1 rows.
SoftwareChainFromShard ==
    attestation_keys = {} =>
        \A n \in DOMAIN shards :
            LET shard == shards[n] IN
            /\ shard.attestation.rows = <<>>
            /\ \A k \in DOMAIN shard.stream :
                  shard.stream[k].packet_blake3 =
                      computePacketBLAKE3(k - 1, shard.session_id, Slice(shard.packets, k),
                                          Nil, PrevInShard(shard, k - 1))

\* STREAM_FORMAT.md, rule 4, for a verifier who has the session's nonce: a sealed
\* quote at the number of a sealed packet is bound to that packet.
SealedQuotesBind ==
    \A n \in DOMAIN shards : \A seq \in SealedSeqs(shards[n]) :
        \A nonce \in SealedEvidence(shards[n], "quote", "nonce", seq) :
            nonce = DeriveQuoteNonce(shards[n].session_id,
                                     shards[n].stream[seq + 1].packet_sha256,
                                     PrevInShard(shards[n], seq), seq)

\* What load_session's comment says: it "raises ValueError if no packets exist",
\* and so a session that has packets is loaded.
LoadRaisesOnlyIfEmpty == at = "loadRaised" => sd.packets = <<>>
=============================================================================
