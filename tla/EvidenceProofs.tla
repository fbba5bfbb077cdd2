--------------------------- MODULE EvidenceProofs ---------------------------
(***************************************************************************)
(* Proofs about the evidence the buffer holds beyond the chain: that the   *)
(* signatures verify, that quotes are the packet's own, bind it and are    *)
(* fresh, that the chain can be recomputed, that no tick is missing and    *)
(* that silence is marked. They are about the whole daemon. Each rests on  *)
(* what the packetizer remembers between two calls of onTick, and is       *)
(* claimed for every state of the tables that a power failure may bring    *)
(* back as well.                                                           *)
(*                                                                         *)
(* Where a property needs a call to succeed the theorem says which.        *)
(***************************************************************************)
EXTENDS DaemonProofs

-----------------------------------------------------------------------------
\* The steps of the daemon, as far as the evidence is concerned.

\* The uploader marks rows: nothing else of the tables or the packetizer changes.
Marks ==
    /\ DOMAIN packets' = DOMAIN packets
    /\ \A i \in DOMAIN packets : OnlyMarks(packets'[i], packets[i])
    /\ UNCHANGED <<quotes, faults, loopVars, envVars>>

\* The power fails: the tables are those of a logged state and no session goes on.
Loses ==
    /\ \E T \in Snapshots : packets' = T.packets /\ quotes' = T.quotes
    /\ session' = NewSession(0) /\ pc' = "down" /\ pkt' = NoPacket
    /\ UNCHANGED <<tpm, started>>

\* Every step of the daemon is one of the custody loop, marks rows or loses some.
LEMMA EvidenceStep ==
    ASSUME DaemonInv, [DaemonNext]_daemonVars
    PROVE  [PacketizerNext]_packetizerVars \/ Marks \/ (PowerFails /\ Loses)
<1>1. CASE PacketizerStep \/ DaemonStops \/ DaemonStarts \/ UNCHANGED daemonVars
  BY <1>1 DEF PacketizerStep, DaemonStops, DaemonStarts, PacketizerNext, daemonVars
<1>2. CASE UploaderStep
  <2>1. flush /\ UNCHANGED <<loopVars, envVars>> /\ TablesInv /\ FlushMemory
    BY <1>2 DEF UploaderStep, DaemonInv, FlushInv
  <2>2. CASE RecordSegment
    BY <2>1, <2>2, RecordEffect DEF Marks, RecordSegment
  <2>3. CASE UNCHANGED bufferVars
    BY <2>1, <2>3 DEF Marks, bufferVars, OnlyMarks, SameLink
  <2> QED BY <2>1, <2>2, <2>3 DEF flush, ReadPending, ReadHashes, FlushFails, Ship, ShipFails
<1>3. CASE PowerFails
  BY <1>3 DEF PowerFails, Dies, Loses, Snapshots
<1> QED BY <1>1, <1>2, <1>3 DEF DaemonNext

\* The only state of the tables a step can add to the log is the present one.
LEMMA LogStep ==
    ASSUME DaemonInv, [DaemonNext]_daemonVars
    PROVE  \A T \in Snapshots' :
              T \in Snapshots \/ (T.packets = packets /\ T.quotes = quotes)
<1>1. CASE Commits
  <2>1. PICK T : T = Tables
    OBVIOUS
  <2>2. T.packets = packets /\ T.quotes = quotes /\ T \in TableStates
    BY <2>1 DEF Tables, TableStates, DaemonInv, TablesInv, ChainInv, TypeOK, BufferTypeOK
  <2>3. Snapshots' \subseteq Snapshots \cup {T}
    BY <1>1, <2>1, <2>2, CommitsLog DEF DaemonInv, PowerInv
  <2> QED BY <2>2, <2>3
<1>2. CASE UNCHANGED powerVars
  BY <1>2 DEF powerVars, Snapshots
<1>3. CASE PowerFails
  <2>1. unsynced' = <<>>
    BY <1>3 DEF PowerFails
  <2> QED BY <2>1 DEF Snapshots
<1> QED BY <1>1, <1>2, <1>3 DEF DaemonNext, PacketizerStep, UploaderStep, DaemonStops,
                                DaemonStarts, daemonVars

-----------------------------------------------------------------------------
\* Signatures and quotes, for every pattern of failures.

SigRows(P) ==
    \A i \in DOMAIN P : P[i].tpm_sig # Nil =>
        /\ P[i].tpm_sig = SignPacket(P[i].telemetry_json)
        /\ P[i].packet_blake3 =
             computePacketBLAKE3(P[i].seq, P[i].session_id, P[i].telemetry_json,
                                 P[i].tpm_sig, P[i].prev_packet_blake3)

OwnQuotes(P, Q) ==
    \A i \in DOMAIN P : P[i].quote_ref # 0 =>
        /\ P[i].quote_ref \in DOMAIN Q
        /\ Q[P[i].quote_ref].session_id = P[i].session_id
        /\ Q[P[i].quote_ref].seq <= P[i].seq

SignedInv == SigInv /\ \A T \in Snapshots : SigRows(T.packets)
QuotedInv == QuoteInv /\ \A T \in Snapshots : OwnQuotes(T.packets, T.quotes)

\* Every step of the daemon keeps stored signatures valid.
LEMMA StepSigned == DaemonInv /\ SignedInv /\ [DaemonNext]_daemonVars => SignedInv'
<1> SUFFICES ASSUME DaemonInv, SignedInv, [DaemonNext]_daemonVars PROVE SignedInv'
  OBVIOUS
<1>1. SigInv /\ SigRows(packets)
  BY DEF SignedInv, SigInv, StoredSigVerifies, SigRows
<1>2. ASSUME NEW T \in Snapshots' PROVE SigRows(T.packets)
  <2>1. CASE T \in Snapshots
    BY <2>1 DEF SignedInv
  <2>2. CASE T.packets = packets /\ T.quotes = quotes
    BY <1>1, <2>2
  <2> QED BY <2>1, <2>2, LogStep
<1>3. ASSUME [PacketizerNext]_packetizerVars PROVE SigInv'
  BY <1>1, <1>3, StepSig DEF DaemonInv, TablesInv
<1>4. ASSUME Marks PROVE SigInv'
  <2>1. StoredSigVerifies'
    BY <1>1, <1>4 DEF Marks, SigRows, StoredSigVerifies, OnlyMarks, SameLink
  <2>2. SigMemory'
    <3>1. UNCHANGED <<pc, pkt>>
      BY <1>4 DEF Marks, loopVars
    <3>2. pc = "setsig" => pkt.rowID \in DOMAIN packets
      BY DEF DaemonInv, TablesInv, ChainInv, ChainMemory
    <3> QED BY <1>1, <1>4, <3>1, <3>2 DEF Marks, SigInv, SigMemory, OnlyMarks, SameLink
  <2> QED BY <2>1, <2>2 DEF SigInv
<1>5. ASSUME Loses PROVE SigInv'
  <2>1. SigRows(packets')
    BY <1>5 DEF Loses, SignedInv
  <2>2. pc' # "setsig"
    BY <1>5 DEF Loses
  <2> QED BY <2>1, <2>2 DEF SigRows, SigInv, SigMemory, StoredSigVerifies
<1> QED BY <1>2, <1>3, <1>4, <1>5, EvidenceStep DEF SignedInv

\* Every stored signature verifies against the packet and its chain hash, with
\* the uploader at work on the same rows and commits lost with the power.
THEOREM DaemonSignaturesCorrect == DaemonSpec => []StoredSigVerifies
<1>1. DaemonInit => SignedInv
  <2> SUFFICES ASSUME DaemonInit PROVE SignedInv
    OBVIOUS
  <2>1. packets = <<>> /\ pc = "select" /\ unsynced = <<>>
    BY DEF DaemonInit, PacketizerInit, BufferInit
  <2> QED BY <2>1 DEF SignedInv, SigInv, SigMemory, StoredSigVerifies, Snapshots
<1>2. SignedInv => StoredSigVerifies
  BY DEF SignedInv, SigInv
<1> QED BY <1>1, <1>2, StepSigned, DaemonInvariant, PTL DEF DaemonSpec

\* Every step of the daemon keeps quote_ref pointing into the packet's session.
LEMMA StepQuoted == DaemonInv /\ QuotedInv /\ [DaemonNext]_daemonVars => QuotedInv'
<1> SUFFICES ASSUME DaemonInv, QuotedInv, [DaemonNext]_daemonVars PROVE QuotedInv'
  OBVIOUS
<1>1. QuoteInv /\ OwnQuotes(packets, quotes)
  BY DEF QuotedInv, QuoteInv, QuoteOfOwnSession, OwnQuotes
<1>2. ASSUME NEW T \in Snapshots' PROVE OwnQuotes(T.packets, T.quotes)
  <2>1. CASE T \in Snapshots
    BY <2>1 DEF QuotedInv
  <2>2. CASE T.packets = packets /\ T.quotes = quotes
    BY <1>1, <2>2
  <2> QED BY <2>1, <2>2, LogStep
<1>3. ASSUME [PacketizerNext]_packetizerVars PROVE QuoteInv'
  BY <1>1, <1>3, StepQuote DEF DaemonInv, TablesInv
<1>4. ASSUME Marks PROVE QuoteInv'
  <2>1. QuoteOfOwnSession'
    BY <1>1, <1>4 DEF Marks, OwnQuotes, QuoteOfOwnSession, OnlyMarks, SameLink
  <2>2. QuoteMemory'
    BY <1>1, <1>4 DEF Marks, loopVars, QuoteInv, QuoteMemory
  <2> QED BY <2>1, <2>2 DEF QuoteInv
<1>5. ASSUME Loses PROVE QuoteInv'
  <2>1. OwnQuotes(packets', quotes')
    BY <1>5 DEF Loses, QuotedInv
  <2>2. session'.lastQuoteID = 0
    BY <1>5 DEF Loses, NewSession
  <2> QED BY <2>1, <2>2 DEF OwnQuotes, QuoteInv, QuoteMemory, QuoteOfOwnSession
<1> QED BY <1>2, <1>3, <1>4, <1>5, EvidenceStep DEF QuotedInv

\* A packet refers to a quote of its own session, at or before it, whatever the
\* power takes back: a packet never survives the quote it refers to.
THEOREM DaemonQuotesCorrect == DaemonSpec => []QuoteOfOwnSession
<1>1. DaemonInit => QuotedInv
  <2> SUFFICES ASSUME DaemonInit PROVE QuotedInv
    OBVIOUS
  <2>1. packets = <<>> /\ unsynced = <<>> /\ session.lastQuoteID = 0
    BY DEF DaemonInit, PacketizerInit, BufferInit, NewSession
  <2> QED BY <2>1 DEF QuotedInv, QuoteInv, QuoteMemory, QuoteOfOwnSession, Snapshots
<1>2. QuotedInv => QuoteOfOwnSession
  BY DEF QuotedInv, QuoteInv
<1> QED BY <1>1, <1>2, StepQuoted, DaemonInvariant, PTL DEF DaemonSpec

-----------------------------------------------------------------------------
(***************************************************************************)
(* What a quote binds: BoundInv, with the same of every state that a power *)
(* failure may bring back.                                                 *)
(***************************************************************************)
BindsInv == BoundInv /\ \A T \in Snapshots : OfStarted(T.quotes) /\ Binds(T.packets, T.quotes)

\* Every step of the daemon keeps quotes bound to the packets stored.
LEMMA StepBinds ==
    ASSUME "write" \notin MayFail, DaemonInv, BindsInv, [DaemonNext]_daemonVars
    PROVE  BindsInv'
<1>1. BoundInv /\ ChainInv /\ started \in Nat
  BY DEF BindsInv, DaemonInv, TablesInv, ChainInv, TypeOK
<1>2. BoundInv' /\ started <= started' /\ started' \in Nat
  <2>1. started' \in Nat
    BY DaemonStep DEF DaemonInv, TablesInv, ChainInv, TypeOK
  <2>2. CASE [PacketizerNext]_packetizerVars
    BY <1>1, <2>1, <2>2, StepBound
  <2>3. CASE Marks
    <3>1. UNCHANGED <<quotes, started, session, pc, pkt>>
      BY <2>3 DEF Marks, loopVars, envVars
    <3>2. BoundMemory' /\ OfStarted(quotes)'
      BY <1>1, <3>1 DEF BoundInv, BoundMemory, OfStarted
    <3>3. Binds(packets', quotes')
      BY <1>1, <2>3 DEF BoundInv, Binds, Marks, OnlyMarks, SameLink
    <3> QED BY <1>1, <3>1, <3>2, <3>3 DEF BoundInv
  <2>4. CASE Loses
    <3>1. PICK T \in Snapshots : packets' = T.packets /\ quotes' = T.quotes
      BY <2>4 DEF Loses
    <3>2. OfStarted(T.quotes) /\ Binds(T.packets, T.quotes) /\ started' = started
          /\ session'.id = 0
      BY <2>4, <3>1 DEF BindsInv, Loses, NewSession
    <3>3. OfStarted(quotes)' /\ Binds(packets', quotes')
      BY <3>1, <3>2 DEF OfStarted
    <3>4. \A q \in DOMAIN quotes' : quotes'[q].session_id # session'.id
      BY <1>1, <3>2, <3>3 DEF OfStarted
    <3> QED BY <1>1, <3>2, <3>3, <3>4 DEF BoundInv, BoundMemory
  <2> QED BY <2>1, <2>2, <2>3, <2>4, EvidenceStep
<1>3. ASSUME NEW T \in Snapshots' PROVE OfStarted(T.quotes)' /\ Binds(T.packets, T.quotes)
  <2>1. OfStarted(T.quotes) /\ Binds(T.packets, T.quotes)
    <3>1. CASE T \in Snapshots
      BY <3>1 DEF BindsInv
    <3>2. CASE T.packets = packets /\ T.quotes = quotes
      BY <1>1, <3>2 DEF BoundInv, OfStarted
    <3> QED BY <3>1, <3>2, LogStep
  <2> QED BY <1>1, <1>2, <2>1 DEF OfStarted
<1> QED BY <1>2, <1>3 DEF BindsInv

\* A quote binds the packet at its session and number, through crashes and
\* power failures, as long as WritePacket does not fail: a failed insert leaves a
\* quote for a packet that a later tick replaces.
THEOREM QuotesBindCorrect ==
    ASSUME "write" \notin MayFail
    PROVE  DaemonSpec => []QuoteBindsPacket
<1>1. DaemonInit => BindsInv
  <2> SUFFICES ASSUME DaemonInit PROVE BindsInv
    OBVIOUS
  <2>1. packets = <<>> /\ quotes = <<>> /\ unsynced = <<>>
    BY DEF DaemonInit, PacketizerInit, BufferInit
  <2> QED BY <2>1 DEF BindsInv, BoundInv, BoundMemory, OfStarted, Binds, Snapshots
<1>2. DaemonInv /\ BindsInv /\ [DaemonNext]_daemonVars => BindsInv'
  BY StepBinds
<1>3. BindsInv => QuoteBindsPacket
  BY DEF BindsInv, BoundInv, Binds, QuoteBindsPacket
<1> QED BY <1>1, <1>2, <1>3, DaemonInvariant, PTL DEF DaemonSpec

-----------------------------------------------------------------------------
(***************************************************************************)
(* Recomputing the chain.  A signature the hash covers is lost when        *)
(* SetTPMSig does not reach the row: it fails, the daemon dies before it,  *)
(* or the session has no quote for quote_ref to refer to.  The third is    *)
(* where the quote comes in: a worker that can sign has taken one before   *)
(* the first packet of the session, unless taking it failed.               *)
(***************************************************************************)
RecomputeInv == QuoteReady /\ ChainRecomputable

\* As long as quotes are taken and signatures set, a stored packet hashes to its
\* packet_blake3.
LEMMA StepRecompute ==
    ASSUME "quote" \notin MayFail, "setsig" \notin MayFail, MaxCrashes = 0,
           ChainInv, SigInv, RecomputeInv, [PacketizerNext]_packetizerVars
    PROVE  RecomputeInv'
<1> USE DEF ChainInv
<1>0. session \in Sessions /\ session.lastQuoteAt \in Nat /\ crashes \in Nat
  BY DEF TypeOK, Sessions
<1>2. CASE TickerFires \/ TickIdle \/ UNCHANGED packetizerVars
  BY <1>2 DEF TickerFires, TickIdle, packetizerVars, bufferVars, loopVars, RecomputeInv,
              QuoteReady, HasQuote, QuoteExists, ChainRecomputable, Settled
<1>3. ASSUME UNCHANGED packets, pc # "setsig", pc' # "setsig", QuoteReady'
      PROVE  RecomputeInv'
  BY <1>3 DEF RecomputeInv, ChainRecomputable, Settled
<1>4. ASSUME NEW state \in PrintStates, ApplyDelta(state) PROVE RecomputeInv'
  <2>1. UNCHANGED <<packets, quotes, tpm, pc>> /\ pc = "select"
    BY <1>4 DEF ApplyDelta, bufferVars
  <2>2. session' = startNewSession \/ session' = [session EXCEPT !.silentTicks = 0]
    BY <1>4 DEF ApplyDelta
  <2>3. session'.lastQuoteAt # 0 => /\ session.lastQuoteAt # 0
                                    /\ session'.lastQuoteID = session.lastQuoteID
    BY <1>0, <2>2 DEF startNewSession, NewSession, Sessions
  <2> QED BY <1>3, <2>1, <2>3 DEF RecomputeInv, QuoteReady, HasQuote, QuoteExists
<1>5. CASE BeginTick
  <2>1. UNCHANGED <<packets, quotes, tpm>> /\ pc = "select" /\ pc' = "quote"
    BY <1>5 DEF BeginTick
  <2>2. TickSession \in Sessions
    BY SessionTypes DEF TypeOK
  <2>3. /\ session'.lastQuoteAt = TickSession.lastQuoteAt
        /\ session'.lastQuoteID = TickSession.lastQuoteID
    BY <1>5, <2>2 DEF BeginTick, Sessions
  <2>4. TickSession.lastQuoteAt # 0 => TickSession = session
    BY DEF TickSession, startNewSession, NewSession
  <2> QED BY <1>3, <2>1, <2>3, <2>4 DEF RecomputeInv, QuoteReady, HasQuote, QuoteExists
<1>6. CASE SkipQuote
  <2>1. /\ UNCHANGED <<packets, quotes, tpm, session>> /\ pc = "quote" /\ pc' = "write"
        /\ ~(tpm /\ shouldQuote)
    BY <1>6 DEF SkipQuote, bufferVars
  <2>2. tpm => session.lastQuoteAt # 0
    BY <2>1 DEF shouldQuote
  <2> QED BY <1>3, <2>1, <2>2 DEF RecomputeInv, QuoteReady, HasQuote, QuoteExists
<1>7. CASE TakeQuote
  <2>1. UNCHANGED packets /\ pc = "quote" /\ pc' = "write"
    BY <1>7 DEF TakeQuote
  <2>2. Len(quotes) + 1 \in DOMAIN quotes'
    BY <1>7, InsertedRow DEF TakeQuote, WriteQuote, TypeOK, BufferTypeOK
  <2>3. session'.lastQuoteID = Len(quotes) + 1
    BY <1>0, <1>7 DEF TakeQuote, Sessions
  <2> QED BY <1>3, <2>1, <2>2, <2>3 DEF QuoteReady, HasQuote, QuoteExists
<1>8. ~QuoteFails
  BY DEF QuoteFails
<1>9. ASSUME NEW sig \in Signatures, StorePacket(sig) PROVE RecomputeInv'
  <2> DEFINE b3 == computePacketBLAKE3(session.seq, session.id, pkt.canonical,
                                       sig, session.prevBlake3)
             last == Len(packets) + 1
  <2>1. packets' = Append(packets, NewRow(b3)) /\ UNCHANGED <<quotes, tpm>> /\ pc = "write"
    BY <1>9 DEF StorePacket, WritePacket, NewRow
  <2>2. /\ DOMAIN packets' = DOMAIN packets \cup {last}
        /\ \A i \in DOMAIN packets : packets'[i] = packets[i]
        /\ packets'[last] = NewRow(b3)
    BY <2>1, InsertedRow DEF TypeOK, BufferTypeOK
  <2>3. /\ NewRow(b3).seq = session.seq /\ NewRow(b3).session_id = session.id
        /\ NewRow(b3).telemetry_json = pkt.canonical
        /\ NewRow(b3).prev_packet_blake3 = session.prevBlake3
        /\ NewRow(b3).packet_blake3 = b3 /\ NewRow(b3).tpm_sig = Nil
    BY DEF NewRow
  <2>4. ASSUME NEW i \in DOMAIN packets
        PROVE  packets'[i].packet_blake3 =
                 computePacketBLAKE3(packets'[i].seq, packets'[i].session_id,
                                     packets'[i].telemetry_json, packets'[i].tpm_sig,
                                     packets'[i].prev_packet_blake3)
    BY <2>1, <2>2 DEF RecomputeInv, ChainRecomputable, Settled
  <2>5. b3 \in Bytes
    <3>1. sig \in Bytes /\ pkt.canonical \in Bytes
      BY SignatureType DEF TypeOK, Packets
    <3>2. session.seq \in Nat /\ session.id \in Nat /\ session.prevBlake3 \in Bytes
      BY DEF TypeOK, Sessions
    <3> QED BY <3>1, <3>2, BytesTypes, ZeroSession
  <2>6. CASE sig = Nil
    <3>1. session' = Advance(b3) /\ pc' = "select"
      BY <1>9, <2>6 DEF StorePacket
    <3>2. /\ session'.lastQuoteID = session.lastQuoteID
          /\ session'.lastQuoteAt = session.lastQuoteAt
      BY <1>0, <3>1 DEF Advance, Sessions
    <3>3. QuoteReady'
      BY <2>1, <3>1, <3>2 DEF RecomputeInv, QuoteReady, HasQuote, QuoteExists
    <3> QED BY <2>2, <2>3, <2>4, <2>6, <3>3 DEF RecomputeInv, ChainRecomputable
  <2>7. CASE sig # Nil
    <3>1. /\ pkt' = [pkt EXCEPT !.sig = sig, !.blake3 = b3, !.rowID = last]
          /\ session' = session /\ pc' = "setsig"
      BY <1>9, <2>7 DEF StorePacket
    <3>2. pkt'.rowID = last
      BY <3>1 DEF TypeOK, Packets
    <3>3. tpm
      BY <2>7 DEF Signatures
    <3>4. QuoteReady'
      BY <2>1, <3>1, <3>3 DEF RecomputeInv, QuoteReady, HasQuote, QuoteExists
    <3> QED BY <2>2, <2>4, <3>1, <3>2, <3>4 DEF RecomputeInv, ChainRecomputable, Settled
  <2> QED BY <2>6, <2>7
<1>10. CASE StoreFails
  BY <1>3, <1>10 DEF StoreFails, bufferVars, RecomputeInv, QuoteReady, HasQuote, QuoteExists
<1>11. CASE BackfillSig
  <2>1. /\ pc = "setsig" /\ pc' = "select" /\ UNCHANGED quotes
        /\ session' = Advance(pkt.blake3)
        /\ packets' = [i \in DOMAIN packets |->
                         IF i = pkt.rowID
                         THEN [packets[i] EXCEPT !.tpm_sig = pkt.sig,
                                                 !.quote_ref = session.lastQuoteID]
                         ELSE packets[i]]
    BY <1>11 DEF BackfillSig, SetTPMSig
  <2>2. \A i \in DOMAIN packets : packets[i] \in PacketRows
    BY RowTypes
  <2>3. ASSUME NEW i \in DOMAIN packets
        PROVE  /\ i = pkt.rowID => packets'[i].tpm_sig = pkt.sig
               /\ i # pkt.rowID => packets'[i] = packets[i]
               /\ packets'[i].session_id = packets[i].session_id
               /\ packets'[i].seq = packets[i].seq
               /\ packets'[i].telemetry_json = packets[i].telemetry_json
               /\ packets'[i].prev_packet_blake3 = packets[i].prev_packet_blake3
               /\ packets'[i].packet_blake3 = packets[i].packet_blake3
    BY <2>1, <2>2 DEF PacketRows
  <2>4. /\ session'.lastQuoteID = session.lastQuoteID
        /\ session'.lastQuoteAt = session.lastQuoteAt
    BY <1>0, <2>1 DEF Advance, Sessions
  <2>5. QuoteReady'
    BY <2>1, <2>4 DEF RecomputeInv, QuoteReady, HasQuote, QuoteExists
  <2>6. ASSUME NEW i \in DOMAIN packets
        PROVE  packets'[i].packet_blake3 =
                 computePacketBLAKE3(packets'[i].seq, packets'[i].session_id,
                                     packets'[i].telemetry_json, packets'[i].tpm_sig,
                                     packets'[i].prev_packet_blake3)
    <3>1. CASE i = pkt.rowID
      <4>1. packets[i].packet_blake3 =
              computePacketBLAKE3(packets[i].seq, packets[i].session_id,
                                  packets[i].telemetry_json, pkt.sig,
                                  packets[i].prev_packet_blake3)
        BY <2>1, <3>1 DEF SigInv, SigMemory
      <4> QED BY <2>3, <3>1, <4>1
    <3>2. CASE i # pkt.rowID
      BY <2>3, <3>2 DEF RecomputeInv, ChainRecomputable, Settled
    <3> QED BY <3>1, <3>2
  <2>7. DOMAIN packets' = DOMAIN packets
    BY <2>1
  <2> QED BY <2>5, <2>6, <2>7 DEF RecomputeInv, ChainRecomputable
<1>12. ~BackfillFails
  BY DEF BackfillFails, RecomputeInv, QuoteReady, HasQuote
<1>13. ~Crash
  BY <1>0 DEF Crash
<1>14. CASE Restart
  BY <1>3, <1>14 DEF Restart, bufferVars, RecomputeInv, QuoteReady, HasQuote, QuoteExists
<1> QED BY <1>2, <1>4, <1>5, <1>6, <1>7, <1>8, <1>9, <1>10, <1>11, <1>12, <1>13, <1>14
        DEF PacketizerNext, onTick

\* The chain can be recomputed from the buffer, the uploader's marks included,
\* when no quote and no SetTPMSig fails and the daemon does not die: each of the
\* three hypotheses excludes one way to lose a signature the hash covers.  The
\* worker may fail to sign and WritePacket and the fault log may fail.
THEOREM RecomputableCorrect ==
    ASSUME "quote" \notin MayFail, "setsig" \notin MayFail, MaxCrashes = 0
    PROVE  DaemonSpec => []ChainRecomputable
<1>1. DaemonInit => SignedInv /\ RecomputeInv
  <2> SUFFICES ASSUME DaemonInit PROVE SignedInv /\ RecomputeInv
    OBVIOUS
  <2>1. /\ packets = <<>> /\ pc = "select" /\ unsynced = <<>>
        /\ session.lastQuoteAt = 0
    BY DEF DaemonInit, PacketizerInit, BufferInit, NewSession
  <2>2. SignedInv
    BY <2>1 DEF SignedInv, SigInv, SigMemory, StoredSigVerifies, Snapshots
  <2>3. RecomputeInv
    BY <2>1 DEF RecomputeInv, QuoteReady, ChainRecomputable
  <2> QED BY <2>2, <2>3
<1>2. DaemonInv /\ SignedInv /\ RecomputeInv /\ [DaemonNext]_daemonVars => RecomputeInv'
  <2> SUFFICES ASSUME DaemonInv, SignedInv, RecomputeInv, [DaemonNext]_daemonVars
               PROVE  RecomputeInv'
    OBVIOUS
  <2>1. ChainInv /\ SigInv /\ crashes \in Nat
    BY DEF DaemonInv, TablesInv, ChainInv, TypeOK, SignedInv
  <2>2. CASE [PacketizerNext]_packetizerVars
    BY <2>1, <2>2, StepRecompute
  <2>3. CASE Marks
    <3>1. UNCHANGED <<quotes, session, pc, pkt, tpm>>
      BY <2>3 DEF Marks, loopVars
    <3>2. QuoteReady'
      BY <3>1 DEF RecomputeInv, QuoteReady, HasQuote, QuoteExists
    <3>3. ChainRecomputable'
      BY <2>3, <3>1 DEF RecomputeInv, ChainRecomputable, Settled, Marks, OnlyMarks, SameLink
    <3> QED BY <3>2, <3>3 DEF RecomputeInv
  <2>4. ~PowerFails
    BY <2>1 DEF PowerFails
  <2> QED BY <2>2, <2>3, <2>4, EvidenceStep
<1>3. RecomputeInv => ChainRecomputable
  BY DEF RecomputeInv
<1> QED BY <1>1, <1>2, <1>3, StepSigned, DaemonInvariant, PTL DEF DaemonSpec

-----------------------------------------------------------------------------
(***************************************************************************)
(* Fresh quotes.  shouldQuote compares the time at which it is asked, not  *)
(* the tick, with lastQuoteAt; and the quote may have been taken for a     *)
(* packet that was stored ticks later, after failed inserts.  Both only    *)
(* make the quote fresher.                                                 *)
(***************************************************************************)
FreshRow(P, Q, i) ==
    /\ P[i].quote_ref \in DOMAIN Q
    /\ \E j \in DOMAIN P :
          /\ P[j].session_id = P[i].session_id
          /\ P[j].seq = Q[P[i].quote_ref].seq
          /\ j = i \/ P[i].tick_utc - P[j].tick_utc < QuoteInterval

FreshRows(P, Q) == \A i \in DOMAIN P : P[i].tpm_sig # Nil => FreshRow(P, Q, i)

InTick == pc \in {"quote", "write", "setsig"}

\* Ticks are handled in their order and never before their time.
ClockMemory ==
    /\ pkt.tick <= now /\ session.lastQuoteAt <= now
    /\ tickC # 0 => /\ pkt.tick <= tickC /\ session.lastQuoteAt <= tickC
                    /\ tickC <= now
    /\ InTick => session.lastQuoteAt <= pkt.tick
    /\ pc = "setsig" => packets[pkt.rowID].tick_utc = pkt.tick

\* The packet the last quote was taken for is the next one, or was stored then or
\* later.
QuotedPacket ==
    session.lastQuoteID # 0 =>
        \/ quotes[session.lastQuoteID].seq = session.seq
        \/ \E j \in DOMAIN packets :
              /\ packets[j].session_id = session.id
              /\ packets[j].seq = quotes[session.lastQuoteID].seq
              /\ session.lastQuoteAt <= packets[j].tick_utc

OnTime ==
    \/ quotes[session.lastQuoteID].seq = session.seq
    \/ pkt.tick - session.lastQuoteAt < QuoteInterval

QuoteOnTime ==
    /\ (pc = "write" /\ tpm) => OnTime
    /\ pc = "setsig" => OnTime

FreshMemory == ClockMemory /\ QuotedPacket /\ QuoteOnTime

FreshInv == FreshMemory /\ FreshRows(packets, quotes)

\* The numbers the packetizer compares.
LEMMA ClockTypes ==
    ASSUME TypeOK
    PROVE  /\ session \in Sessions /\ pkt \in Packets
           /\ session.id \in Nat /\ session.seq \in Nat
           /\ session.lastQuoteID \in Nat /\ session.lastQuoteAt \in Nat
           /\ session.prevBlake3 \in Bytes /\ pkt.blake3 \in Bytes
           /\ pkt.tick \in Nat /\ now \in Nat /\ tickC \in Nat /\ MaxTime \in Nat
           /\ QuoteInterval \in Nat /\ started \in Nat
           /\ \A i \in DOMAIN packets : packets[i].tick_utc \in Nat
<1>1. \A i \in DOMAIN packets : packets[i] \in PacketRows
  BY RowTypes
<1>2. \A i \in DOMAIN packets : packets[i].tick_utc \in Nat
  BY <1>1 DEF PacketRows
<1>3. MaxTime \in Nat /\ QuoteInterval \in Nat
  BY BoundAssumption, ConfigAssumption
<1> QED BY <1>2, <1>3 DEF TypeOK, Sessions, Packets

\* Of the session, starting a packet changes only the count of silent ticks.
LEMMA BegunSession ==
    ASSUME TypeOK, BeginTick
    PROVE  /\ \/ session.id = 0 /\ session'.id = started + 1 /\ session'.seq = 0
                 /\ session'.lastQuoteID = 0 /\ session'.lastQuoteAt = 0
              \/ session.id # 0 /\ session'.id = session.id /\ session'.seq = session.seq
                 /\ session'.lastQuoteID = session.lastQuoteID
                 /\ session'.lastQuoteAt = session.lastQuoteAt
           /\ pkt'.tick = tickC /\ tickC \in Nat \ {0} /\ tickC' = 0
           /\ pc = "select" /\ pc' = "quote" /\ UNCHANGED <<packets, quotes, tpm, now, printState>>
<1>1. TickSession \in Sessions
  BY SessionTypes DEF TypeOK
<1>2. /\ session'.id = TickSession.id /\ session'.seq = TickSession.seq
      /\ session'.lastQuoteID = TickSession.lastQuoteID
      /\ session'.lastQuoteAt = TickSession.lastQuoteAt
  BY <1>1 DEF BeginTick, Sessions
<1>3. pkt'.tick = tickC
  BY DEF BeginTick, NoPacket
<1>4. /\ tickC \in Nat \ {0} /\ tickC' = 0
      /\ pc = "select" /\ pc' = "quote" /\ UNCHANGED <<packets, quotes, tpm, now, printState>>
  BY DEF BeginTick, TypeOK
<1> QED BY <1>2, <1>3, <1>4 DEF TickSession, startNewSession, NewSession

\* What a delta may do to the session.
LEMMA DeltaSession ==
    ASSUME TypeOK, NEW state \in PrintStates, ApplyDelta(state)
    PROVE  \/ /\ StartsSession(printState, state) /\ session'.id = started + 1
              /\ session'.seq = 0 /\ session'.lastQuoteID = 0 /\ session'.lastQuoteAt = 0
           \/ /\ ~StartsSession(printState, state) /\ session'.id = session.id
              /\ session'.seq = session.seq /\ session'.lastQuoteID = session.lastQuoteID
              /\ session'.lastQuoteAt = session.lastQuoteAt
<1>1. CASE StartsSession(printState, state)
  BY <1>1 DEF ApplyDelta, startNewSession, NewSession
<1>2. CASE ~StartsSession(printState, state)
  <2>1. session' = [session EXCEPT !.silentTicks = 0] /\ session \in Sessions
    BY <1>2 DEF ApplyDelta, TypeOK
  <2> QED BY <1>2, <2>1 DEF Sessions
<1> QED BY <1>1, <1>2

\* The packet that is stored, and what is remembered of it.
LEMMA StoredRow ==
    ASSUME ChainInv, NEW sig \in Signatures, StorePacket(sig)
    PROVE  \E row :
           /\ row.session_id = session.id /\ row.seq = session.seq
           /\ row.tick_utc = pkt.tick /\ row.tpm_sig = Nil
           /\ DOMAIN packets' = DOMAIN packets \cup {Len(packets) + 1}
           /\ Len(packets) + 1 \notin DOMAIN packets
           /\ \A i \in DOMAIN packets : packets'[i] = packets[i]
           /\ packets'[Len(packets) + 1] = row
           /\ session'.id = session.id /\ session'.lastQuoteID = session.lastQuoteID
           /\ session'.lastQuoteAt = session.lastQuoteAt
           /\ \/ /\ pc' = "select" /\ pkt' = NoPacket
                 /\ session'.seq = session.seq + 1
              \/ /\ pc' = "setsig" /\ tpm /\ session'.seq = session.seq
                 /\ pkt'.tick = pkt.tick /\ pkt'.rowID = Len(packets) + 1
           /\ pc = "write" /\ UNCHANGED <<quotes, tpm, printState, envVars>>
<1> USE DEF ChainInv
<1> DEFINE b3 == computePacketBLAKE3(session.seq, session.id, pkt.canonical,
                                     sig, session.prevBlake3)
           last == Len(packets) + 1
<1>1. /\ packets' = Append(packets, NewRow(b3)) /\ pc = "write"
      /\ UNCHANGED <<quotes, tpm, printState, envVars>>
  BY DEF StorePacket, WritePacket, NewRow
<1>2. /\ DOMAIN packets' = DOMAIN packets \cup {last}
      /\ last \notin DOMAIN packets
      /\ \A i \in DOMAIN packets : packets'[i] = packets[i]
      /\ packets'[last] = NewRow(b3)
  BY <1>1, InsertedRow DEF TypeOK, BufferTypeOK
<1>3. /\ NewRow(b3).session_id = session.id /\ NewRow(b3).seq = session.seq
      /\ NewRow(b3).tick_utc = pkt.tick /\ NewRow(b3).tpm_sig = Nil
  BY DEF NewRow
<1>4. CASE sig = Nil
  <2>1. session' = Advance(b3) /\ pc' = "select" /\ pkt' = NoPacket
    BY <1>4 DEF StorePacket
  <2>2. /\ session'.id = session.id /\ session'.seq = session.seq + 1
        /\ session'.lastQuoteID = session.lastQuoteID
        /\ session'.lastQuoteAt = session.lastQuoteAt
    BY <2>1, ClockTypes DEF Advance, Sessions
  <2> HIDE DEF b3, last
  <2> QED BY <1>1, <1>2, <1>3, <2>1, <2>2 DEF last
<1>5. CASE sig # Nil
  <2>1. /\ session' = session /\ pc' = "setsig"
        /\ pkt' = [pkt EXCEPT !.sig = sig, !.blake3 = b3, !.rowID = last]
    BY <1>5 DEF StorePacket
  <2>2. pkt'.tick = pkt.tick /\ pkt'.rowID = last
    BY <2>1, ClockTypes DEF Packets
  <2>3. tpm
    BY <1>5 DEF Signatures
  <2> HIDE DEF b3, last
  <2> QED BY <1>1, <1>2, <1>3, <2>1, <2>2, <2>3 DEF last
<1> QED BY <1>4, <1>5

\* The row that SetTPMSig updates is the packet just stored, and the chain moves
\* on whether it succeeds or not.
LEMMA SettledRow ==
    ASSUME ChainInv, BackfillSig \/ BackfillFails
    PROVE  /\ DOMAIN packets' = DOMAIN packets
           /\ \A i \in DOMAIN packets :
                 /\ packets'[i].session_id = packets[i].session_id
                 /\ packets'[i].seq = packets[i].seq
                 /\ packets'[i].tick_utc = packets[i].tick_utc
                 /\ \/ packets'[i] = packets[i]
                    \/ /\ i = pkt.rowID /\ QuoteExists(session.lastQuoteID)
                       /\ packets'[i].quote_ref = session.lastQuoteID
           /\ session'.id = session.id /\ session'.seq = session.seq + 1
           /\ session'.lastQuoteID = session.lastQuoteID
           /\ session'.lastQuoteAt = session.lastQuoteAt
           /\ pkt' = NoPacket /\ pc = "setsig" /\ pc' = "select"
           /\ UNCHANGED <<quotes, tpm, printState, envVars>>
<1> USE DEF ChainInv
<1>1. /\ session' = Advance(pkt.blake3) /\ pkt' = NoPacket /\ pc = "setsig"
      /\ pc' = "select" /\ UNCHANGED <<quotes, tpm, printState, envVars>>
  BY DEF BackfillSig, BackfillFails, bufferVars
<1>2. /\ session'.id = session.id /\ session'.seq = session.seq + 1
      /\ session'.lastQuoteID = session.lastQuoteID
      /\ session'.lastQuoteAt = session.lastQuoteAt
  BY <1>1, ClockTypes DEF Advance, Sessions
<1>3. CASE BackfillSig
  <2>1. \A i \in DOMAIN packets : packets[i] \in PacketRows
    BY RowTypes
  <2>2. /\ QuoteExists(session.lastQuoteID)
        /\ packets' = [i \in DOMAIN packets |->
                         IF i = pkt.rowID
                         THEN [packets[i] EXCEPT !.tpm_sig = pkt.sig,
                                                 !.quote_ref = session.lastQuoteID]
                         ELSE packets[i]]
    BY <1>3 DEF BackfillSig, SetTPMSig
  <2>3. ASSUME NEW i \in DOMAIN packets
        PROVE  /\ packets'[i].session_id = packets[i].session_id
               /\ packets'[i].seq = packets[i].seq
               /\ packets'[i].tick_utc = packets[i].tick_utc
               /\ i = pkt.rowID => packets'[i].quote_ref = session.lastQuoteID
               /\ i # pkt.rowID => packets'[i] = packets[i]
    BY <2>1, <2>2 DEF PacketRows
  <2>4. DOMAIN packets' = DOMAIN packets
    BY <2>2
  <2> QED BY <1>1, <1>2, <2>2, <2>3, <2>4
<1>4. CASE BackfillFails
  BY <1>1, <1>2, <1>4 DEF BackfillFails, bufferVars
<1> QED BY <1>3, <1>4

\* Time and ticks only go forward.
LEMMA StepClock ==
    ASSUME ChainInv, ClockMemory, [PacketizerNext]_packetizerVars
    PROVE  ClockMemory'
<1> USE DEF ChainInv, InTick
<1>0. TypeOK
  OBVIOUS
<1> HIDE DEF ChainInv
<1>1. CASE TickerFires
  <2>1. /\ UNCHANGED <<session, pkt, pc, packets>>
        /\ now' \in {now, now + 1}
        /\ tickC' \in {tickC, now'}
        /\ tickC # 0 => tickC' = tickC
    BY <1>1, <1>0, ClockTypes DEF TickerFires, loopVars, bufferVars
  <2> QED BY <1>0, <2>1, ClockTypes DEF ClockMemory
<1>2. ASSUME NEW state \in PrintStates, ApplyDelta(state) PROVE ClockMemory'
  <2>1. UNCHANGED <<pc, pkt, tickC, now>> /\ pc = "select"
    BY <1>2 DEF ApplyDelta
  <2> QED BY <1>0, <1>2, <2>1, DeltaSession, ClockTypes DEF ClockMemory
<1>3. CASE BeginTick
  BY <1>0, <1>3, BegunSession, ClockTypes DEF ClockMemory
<1>4. CASE TakeQuote
  <2>1. session'.lastQuoteAt = pkt.tick
    BY <1>0, <1>4, ClockTypes DEF TakeQuote, Sessions
  <2>2. UNCHANGED <<pkt, tickC, now>> /\ pc = "quote" /\ pc' = "write"
    BY <1>4 DEF TakeQuote, envVars
  <2> QED BY <1>0, <2>1, <2>2, ClockTypes DEF ClockMemory
<1>5. ASSUME NEW sig \in Signatures, StorePacket(sig) PROVE ClockMemory'
  <2>1. /\ session'.lastQuoteAt = session.lastQuoteAt /\ UNCHANGED <<now, tickC>>
        /\ pc = "write"
        /\ \/ pc' = "select" /\ pkt' = NoPacket
           \/ pc' = "setsig" /\ pkt'.tick = pkt.tick /\ packets'[pkt'.rowID].tick_utc = pkt.tick
    BY <1>5, StoredRow DEF envVars
  <2> QED BY <1>0, <2>1, ClockTypes DEF ClockMemory, NoPacket
<1>6. CASE BackfillSig \/ BackfillFails
  BY <1>0, <1>6, SettledRow, ClockTypes DEF ClockMemory, NoPacket, envVars
<1>7. CASE StoreFails
  BY <1>0, <1>7, ClockTypes DEF StoreFails, ClockMemory, NoPacket, envVars
<1>8. CASE Crash
  <2>1. /\ session'.lastQuoteAt = 0 /\ pkt'.tick = 0 /\ tickC' = 0 /\ now' = now
        /\ pc' = "down"
    BY <1>8 DEF Crash, Dies, NoPacket, NewSession
  <2> QED BY <1>0, <2>1, ClockTypes DEF ClockMemory
<1>9. CASE SkipQuote \/ QuoteFails \/ Restart \/ UNCHANGED packetizerVars
  BY <1>9 DEF SkipQuote, QuoteFails, Restart, packetizerVars, loopVars, envVars,
              bufferVars, ClockMemory
<1>10. CASE TickIdle
  BY <1>10 DEF TickIdle, loopVars, bufferVars, ClockMemory
<1> QED BY <1>1, <1>2, <1>3, <1>4, <1>5, <1>6, <1>7, <1>8, <1>9, <1>10
        DEF PacketizerNext, onTick

\* A session's last quote stays with its packet: TakeQuote files the quote under
\* the next packet, and storing that packet is what moves the number on.
LEMMA StepQuotedPacket ==
    ASSUME ChainInv, ClockMemory, QuotedPacket, [PacketizerNext]_packetizerVars
    PROVE  QuotedPacket'
<1>0. TypeOK
  BY DEF ChainInv
<1>1. ASSUME UNCHANGED <<packets, quotes>>,
             \/ session'.lastQuoteID = 0
             \/ /\ session'.id = session.id /\ session'.seq = session.seq
                /\ session'.lastQuoteID = session.lastQuoteID
                /\ session'.lastQuoteAt = session.lastQuoteAt
      PROVE  QuotedPacket'
  BY <1>1 DEF QuotedPacket
<1>2. ASSUME NEW state \in PrintStates, ApplyDelta(state) PROVE QuotedPacket'
  <2>1. UNCHANGED <<packets, quotes>>
    BY <1>2 DEF ApplyDelta, bufferVars
  <2> QED BY <1>0, <1>1, <1>2, <2>1, DeltaSession
<1>3. CASE BeginTick
  BY <1>0, <1>1, <1>3, BegunSession
<1>4. CASE TakeQuote
  <2>1. session'.lastQuoteID = Len(quotes) + 1 /\ session'.seq = session.seq
    BY <1>0, <1>4, ClockTypes DEF TakeQuote, Sessions
  <2>2. PICK new : quotes' = Append(quotes, new) /\ new.seq = session.seq
    BY <1>4 DEF TakeQuote, WriteQuote
  <2>3. quotes'[Len(quotes) + 1] = new
    BY <1>0, <2>2, InsertedRow DEF TypeOK, BufferTypeOK
  <2> QED BY <2>1, <2>2, <2>3 DEF QuotedPacket
<1>5. ASSUME NEW sig \in Signatures, StorePacket(sig) PROVE QuotedPacket'
  <2>1. PICK row :
           /\ row.session_id = session.id /\ row.seq = session.seq
           /\ row.tick_utc = pkt.tick
           /\ DOMAIN packets' = DOMAIN packets \cup {Len(packets) + 1}
           /\ \A i \in DOMAIN packets : packets'[i] = packets[i]
           /\ packets'[Len(packets) + 1] = row
           /\ session'.id = session.id /\ session'.lastQuoteID = session.lastQuoteID
           /\ session'.lastQuoteAt = session.lastQuoteAt
           /\ pc = "write" /\ UNCHANGED quotes
    BY <1>5, StoredRow
  <2>2. session.lastQuoteAt <= pkt.tick
    BY <2>1 DEF ClockMemory, InTick
  <2> QED BY <2>1, <2>2 DEF QuotedPacket
<1>6. CASE BackfillSig \/ BackfillFails
  <2>1. /\ DOMAIN packets' = DOMAIN packets
        /\ \A i \in DOMAIN packets :
              /\ packets'[i].session_id = packets[i].session_id
              /\ packets'[i].seq = packets[i].seq
              /\ packets'[i].tick_utc = packets[i].tick_utc
        /\ session'.id = session.id /\ session'.lastQuoteID = session.lastQuoteID
        /\ session'.lastQuoteAt = session.lastQuoteAt
        /\ UNCHANGED quotes /\ pc = "setsig"
    BY <1>6, SettledRow
  <2>2. /\ session.lastQuoteAt <= pkt.tick /\ pkt.rowID \in DOMAIN packets
        /\ packets[pkt.rowID].session_id = session.id
        /\ packets[pkt.rowID].seq = session.seq
        /\ packets[pkt.rowID].tick_utc = pkt.tick
    BY <2>1 DEF ClockMemory, InTick, ChainInv, ChainMemory
  <2> QED BY <2>1, <2>2 DEF QuotedPacket
<1>7. CASE Crash
  BY <1>1, <1>7 DEF Crash, Dies, bufferVars, NewSession
<1>8. CASE TickerFires \/ TickIdle \/ UNCHANGED packetizerVars
  BY <1>1, <1>8 DEF TickerFires, TickIdle, packetizerVars, bufferVars, loopVars
<1>9. CASE SkipQuote \/ QuoteFails \/ StoreFails \/ Restart
  BY <1>1, <1>9 DEF SkipQuote, QuoteFails, StoreFails, Restart, bufferVars
<1> QED BY <1>2, <1>3, <1>4, <1>5, <1>6, <1>7, <1>8, <1>9 DEF PacketizerNext, onTick

\* A packet that will be signed has a quote taken for it or within the interval.
LEMMA StepOnTime ==
    ASSUME "quote" \notin MayFail, ChainInv, ClockMemory, QuoteOnTime,
           [PacketizerNext]_packetizerVars
    PROVE  QuoteOnTime'
<1>0. TypeOK
  BY DEF ChainInv
<1>1. ASSUME pc' \notin {"write", "setsig"} PROVE QuoteOnTime'
  BY <1>1 DEF QuoteOnTime
<1>2. CASE SkipQuote
  <2>1. UNCHANGED <<quotes, session, pkt, tpm>> /\ pc' = "write" /\ ~(tpm /\ shouldQuote)
    BY <1>2 DEF SkipQuote, bufferVars
  <2>2. ASSUME tpm PROVE pkt.tick - session.lastQuoteAt < QuoteInterval
    <3>1. ~(now - session.lastQuoteAt >= QuoteInterval)
      BY <2>1, <2>2 DEF shouldQuote
    <3> QED BY <1>0, <3>1, ClockTypes DEF ClockMemory
  <2> QED BY <2>1, <2>2 DEF QuoteOnTime, OnTime
<1>3. CASE TakeQuote
  <2>1. /\ session'.lastQuoteID = Len(quotes) + 1 /\ session'.seq = session.seq
        /\ pc' = "write"
    BY <1>0, <1>3, ClockTypes DEF TakeQuote, Sessions
  <2>2. PICK new : quotes' = Append(quotes, new) /\ new.seq = session.seq
    BY <1>3 DEF TakeQuote, WriteQuote
  <2>3. quotes'[Len(quotes) + 1] = new
    BY <1>0, <2>2, InsertedRow DEF TypeOK, BufferTypeOK
  <2> QED BY <2>1, <2>2, <2>3 DEF QuoteOnTime, OnTime
<1>4. ~QuoteFails
  BY DEF QuoteFails
<1>5. ASSUME NEW sig \in Signatures, StorePacket(sig) PROVE QuoteOnTime'
  <2>1. /\ session'.lastQuoteID = session.lastQuoteID
        /\ session'.lastQuoteAt = session.lastQuoteAt
        /\ \/ pc' = "select"
           \/ pc' = "setsig" /\ tpm /\ session'.seq = session.seq /\ pkt'.tick = pkt.tick
        /\ pc = "write" /\ UNCHANGED quotes
    BY <1>5, StoredRow
  <2> QED BY <2>1 DEF QuoteOnTime, OnTime
<1>6. CASE BackfillSig \/ BackfillFails \/ StoreFails \/ Crash \/ Restart
  BY <1>1, <1>6 DEF BackfillSig, BackfillFails, StoreFails, Crash, Dies, Restart
<1>7. CASE BeginTick \/ \E state \in PrintStates : ApplyDelta(state)
  BY <1>1, <1>7 DEF BeginTick, ApplyDelta
<1>8. CASE TickerFires \/ TickIdle \/ UNCHANGED packetizerVars
  BY <1>8 DEF TickerFires, TickIdle, packetizerVars, bufferVars, loopVars, QuoteOnTime, OnTime
<1> QED BY <1>2, <1>3, <1>4, <1>5, <1>6, <1>7, <1>8 DEF PacketizerNext, onTick

\* Signed rows stay on fresh quotes: quotes are only added, and SetTPMSig sets the
\* quote that was on time.
LEMMA StepFreshRows ==
    ASSUME ChainInv, FreshInv, [PacketizerNext]_packetizerVars
    PROVE  FreshRows(packets', quotes')
<1>0. TypeOK
  BY DEF ChainInv
<1>1. ASSUME UNCHANGED <<packets, quotes>> PROVE FreshRows(packets', quotes')
  BY <1>1 DEF FreshInv
<1>2. CASE TakeQuote
  <2>1. PICK new : quotes' = Append(quotes, new) /\ UNCHANGED packets
    BY <1>2 DEF TakeQuote, WriteQuote
  <2>2. \A q \in DOMAIN quotes : q \in DOMAIN quotes' /\ quotes'[q] = quotes[q]
    BY <1>0, <2>1, InsertedRow DEF TypeOK, BufferTypeOK
  <2> QED BY <2>1, <2>2 DEF FreshInv, FreshRows, FreshRow
<1>3. ASSUME NEW sig \in Signatures, StorePacket(sig) PROVE FreshRows(packets', quotes')
  <2>1. PICK row :
           /\ row.tpm_sig = Nil
           /\ DOMAIN packets' = DOMAIN packets \cup {Len(packets) + 1}
           /\ \A i \in DOMAIN packets : packets'[i] = packets[i]
           /\ packets'[Len(packets) + 1] = row
           /\ UNCHANGED quotes
    BY <1>3, StoredRow
  <2> QED BY <2>1 DEF FreshInv, FreshRows, FreshRow
<1>4. CASE BackfillSig \/ BackfillFails
  <2>1. /\ DOMAIN packets' = DOMAIN packets
        /\ \A i \in DOMAIN packets :
              /\ packets'[i].session_id = packets[i].session_id
              /\ packets'[i].seq = packets[i].seq
              /\ packets'[i].tick_utc = packets[i].tick_utc
              /\ \/ packets'[i] = packets[i]
                 \/ /\ i = pkt.rowID /\ QuoteExists(session.lastQuoteID)
                    /\ packets'[i].quote_ref = session.lastQuoteID
        /\ UNCHANGED quotes /\ pc = "setsig"
    BY <1>4, SettledRow
  <2> DEFINE r == pkt.rowID
             asked == quotes[session.lastQuoteID].seq
  <2>2. /\ r \in DOMAIN packets /\ packets[r].session_id = session.id
        /\ packets[r].seq = session.seq /\ packets[r].tick_utc = pkt.tick
    BY <2>1 DEF ChainInv, ChainMemory, FreshInv, FreshMemory, ClockMemory
  <2>3. ASSUME QuoteExists(session.lastQuoteID)
        PROVE  \E j \in DOMAIN packets :
                  /\ packets[j].session_id = session.id /\ packets[j].seq = asked
                  /\ j = r \/ pkt.tick - packets[j].tick_utc < QuoteInterval
    <3>1. session.lastQuoteID # 0
      BY <1>0, <2>3 DEF QuoteExists, TypeOK, BufferTypeOK
    <3>2. CASE asked = session.seq
      BY <2>2, <3>2
    <3>3. CASE asked # session.seq
      <4>1. PICK j \in DOMAIN packets : /\ packets[j].session_id = session.id
                                        /\ packets[j].seq = asked
                                        /\ session.lastQuoteAt <= packets[j].tick_utc
        BY <3>1, <3>3 DEF FreshInv, FreshMemory, QuotedPacket
      <4>2. pkt.tick - session.lastQuoteAt < QuoteInterval
        BY <2>1, <3>3 DEF FreshInv, FreshMemory, QuoteOnTime, OnTime
      <4>3. pkt.tick - packets[j].tick_utc < QuoteInterval
        BY <1>0, <4>1, <4>2, ClockTypes
      <4> QED BY <4>1, <4>3
    <3> QED BY <3>2, <3>3
  <2> HIDE DEF r, asked
  <2>4. ASSUME NEW i \in DOMAIN packets, packets'[i] = packets[i], packets'[i].tpm_sig # Nil
        PROVE  FreshRow(packets', quotes', i)
    <3>1. FreshRow(packets, quotes, i)
      BY <2>4 DEF FreshInv, FreshRows
    <3> QED BY <2>1, <2>4, <3>1 DEF FreshRow
  <2>5. ASSUME QuoteExists(session.lastQuoteID), packets'[r].quote_ref = session.lastQuoteID
        PROVE  FreshRow(packets', quotes', r)
    <3>1. PICK j \in DOMAIN packets :
             /\ packets[j].session_id = session.id /\ packets[j].seq = asked
             /\ j = r \/ pkt.tick - packets[j].tick_utc < QuoteInterval
      BY <2>3, <2>5
    <3>2. /\ packets'[j].session_id = session.id /\ packets'[j].seq = asked
          /\ packets'[r].session_id = session.id
          /\ j = r \/ packets'[r].tick_utc - packets'[j].tick_utc < QuoteInterval
      BY <2>1, <2>2, <3>1
    <3>3. quotes'[packets'[r].quote_ref].seq = asked /\ packets'[r].quote_ref \in DOMAIN quotes'
      BY <2>1, <2>5 DEF asked, QuoteExists
    <3> QED BY <2>1, <3>2, <3>3 DEF FreshRow
  <2> QED BY <2>1, <2>4, <2>5 DEF FreshRows, r
<1>5. CASE TickerFires \/ TickIdle \/ UNCHANGED packetizerVars
  BY <1>1, <1>5 DEF TickerFires, TickIdle, packetizerVars, bufferVars
<1>6. CASE BeginTick \/ \E state \in PrintStates : ApplyDelta(state)
  BY <1>1, <1>6 DEF BeginTick, ApplyDelta, bufferVars
<1>7. CASE SkipQuote \/ QuoteFails \/ StoreFails \/ Crash \/ Restart
  BY <1>1, <1>7 DEF SkipQuote, QuoteFails, StoreFails, Crash, Restart, bufferVars
<1> QED BY <1>2, <1>3, <1>4, <1>5, <1>6, <1>7 DEF PacketizerNext, onTick

\* What every step of the daemon keeps, and every state of the log has.
FreshLog == FreshInv /\ \A T \in Snapshots : FreshRows(T.packets, T.quotes)

\* A signed packet rests on a quote less than QuoteInterval old, or on its own,
\* whatever else fails, crashes and power failures included, as long as a due
\* quote can be taken.
THEOREM FreshQuotesCorrect ==
    ASSUME "quote" \notin MayFail
    PROVE  DaemonSpec => []SignedUnderFreshQuote
<1>1. DaemonInit => FreshLog
  <2> SUFFICES ASSUME DaemonInit PROVE FreshLog
    OBVIOUS
  <2>1. /\ packets = <<>> /\ unsynced = <<>> /\ session.lastQuoteID = 0 /\ pc = "select"
        /\ session.lastQuoteAt = 0 /\ pkt.tick = 0 /\ now = 0 /\ tickC = 0
    BY DEF DaemonInit, PacketizerInit, BufferInit, NewSession, NoPacket
  <2> QED BY <2>1 DEF FreshLog, FreshInv, FreshMemory, ClockMemory, InTick, QuotedPacket,
                      QuoteOnTime, FreshRows, Snapshots
<1>2. DaemonInv /\ FreshLog /\ [DaemonNext]_daemonVars => FreshLog'
  <2> SUFFICES ASSUME DaemonInv, FreshLog, [DaemonNext]_daemonVars
               PROVE  FreshLog'
    OBVIOUS
  <2>1. ChainInv /\ TypeOK /\ FreshInv /\ FreshMemory
    BY DEF DaemonInv, TablesInv, ChainInv, FreshLog, FreshInv
  <2>2. ASSUME [PacketizerNext]_packetizerVars PROVE FreshInv'
    BY <2>1, <2>2, StepClock, StepQuotedPacket, StepOnTime, StepFreshRows
       DEF FreshInv, FreshMemory
  <2>3. ASSUME Marks PROVE FreshInv'
    <3>1. UNCHANGED <<quotes, session, pc, pkt, tpm, tickC, now>>
      BY <2>3 DEF Marks, loopVars, envVars
    <3>2. /\ DOMAIN packets' = DOMAIN packets
          /\ \A i \in DOMAIN packets :
                /\ packets'[i].session_id = packets[i].session_id
                /\ packets'[i].seq = packets[i].seq
                /\ packets'[i].tick_utc = packets[i].tick_utc
                /\ packets'[i].tpm_sig = packets[i].tpm_sig
                /\ packets'[i].quote_ref = packets[i].quote_ref
      BY <2>3 DEF Marks, OnlyMarks, SameLink
    <3>3. pc = "setsig" => pkt.rowID \in DOMAIN packets
      BY <2>1 DEF ChainInv, ChainMemory
    <3>4. ClockMemory' /\ QuoteOnTime'
      BY <2>1, <3>1, <3>2, <3>3 DEF FreshMemory, ClockMemory, InTick, QuoteOnTime, OnTime
    <3>5. QuotedPacket'
      BY <2>1, <3>1, <3>2 DEF FreshMemory, QuotedPacket
    <3>6. FreshRows(packets', quotes')
      BY <2>1, <3>1, <3>2 DEF FreshInv, FreshRows, FreshRow
    <3> QED BY <3>4, <3>5, <3>6 DEF FreshInv, FreshMemory
  <2>4. ASSUME PowerFails, Loses PROVE FreshInv'
    <3>1. FreshRows(packets', quotes')
      BY <2>4 DEF Loses, FreshLog
    <3>2. /\ session'.lastQuoteAt = 0 /\ session'.lastQuoteID = 0 /\ pkt'.tick = 0
          /\ tickC' = 0 /\ now' = now /\ pc' = "down"
      BY <2>4 DEF PowerFails, Dies, NoPacket, NewSession
    <3> QED BY <2>1, <3>1, <3>2, ClockTypes
            DEF FreshInv, FreshMemory, ClockMemory, InTick, QuotedPacket, QuoteOnTime
  <2>5. ASSUME NEW T \in Snapshots' PROVE FreshRows(T.packets, T.quotes)
    <3>1. CASE T \in Snapshots
      BY <3>1 DEF FreshLog
    <3>2. CASE T.packets = packets /\ T.quotes = quotes
      BY <2>1, <3>2 DEF FreshInv
    <3> QED BY <3>1, <3>2, LogStep
  <2>6. FreshInv'
    BY <2>2, <2>3, <2>4, EvidenceStep
  <2> QED BY <2>5, <2>6 DEF FreshLog
<1>3. FreshLog => SignedUnderFreshQuote
  BY DEF FreshLog, FreshInv, FreshRows, FreshRow, SignedUnderFreshQuote
<1> QED BY <1>1, <1>2, <1>3, DaemonInvariant, PTL DEF DaemonSpec

-----------------------------------------------------------------------------
(***************************************************************************)
(* No tick lost.  Without failed inserts and slow ticks every tick of an   *)
(* active print becomes the next packet, so a gap can only come from a     *)
(* session that outlives an idle time.  A print that resumes from "paused" *)
(* keeps its session, whatever came before the pause: PrinterEdges must    *)
(* hold no pause that follows an idle state.                               *)
(***************************************************************************)
PausesAreOfPrints ==
    \A e \in PrinterEdges :
        /\ e[2] # ""
        /\ e[2] = "paused" => e[1] \in {"", "printing", "paused"}

OneApart(P) ==
    \A i, j \in DOMAIN P :
        (P[j].session_id = P[i].session_id /\ P[i].seq = P[j].seq + 1) =>
            P[i].tick_utc = P[j].tick_utc + 1

\* The ticker and the daemon: a tick is handled in the period it is for.
TickMemory ==
    /\ printState = "" => session.id = 0
    /\ pc = "down" => printState = "" /\ tickC = 0
    /\ tickC # 0 => tickC = now
    /\ InTick => tickC = 0 /\ pkt.tick = now /\ now < MaxTime
    /\ pc = "setsig" => packets[pkt.rowID].tick_utc = now

\* The last packet of the session is of the last tick there was.
LastPacket(i) == packets[i].session_id = session.id /\ packets[i].seq + 1 = session.seq

LastTick ==
    \A i \in DOMAIN packets : LastPacket(i) =>
        /\ (pc = "select" /\ IsActive(printState)) =>
              /\ packets[i].tick_utc < MaxTime
              /\ packets[i].tick_utc = IF tickC = 0 THEN now ELSE now - 1
        /\ InTick => packets[i].tick_utc = now - 1

TicksInv == TickMemory /\ LastTick /\ OneApart(packets)

\* A session without an id has no packets.
LEMMA NoSessionNoPacket ==
    ASSUME ChainInv, session.id = 0
    PROVE  \A i \in DOMAIN packets : ~LastPacket(i)
<1>1. \A i \in DOMAIN packets : packets[i].session_id \in 1 .. started
  BY DEF ChainInv, ChainMemory
<1> QED BY <1>1 DEF LastPacket

\* Every step keeps the packetizer in time with its ticker.
LEMMA StepTickMemory ==
    ASSUME "slow" \notin MayFail, PausesAreOfPrints, ChainInv, TicksInv,
           [PacketizerNext]_packetizerVars
    PROVE  TickMemory'
<1> USE DEF InTick
<1>0. TypeOK /\ TickMemory
  BY DEF ChainInv, TicksInv
<1>1. CASE TickerFires
  <2>1. /\ UNCHANGED <<printState, session, pkt, pc, packets>>
        /\ pc # "down" => pc = "select" /\ tickC = 0
        /\ pc = "down" => tickC' = tickC
        /\ pc # "down" => tickC' = now'
    BY <1>1 DEF TickerFires, loopVars, bufferVars
  <2> QED BY <1>0, <2>1 DEF TickMemory
<1>2. ASSUME NEW state \in PrintStates, ApplyDelta(state) PROVE TickMemory'
  <2>1. /\ UNCHANGED <<pc, pkt, tickC, now, packets>> /\ pc = "select"
        /\ printState' = state
        /\ state = printState \/ <<printState, state>> \in PrinterEdges
    BY <1>2 DEF ApplyDelta, bufferVars
  <2>2. state = "" => printState = ""
    BY <2>1 DEF PausesAreOfPrints
  <2>3. state = "" => session'.id = session.id
    BY <1>0, <1>2, DeltaSession DEF StartsSession
  <2> QED BY <1>0, <2>1, <2>2, <2>3 DEF TickMemory
<1>3. CASE BeginTick
  <2>1. tickC < MaxTime /\ printState # ""
    BY <1>3 DEF BeginTick, IsActive
  <2> QED BY <1>0, <1>3, <2>1, BegunSession DEF TickMemory
<1>4. CASE TakeQuote
  <2>1. session'.id = session.id
    BY <1>0, <1>4, ClockTypes DEF TakeQuote, Sessions
  <2>2. UNCHANGED <<printState, pkt, tickC, now>> /\ pc = "quote" /\ pc' = "write"
    BY <1>4 DEF TakeQuote, envVars
  <2> QED BY <1>0, <2>1, <2>2 DEF TickMemory
<1>5. ASSUME NEW sig \in Signatures, StorePacket(sig) PROVE TickMemory'
  <2>1. /\ session'.id = session.id /\ UNCHANGED <<printState, now, tickC>>
        /\ pc = "write"
        /\ \/ pc' = "select"
           \/ pc' = "setsig" /\ pkt'.tick = pkt.tick /\ packets'[pkt'.rowID].tick_utc = pkt.tick
    BY <1>5, StoredRow DEF envVars
  <2> QED BY <1>0, <2>1 DEF TickMemory
<1>6. CASE BackfillSig \/ BackfillFails
  <2>1. session'.id = session.id /\ UNCHANGED <<printState, now, tickC>> /\ pc' = "select"
        /\ pc = "setsig"
    BY <1>6, SettledRow DEF envVars
  <2> QED BY <1>0, <2>1 DEF TickMemory
<1>7. CASE Crash
  <2>1. session'.id = 0 /\ printState' = "" /\ tickC' = 0 /\ now' = now /\ pc' = "down"
    BY <1>7 DEF Crash, Dies, NewSession
  <2> QED BY <2>1 DEF TickMemory
<1>8. CASE SkipQuote \/ QuoteFails \/ StoreFails \/ Restart
  <2>1. /\ UNCHANGED <<printState, session, tickC, now>>
        /\ \/ pc' = "select"
           \/ pc = "quote" /\ pc' = "write" /\ UNCHANGED pkt
    BY <1>8 DEF SkipQuote, QuoteFails, StoreFails, Restart, envVars
  <2> QED BY <1>0, <2>1 DEF TickMemory
<1>9. CASE TickIdle
  BY <1>0, <1>9 DEF TickIdle, loopVars, bufferVars, TickMemory
<1>10. CASE UNCHANGED packetizerVars
  BY <1>0, <1>10 DEF packetizerVars, loopVars, bufferVars, envVars, TickMemory
<1> QED BY <1>1, <1>2, <1>3, <1>4, <1>5, <1>6, <1>7, <1>8, <1>9, <1>10
        DEF PacketizerNext, onTick

\* Every step keeps the last packet one tick behind the one to come.
LEMMA StepLastTick ==
    ASSUME "write" \notin MayFail, "slow" \notin MayFail, PausesAreOfPrints, ChainInv,
           TicksInv, [PacketizerNext]_packetizerVars
    PROVE  LastTick'
<1> USE DEF InTick
<1>0. TypeOK /\ TickMemory /\ LastTick
  BY DEF ChainInv, TicksInv
<1>1. ASSUME \A i \in DOMAIN packets' : ~LastPacket(i)' PROVE LastTick'
  BY <1>1 DEF LastTick
<1>2. ASSUME session'.seq = 0, UNCHANGED packets PROVE LastTick'
  <2>1. \A i \in DOMAIN packets' : packets'[i].seq \in Nat
    BY <1>0, <1>2, RowTypes
  <2>2. \A i \in DOMAIN packets' : ~LastPacket(i)'
    BY <1>2, <2>1 DEF LastPacket
  <2> QED BY <1>1, <2>2
<1>3. CASE TickerFires
  <2>1. /\ UNCHANGED <<printState, session, pc, packets>>
        /\ pc # "down" => pc = "select" /\ tickC = 0 /\ tickC' = now'
        /\ now' = IF now < MaxTime THEN now + 1 ELSE now
    BY <1>3 DEF TickerFires, loopVars, bufferVars
  <2>2. ASSUME NEW i \in DOMAIN packets, LastPacket(i), pc = "select", IsActive(printState)
        PROVE  now < MaxTime /\ packets[i].tick_utc = now
    BY <1>0, <2>1, <2>2 DEF LastTick
  <2>3. ASSUME NEW i \in DOMAIN packets, LastPacket(i), pc = "select", IsActive(printState)
        PROVE  /\ packets[i].tick_utc < MaxTime /\ tickC' # 0
               /\ packets[i].tick_utc = now' - 1
    BY <1>0, <2>1, <2>2, <2>3, ClockTypes
  <2>4. ~InTick
    BY <2>1
  <2> QED BY <2>1, <2>3, <2>4 DEF LastTick, LastPacket
<1>4. ASSUME NEW state \in PrintStates, ApplyDelta(state) PROVE LastTick'
  <2>1. /\ UNCHANGED <<pc, tickC, now, packets>> /\ pc = "select" /\ printState' = state
        /\ state = printState \/ <<printState, state>> \in PrinterEdges
    BY <1>4 DEF ApplyDelta, bufferVars
  <2>2. CASE StartsSession(printState, state)
    BY <1>0, <1>2, <1>4, <2>1, <2>2, DeltaSession
  <2>3. CASE ~StartsSession(printState, state)
    <3>1. session'.id = session.id /\ session'.seq = session.seq
      BY <1>0, <1>4, <2>3, DeltaSession
    <3>2. CASE IsActive(state) => IsActive(printState)
      BY <1>0, <2>1, <3>1, <3>2 DEF LastTick, LastPacket
    <3>3. CASE IsActive(state) /\ ~IsActive(printState)
      <4>1. printState = ""
        BY <2>1, <2>3, <3>3 DEF IsActive, StartsSession, PausesAreOfPrints
      <4>2. session.id = 0
        BY <1>0, <4>1 DEF TickMemory
      <4>3. \A i \in DOMAIN packets : ~LastPacket(i)
        BY <4>2, NoSessionNoPacket
      <4> QED BY <1>1, <2>1, <3>1, <4>3 DEF LastPacket
    <3> QED BY <3>2, <3>3
  <2> QED BY <2>2, <2>3
<1>5. CASE BeginTick
  <2>1. CASE session.id = 0
    BY <1>0, <1>2, <1>5, <2>1, BegunSession
  <2>2. CASE session.id # 0
    <3>1. /\ session'.id = session.id /\ session'.seq = session.seq /\ tickC # 0
          /\ pc = "select" /\ pc' = "quote" /\ UNCHANGED <<packets, now>>
      BY <1>0, <1>5, <2>2, BegunSession
    <3>2. IsActive(printState)
      BY <1>5 DEF BeginTick
    <3> QED BY <1>0, <3>1, <3>2 DEF LastTick, LastPacket
  <2> QED BY <2>1, <2>2
<1>6. CASE TakeQuote
  <2>1. session'.id = session.id /\ session'.seq = session.seq
    BY <1>0, <1>6, ClockTypes DEF TakeQuote, Sessions
  <2>2. UNCHANGED <<packets, now>> /\ pc = "quote" /\ pc' = "write"
    BY <1>6 DEF TakeQuote, envVars
  <2> QED BY <1>0, <2>1, <2>2 DEF LastTick, LastPacket
<1>7. ASSUME NEW sig \in Signatures, StorePacket(sig) PROVE LastTick'
  <2>1. PICK row :
           /\ row.session_id = session.id /\ row.seq = session.seq
           /\ row.tick_utc = pkt.tick
           /\ DOMAIN packets' = DOMAIN packets \cup {Len(packets) + 1}
           /\ \A i \in DOMAIN packets : packets'[i] = packets[i]
           /\ packets'[Len(packets) + 1] = row
           /\ session'.id = session.id
           /\ \/ pc' = "select" /\ session'.seq = session.seq + 1
              \/ pc' = "setsig" /\ session'.seq = session.seq
           /\ pc = "write" /\ UNCHANGED <<tickC, now>>
    BY <1>7, StoredRow DEF envVars
  <2>2. tickC = 0 /\ pkt.tick = now /\ now < MaxTime
    BY <1>0, <2>1 DEF TickMemory
  <2>3. \A i \in DOMAIN packets :
           /\ packets[i].seq \in Nat
           /\ packets[i].session_id = session.id => packets[i].seq < session.seq
    BY <1>0, <2>1, RowTypes DEF ChainInv, ChainMemory, Settled
  <2>4. CASE pc' = "select"
    <3>1. \A i \in DOMAIN packets' : LastPacket(i)' => i = Len(packets) + 1
      <4>1. session.seq \in Nat /\ session'.seq = session.seq + 1
        BY <1>0, <2>1, <2>4, ClockTypes
      <4>2. ASSUME NEW i \in DOMAIN packets PROVE ~LastPacket(i)'
        BY <2>1, <2>3, <4>1, <4>2 DEF LastPacket
      <4> QED BY <2>1, <4>2
    <3>2. packets'[Len(packets) + 1].tick_utc = now' /\ now' < MaxTime /\ tickC' = 0
      BY <2>1, <2>2
    <3> QED BY <2>4, <3>1, <3>2 DEF LastTick
  <2>5. CASE pc' = "setsig"
    <3>1. \A i \in DOMAIN packets' : LastPacket(i)' => i \in DOMAIN packets /\ LastPacket(i)
      BY <1>0, <2>1, <2>5, ClockTypes DEF LastPacket
    <3>2. \A i \in DOMAIN packets : LastPacket(i) => packets'[i].tick_utc = now' - 1
      BY <1>0, <2>1 DEF LastTick
    <3> QED BY <2>5, <3>1, <3>2 DEF LastTick
  <2> QED BY <2>1, <2>4, <2>5
<1>8. CASE BackfillSig \/ BackfillFails
  <2>1. /\ DOMAIN packets' = DOMAIN packets
        /\ \A i \in DOMAIN packets :
              /\ packets'[i].session_id = packets[i].session_id
              /\ packets'[i].seq = packets[i].seq
              /\ packets'[i].tick_utc = packets[i].tick_utc
        /\ session'.id = session.id /\ session'.seq = session.seq + 1
        /\ pc = "setsig" /\ pc' = "select" /\ UNCHANGED <<tickC, now>>
    BY <1>8, SettledRow DEF envVars
  <2>2. /\ tickC = 0 /\ now < MaxTime /\ packets[pkt.rowID].tick_utc = now
    BY <1>0, <2>1 DEF TickMemory
  <2>3. \A i \in DOMAIN packets :
           /\ packets[i].seq \in Nat
           /\ packets[i].session_id = session.id =>
                 packets[i].seq < session.seq \/ i = pkt.rowID
    BY <1>0, <2>1, RowTypes DEF ChainInv, ChainMemory, Settled
  <2>4. \A i \in DOMAIN packets' : LastPacket(i)' => i = pkt.rowID
    BY <1>0, <2>1, <2>3, ClockTypes DEF LastPacket
  <2> QED BY <2>1, <2>2, <2>4 DEF LastTick
<1>9. CASE Crash
  BY <1>2, <1>9 DEF Crash, Dies, bufferVars, NewSession
<1>10. CASE SkipQuote \/ QuoteFails
  <2>1. UNCHANGED <<session, now, packets>> /\ pc = "quote" /\ pc' = "write"
    BY <1>10 DEF SkipQuote, QuoteFails, bufferVars, envVars
  <2> QED BY <1>0, <2>1 DEF LastTick, LastPacket
<1>11. ~StoreFails
  <2>1. pc = "write" => ~Duplicate(session.id, session.seq)
    BY <1>0, ClockTypes DEF ChainInv, ChainMemory, Settled, Duplicate
  <2> QED BY <2>1 DEF StoreFails
<1>12. CASE Restart
  <2>1. printState' = "" /\ pc' = "select"
    BY <1>0, <1>12 DEF Restart, TickMemory
  <2> QED BY <2>1 DEF LastTick, IsActive
<1>13. CASE TickIdle
  <2>1. ~IsActive(printState') /\ pc' = "select"
    BY <1>13 DEF TickIdle, loopVars
  <2> QED BY <2>1 DEF LastTick
<1>14. CASE UNCHANGED packetizerVars
  BY <1>0, <1>14 DEF packetizerVars, loopVars, bufferVars, envVars, LastTick, LastPacket
<1> QED BY <1>3, <1>4, <1>5, <1>6, <1>7, <1>8, <1>9, <1>10, <1>11, <1>12, <1>13, <1>14
        DEF PacketizerNext, onTick

\* Every step keeps consecutive packets one tick apart: the only row that comes is
\* the packet of the tick after the last packet's.
LEMMA StepOneApart ==
    ASSUME ChainInv, TicksInv, [PacketizerNext]_packetizerVars
    PROVE  OneApart(packets')
<1>0. TypeOK /\ TickMemory /\ LastTick /\ OneApart(packets)
  BY DEF ChainInv, TicksInv
<1>1. ASSUME UNCHANGED packets PROVE OneApart(packets')
  BY <1>0, <1>1
<1>2. ASSUME NEW sig \in Signatures, StorePacket(sig) PROVE OneApart(packets')
  <2> DEFINE last == Len(packets) + 1
  <2>1. PICK row :
           /\ row.session_id = session.id /\ row.seq = session.seq
           /\ row.tick_utc = pkt.tick
           /\ DOMAIN packets' = DOMAIN packets \cup {last}
           /\ \A i \in DOMAIN packets : packets'[i] = packets[i]
           /\ packets'[last] = row
           /\ pc = "write"
    BY <1>2, StoredRow
  <2> HIDE DEF last
  <2>2. pkt.tick = now
    BY <1>0, <2>1 DEF TickMemory, InTick
  <2>3. \A i \in DOMAIN packets :
           /\ packets[i].seq \in Nat
           /\ packets[i].session_id = session.id => packets[i].seq < session.seq
    BY <1>0, <2>1, RowTypes DEF ChainInv, ChainMemory, Settled
  <2>4. ASSUME NEW i \in DOMAIN packets', NEW j \in DOMAIN packets',
               packets'[j].session_id = packets'[i].session_id,
               packets'[i].seq = packets'[j].seq + 1
        PROVE  packets'[i].tick_utc = packets'[j].tick_utc + 1
    <3>1. CASE i \in DOMAIN packets /\ j \in DOMAIN packets
      <4>1. packets'[i] = packets[i] /\ packets'[j] = packets[j]
        BY <2>1, <3>1
      <4> QED BY <1>0, <2>4, <3>1, <4>1 DEF OneApart
    <3>2. CASE i = last /\ j \in DOMAIN packets
      <4>1. packets'[i] = row /\ packets'[j] = packets[j]
        BY <2>1, <3>2
      <4>2. LastPacket(j)
        BY <2>1, <2>4, <4>1 DEF LastPacket
      <4>3. packets[j].tick_utc = now - 1
        BY <1>0, <2>1, <3>2, <4>2 DEF LastTick, InTick
      <4> QED BY <1>0, <2>1, <2>2, <3>2, <4>1, <4>3, ClockTypes
    <3>3. CASE j = last
      <4>1. packets'[j] = row /\ packets'[i].session_id = session.id
            /\ packets'[i].seq = session.seq + 1
        BY <2>1, <2>4, <3>3
      <4>2. i # last
        BY <1>0, <2>1, <4>1, ClockTypes
      <4> QED BY <1>0, <2>1, <2>3, <4>1, <4>2, ClockTypes
    <3> QED BY <2>1, <3>1, <3>2, <3>3
  <2> QED BY <2>4 DEF OneApart
<1>3. CASE BackfillSig \/ BackfillFails
  <2>1. /\ DOMAIN packets' = DOMAIN packets
        /\ \A i \in DOMAIN packets :
              /\ packets'[i].session_id = packets[i].session_id
              /\ packets'[i].seq = packets[i].seq
              /\ packets'[i].tick_utc = packets[i].tick_utc
    BY <1>3, SettledRow
  <2> QED BY <1>0, <2>1 DEF OneApart
<1>4. CASE TickerFires \/ TickIdle \/ UNCHANGED packetizerVars
  BY <1>1, <1>4 DEF TickerFires, TickIdle, packetizerVars, bufferVars
<1>5. CASE BeginTick \/ \E state \in PrintStates : ApplyDelta(state)
  BY <1>1, <1>5 DEF BeginTick, ApplyDelta, bufferVars
<1>6. CASE SkipQuote \/ TakeQuote \/ QuoteFails \/ StoreFails \/ Crash \/ Restart
  BY <1>1, <1>6 DEF SkipQuote, TakeQuote, QuoteFails, StoreFails, Crash, Restart, bufferVars
<1> QED BY <1>2, <1>3, <1>4, <1>5, <1>6 DEF PacketizerNext, onTick

TicksLog == TicksInv /\ \A T \in Snapshots : OneApart(T.packets)

\* No tick of an active print is lost, faults or not: when inserts succeed, ticks
\* are handled in their period and no pause follows an idle state, consecutive
\* packets of a session are one tick apart, through pauses, crashes and power
\* failures.
THEOREM TicksCorrect ==
    ASSUME "write" \notin MayFail, "slow" \notin MayFail, PausesAreOfPrints
    PROVE  DaemonSpec => []TicksAccountedFor
<1>1. DaemonInit => TicksLog
  <2> SUFFICES ASSUME DaemonInit PROVE TicksLog
    OBVIOUS
  <2>1. /\ packets = <<>> /\ unsynced = <<>> /\ session.id = 0 /\ pc = "select" /\ tickC = 0
    BY DEF DaemonInit, PacketizerInit, BufferInit, NewSession
  <2> QED BY <2>1 DEF TicksLog, TicksInv, TickMemory, LastTick, OneApart, InTick, Snapshots
<1>2. DaemonInv /\ TicksLog /\ [DaemonNext]_daemonVars => TicksLog'
  <2> SUFFICES ASSUME DaemonInv, TicksLog, [DaemonNext]_daemonVars PROVE TicksLog'
    OBVIOUS
  <2>1. ChainInv /\ TicksInv
    BY DEF DaemonInv, TablesInv, TicksLog
  <2>2. ASSUME [PacketizerNext]_packetizerVars PROVE TicksInv'
    BY <2>1, <2>2, StepTickMemory, StepLastTick, StepOneApart DEF TicksInv
  <2>3. ASSUME Marks PROVE TicksInv'
    <3>1. UNCHANGED <<printState, session, pc, pkt, tickC, now>>
      BY <2>3 DEF Marks, loopVars, envVars
    <3>2. /\ DOMAIN packets' = DOMAIN packets
          /\ \A i \in DOMAIN packets :
                /\ packets'[i].session_id = packets[i].session_id
                /\ packets'[i].seq = packets[i].seq
                /\ packets'[i].tick_utc = packets[i].tick_utc
      BY <2>3 DEF Marks, OnlyMarks, SameLink
    <3>3. pc = "setsig" => pkt.rowID \in DOMAIN packets
      BY <2>1 DEF ChainInv, ChainMemory
    <3>4. TickMemory'
      BY <2>1, <3>1, <3>2, <3>3 DEF TicksInv, TickMemory, InTick
    <3>5. LastTick'
      BY <2>1, <3>1, <3>2 DEF TicksInv, LastTick, LastPacket, InTick
    <3>6. OneApart(packets')
      BY <2>1, <3>2 DEF TicksInv, OneApart
    <3> QED BY <3>4, <3>5, <3>6 DEF TicksInv
  <2>4. ASSUME PowerFails, Loses PROVE TicksInv'
    <3>1. OneApart(packets')
      BY <2>4 DEF Loses, TicksLog
    <3>2. session'.id = 0 /\ printState' = "" /\ tickC' = 0 /\ pc' = "down"
      BY <2>4 DEF PowerFails, Dies, NewSession
    <3> QED BY <3>1, <3>2 DEF TicksInv, TickMemory, LastTick, InTick
  <2>5. ASSUME NEW T \in Snapshots' PROVE OneApart(T.packets)
    <3>1. CASE T \in Snapshots
      BY <3>1 DEF TicksLog
    <3>2. CASE T.packets = packets /\ T.quotes = quotes
      BY <2>1, <3>2 DEF TicksInv
    <3> QED BY <3>1, <3>2, LogStep
  <2>6. TicksInv'
    BY <2>2, <2>3, <2>4, EvidenceStep
  <2> QED BY <2>5, <2>6 DEF TicksLog
<1>3. TicksLog => TicksAccountedFor
  BY DEF TicksLog, TicksInv, OneApart, TicksAccountedFor, Precedes
<1> QED BY <1>1, <1>2, <1>3, DaemonInvariant, PTL DEF DaemonSpec

-----------------------------------------------------------------------------
(***************************************************************************)
(* Silence.  silentTicks is an upper bound of the quiet packets since the  *)
(* last fault: a delta resets it although a tick may be waiting, and a     *)
(* failed insert counts without a packet.  A fault is recorded before its  *)
(* packet and stays on record for the packet that gets the number.         *)
(***************************************************************************)
FaultedRows == {i \in QuietRows : Faulted(session.id, packets[i].seq)}

\* The packet to come carries a fault already.
Overdue == pc # "setsig" /\ Faulted(session.id, session.seq)

\* silentTicks counts the packet that onTick is about to store.
Ahead == IF pc \in {"quote", "write"} THEN 1 ELSE 0

Allowance == Cardinality(FaultedRows) * (MaxSilentTicks + 1)

SilenceMemory ==
    /\ session.silentTicks <= MaxSilentTicks
    /\ Cardinality(QuietRows) <= Allowance + MaxSilentTicks
    /\ ~Overdue => Cardinality(QuietRows) + Ahead <= Allowance + session.silentTicks

\* The packets of the session are of ticks that have passed.
RowClock ==
    \A i \in DOMAIN packets : packets[i].session_id = session.id =>
        /\ packets[i].tick_utc <= now
        /\ tickC # 0 => packets[i].tick_utc <= tickC
        /\ InTick => packets[i].tick_utc <= pkt.tick

SilenceInv == ClockMemory /\ RowClock /\ SilenceMemory

\* One more fault allows one more interval of quiet packets.
LEMMA AllowanceGrows ==
    ASSUME NEW f \in Nat, NEW g \in Nat, NEW d \in Nat, f <= g
    PROVE  f * d <= g * d /\ (f + 1) * d = f * d + d /\ f * d \in Nat
  OBVIOUS

\* What fewer faults allowed more faults allow too.
LEMMA MoreAllowed ==
    ASSUME NEW c \in Nat, NEW a \in Nat, NEW b \in Nat, NEW m \in Nat, c <= a + m, a <= b
    PROVE  c <= b + m
  OBVIOUS

\* Quiet packets within the allowance leave no interval without a fault.
LEMMA AllowanceBounds ==
    ASSUME NEW q \in Nat, NEW f \in Nat, NEW d \in Nat \ {0}, q <= f * d + (d - 1)
    PROVE  f >= q \div d
<1> DEFINE k == q \div d
<1>1. k \in Nat /\ d * k <= q
  OBVIOUS
<1> HIDE DEF k
<1>2. SUFFICES ASSUME k >= f + 1 PROVE FALSE
  BY <1>1 DEF k
<1>3. d * k >= d * (f + 1)
  BY <1>1, <1>2
<1>4. d * (f + 1) = f * d + d
  OBVIOUS
<1> QED BY <1>1, <1>3, <1>4

\* The rows that are counted are finitely many.
LEMMA QuietFinite ==
    ASSUME NEW P \in Seq(PacketRows), NEW Q \in SUBSET DOMAIN P, NEW F \in SUBSET Q
    PROVE  /\ IsFiniteSet(Q) /\ IsFiniteSet(F)
           /\ Cardinality(Q) \in Nat /\ Cardinality(F) \in Nat
<1>1. DOMAIN P = 1 .. Len(P) /\ Len(P) \in Nat
  OBVIOUS
<1>2. IsFiniteSet(1 .. Len(P))
  BY <1>1, FS_Interval
<1>3. IsFiniteSet(Q)
  BY <1>1, <1>2, FS_Subset
<1>4. IsFiniteSet(F)
  BY <1>3, FS_Subset
<1> QED BY <1>3, <1>4, FS_CardinalityType

\* The packets of a session are never ahead of the clock.
LEMMA StepRowClock ==
    ASSUME ChainInv, ClockMemory, RowClock, [PacketizerNext]_packetizerVars
    PROVE  RowClock'
<1> USE DEF InTick
<1>0. TypeOK /\ started \in Nat
  BY ClockTypes DEF ChainInv
<1>1. ASSUME UNCHANGED packets, session'.id = 0 \/ session'.id = started + 1 PROVE RowClock'
  <2>1. \A i \in DOMAIN packets : packets[i].session_id \in 1 .. started
    BY DEF ChainInv, ChainMemory
  <2> QED BY <1>0, <1>1, <2>1 DEF RowClock
<1>2. CASE TickerFires
  <2>1. /\ UNCHANGED <<session, pkt, pc, packets>>
        /\ now' \in {now, now + 1}
        /\ tickC' \in {tickC, now'}
        /\ tickC # 0 => tickC' = tickC
    BY <1>2, <1>0, ClockTypes DEF TickerFires, loopVars, bufferVars
  <2> QED BY <1>0, <2>1, ClockTypes DEF RowClock
<1>3. ASSUME NEW state \in PrintStates, ApplyDelta(state) PROVE RowClock'
  <2>1. UNCHANGED <<pc, pkt, tickC, now, packets>>
    BY <1>3 DEF ApplyDelta, bufferVars
  <2>2. session'.id = started + 1 \/ session'.id = session.id
    BY <1>0, <1>3, DeltaSession
  <2> QED BY <1>1, <2>1, <2>2 DEF RowClock
<1>4. CASE BeginTick
  <2>1. CASE session.id = 0
    BY <1>0, <1>1, <1>4, <2>1, BegunSession
  <2>2. CASE session.id # 0
    <3>1. /\ session'.id = session.id /\ tickC # 0 /\ tickC' = 0 /\ pkt'.tick = tickC
          /\ UNCHANGED <<packets, now>>
      BY <1>0, <1>4, <2>2, BegunSession
    <3> QED BY <3>1 DEF RowClock
  <2> QED BY <2>1, <2>2
<1>5. ASSUME NEW sig \in Signatures, StorePacket(sig) PROVE RowClock'
  <2>1. PICK row :
           /\ row.tick_utc = pkt.tick
           /\ DOMAIN packets' = DOMAIN packets \cup {Len(packets) + 1}
           /\ \A i \in DOMAIN packets : packets'[i] = packets[i]
           /\ packets'[Len(packets) + 1] = row
           /\ session'.id = session.id
           /\ \/ pc' = "select"
              \/ pc' = "setsig" /\ pkt'.tick = pkt.tick
           /\ pc = "write" /\ UNCHANGED <<tickC, now>>
    BY <1>5, StoredRow DEF envVars
  <2>2. pkt.tick <= now /\ (tickC # 0 => pkt.tick <= tickC) /\ pkt.tick <= pkt.tick
    BY <1>0, ClockTypes DEF ClockMemory
  <2> QED BY <2>1, <2>2 DEF RowClock
<1>6. CASE BackfillSig \/ BackfillFails
  <2>1. /\ DOMAIN packets' = DOMAIN packets
        /\ \A i \in DOMAIN packets :
              /\ packets'[i].session_id = packets[i].session_id
              /\ packets'[i].tick_utc = packets[i].tick_utc
        /\ session'.id = session.id /\ pc' = "select" /\ UNCHANGED <<tickC, now>>
    BY <1>6, SettledRow DEF envVars
  <2> QED BY <2>1 DEF RowClock
<1>7. CASE Crash
  BY <1>1, <1>7 DEF Crash, Dies, bufferVars, NewSession
<1>8. CASE TakeQuote
  <2>1. session'.id = session.id
    BY <1>0, <1>8, ClockTypes DEF TakeQuote, Sessions
  <2> QED BY <1>8, <2>1 DEF TakeQuote, envVars, RowClock
<1>9. CASE SkipQuote \/ QuoteFails \/ StoreFails \/ Restart
  <2>1. /\ UNCHANGED <<packets, session, tickC, now>>
        /\ \/ pc' = "select"
           \/ pc = "quote" /\ UNCHANGED pkt
    BY <1>9 DEF SkipQuote, QuoteFails, StoreFails, Restart, bufferVars, envVars
  <2> QED BY <2>1 DEF RowClock
<1>10. CASE TickIdle
  BY <1>10 DEF TickIdle, loopVars, bufferVars, RowClock
<1>11. CASE UNCHANGED packetizerVars
  BY <1>11 DEF packetizerVars, loopVars, bufferVars, envVars, RowClock
<1> QED BY <1>2, <1>3, <1>4, <1>5, <1>6, <1>7, <1>8, <1>9, <1>10, <1>11
        DEF PacketizerNext, onTick

\* Before and after a step the counts are numbers.
LEMMA SilenceTypes ==
    ASSUME TypeOK, TypeOK'
    PROVE  /\ Cardinality(QuietRows) \in Nat /\ Cardinality(FaultedRows) \in Nat
           /\ IsFiniteSet(QuietRows) /\ IsFiniteSet(FaultedRows)
           /\ Cardinality(QuietRows') \in Nat /\ Cardinality(FaultedRows') \in Nat
           /\ IsFiniteSet(FaultedRows')
           /\ Allowance \in Nat /\ Allowance' \in Nat /\ MaxSilentTicks \in Nat
           /\ session.silentTicks \in Nat /\ session'.silentTicks \in Nat
           /\ Ahead \in {0, 1} /\ Ahead' \in {0, 1}
<1>1. /\ packets \in Seq(PacketRows) /\ session.silentTicks \in Nat
      /\ packets' \in Seq(PacketRows) /\ session'.silentTicks \in Nat
  BY DEF TypeOK, BufferTypeOK, Sessions
<1>2. /\ QuietRows \in SUBSET DOMAIN packets /\ FaultedRows \in SUBSET QuietRows
      /\ QuietRows' \in SUBSET DOMAIN packets' /\ FaultedRows' \in SUBSET QuietRows'
  BY DEF QuietRows, FaultedRows
<1>3. /\ Cardinality(QuietRows) \in Nat /\ Cardinality(FaultedRows) \in Nat
      /\ IsFiniteSet(QuietRows) /\ IsFiniteSet(FaultedRows)
  BY <1>1, <1>2, QuietFinite
<1>4. /\ Cardinality(QuietRows') \in Nat /\ Cardinality(FaultedRows') \in Nat
      /\ IsFiniteSet(FaultedRows')
  BY <1>1, <1>2, QuietFinite
<1>5. MaxSilentTicks \in Nat /\ MaxSilentTicks + 1 \in Nat
  BY ConfigAssumption
<1>6. Allowance \in Nat /\ Allowance' \in Nat
  BY <1>3, <1>4, <1>5, AllowanceGrows DEF Allowance
<1> QED BY <1>1, <1>3, <1>4, <1>5, <1>6 DEF Ahead

\* Without quiet packets nothing is owed.
LEMMA NoQuietRows ==
    ASSUME TypeOK, TypeOK', QuietRows' = {}, session'.silentTicks <= MaxSilentTicks,
           Overdue' \/ Ahead' <= session'.silentTicks
    PROVE  SilenceMemory'
<1>1. Cardinality(QuietRows') = 0
  BY FS_EmptySet
<1>2. Cardinality(QuietRows') <= Allowance' + MaxSilentTicks
  BY <1>1, SilenceTypes
<1>3. ASSUME ~Overdue' PROVE Cardinality(QuietRows') + Ahead' <= Allowance' + session'.silentTicks
  BY <1>1, <1>3, SilenceTypes
<1> QED BY <1>2, <1>3 DEF SilenceMemory

\* A step that keeps the rows, the faults and the count keeps what is owed.
LEMMA SameQuietRows ==
    ASSUME TypeOK, TypeOK', SilenceMemory,
           UNCHANGED <<faults, lastDelta>>, session'.id = session.id,
           session'.silentTicks = session.silentTicks,
           DOMAIN packets' = DOMAIN packets,
           \A i \in DOMAIN packets : /\ packets'[i].session_id = packets[i].session_id
                                     /\ packets'[i].seq = packets[i].seq
                                     /\ packets'[i].tick_utc = packets[i].tick_utc,
           Overdue => Overdue', Ahead' <= Ahead
    PROVE  SilenceMemory'
<1>1. QuietRows' = QuietRows
  BY DEF QuietRows
<1>2. FaultedRows' = FaultedRows
  BY <1>1 DEF FaultedRows, Faulted, QuietRows
<1>3. Cardinality(QuietRows') = Cardinality(QuietRows) /\ Allowance' = Allowance
  BY <1>1, <1>2 DEF Allowance
<1>4. ASSUME ~Overdue' PROVE Cardinality(QuietRows') + Ahead' <= Allowance' + session'.silentTicks
  <2>1. Cardinality(QuietRows) + Ahead <= Allowance + session.silentTicks
    BY <1>4 DEF SilenceMemory
  <2> QED BY <1>3, <2>1, SilenceTypes
<1> QED BY <1>3, <1>4 DEF SilenceMemory

\* Every step keeps the quiet packets within the allowance of the faults.
LEMMA StepSilence ==
    ASSUME "fault" \notin MayFail, ChainInv, ChainInv', SilenceInv,
           [PacketizerNext]_packetizerVars
    PROVE  SilenceMemory'
<1> DEFINE c == Cardinality(QuietRows)
           g == Cardinality(FaultedRows)
           d == MaxSilentTicks + 1
           s == session.silentTicks
           a == g * d
<1>0. /\ TypeOK /\ TypeOK' /\ SilenceMemory /\ RowClock /\ ClockMemory
      /\ started \in Nat
  BY ClockTypes DEF ChainInv, SilenceInv
<1>1. /\ c \in Nat /\ g \in Nat /\ IsFiniteSet(QuietRows) /\ IsFiniteSet(FaultedRows)
      /\ c' \in Nat /\ g' \in Nat /\ IsFiniteSet(FaultedRows')
      /\ s \in Nat /\ s' \in Nat
  BY <1>0, SilenceTypes
<1>2. d \in Nat \ {0} /\ MaxSilentTicks \in Nat /\ MaxSilentTicks = d - 1
  BY ConfigAssumption
<1>3. a \in Nat /\ a' \in Nat /\ Ahead \in {0, 1}
  BY <1>1, <1>2, AllowanceGrows DEF Ahead
<1>4. /\ s <= MaxSilentTicks /\ c <= a + MaxSilentTicks
      /\ ~Overdue => c + Ahead <= a + s
  BY <1>0 DEF SilenceMemory, Allowance
<1>5. ASSUME s' <= MaxSilentTicks, c' <= a' + MaxSilentTicks,
             Overdue' \/ c' + Ahead' <= a' + s'
      PROVE  SilenceMemory'
  BY <1>5 DEF SilenceMemory, Allowance
<1> HIDE DEF c, g, d, a
<1>9. ASSUME UNCHANGED packets, session'.id = 0 \/ session'.id = started + 1
      PROVE  QuietRows' = {}
  <2>1. \A i \in DOMAIN packets : packets[i].session_id \in 1 .. started
    BY DEF ChainInv, ChainMemory
  <2> QED BY <1>0, <1>9, <2>1 DEF QuietRows
<1>10. ASSUME NEW state \in PrintStates, ApplyDelta(state) PROVE SilenceMemory'
  <2>1. UNCHANGED <<packets, now>> /\ lastDelta' = now /\ pc' = "select"
    BY <1>10 DEF ApplyDelta, bufferVars
  <2>2. s' = 0
    <3>1. session' = startNewSession \/ session' = [session EXCEPT !.silentTicks = 0]
      BY <1>10 DEF ApplyDelta
    <3> QED BY <1>0, <3>1 DEF startNewSession, NewSession, TypeOK, Sessions
  <2>3. QuietRows' = {}
    <3>1. CASE session'.id = started + 1
      BY <1>9, <2>1, <3>1
    <3>2. CASE session'.id = session.id
      <4>1. \A i \in DOMAIN packets : packets[i].session_id = session.id =>
                                        ~(packets[i].tick_utc > now)
        BY <1>0, ClockTypes DEF RowClock
      <4> QED BY <2>1, <3>2, <4>1 DEF QuietRows
    <3> QED BY <1>0, <1>10, <3>1, <3>2, DeltaSession
  <2> QED BY <1>0, <1>2, NoQuietRows, <2>1, <2>2, <2>3 DEF Ahead
<1>11. CASE BeginTick
  <2> DEFINE ts == TickSession
  <2>1. ts \in Sessions
    BY <1>0, SessionTypes DEF TypeOK
  <2>2. /\ s' = IF Silent(ts) THEN 0 ELSE ts.silentTicks + 1
        /\ session'.id = ts.id /\ session'.seq = ts.seq
    BY <1>11, <2>1 DEF BeginTick, Sessions
  <2>3. /\ ~Silent(ts) => faults' = faults
        /\ Silent(ts) => faults' = Append(faults, [session_id |-> ts.id, seq |-> ts.seq])
        /\ UNCHANGED <<packets, lastDelta>> /\ pc = "select" /\ pc' = "quote"
    BY <1>11 DEF BeginTick, RecordProvenanceFault
  <2>4. Silent(ts) => Overdue'
    <3> SUFFICES ASSUME Silent(ts) PROVE Overdue'
      OBVIOUS
    <3> DEFINE new == [session_id |-> ts.id, seq |-> ts.seq]
    <3>1. /\ Len(faults) + 1 \in DOMAIN faults'
          /\ faults'[Len(faults) + 1] = new
      BY <1>0, <2>3, InsertedRow DEF TypeOK, BufferTypeOK
    <3>2. new.session_id = session'.id /\ new.seq = session'.seq
      BY <2>2
    <3> QED BY <2>3, <3>1, <3>2 DEF Overdue, Faulted
  <2>5. \A f \in DOMAIN faults : f \in DOMAIN faults' /\ faults'[f] = faults[f]
    <3>1. CASE ~Silent(ts)
      BY <2>3, <3>1
    <3>2. CASE Silent(ts)
      <4> DEFINE new == [session_id |-> ts.id, seq |-> ts.seq]
      <4>1. faults' = Append(faults, new)
        BY <2>3, <3>2
      <4>2. faults \in Seq(FaultRows)
        BY DEF ChainInv, TypeOK, BufferTypeOK
      <4> HIDE DEF new
      <4> QED BY <4>1, <4>2, InsertedRow
    <3> QED BY <3>1, <3>2
  <2>6. ts.silentTicks \in Nat
    BY <2>1 DEF Sessions
  <2>7. s' <= MaxSilentTicks
    BY <1>2, <2>2, <2>6 DEF Silent
  <2>8. CASE session.id = 0
    <3>1. ts = NewSession(started + 1)
      BY <2>8 DEF TickSession, startNewSession
    <3>2. ts.silentTicks = 0 /\ session'.id = started + 1
      BY <2>2, <3>1 DEF NewSession
    <3>3. QuietRows' = {}
      BY <1>9, <2>3, <3>2
    <3>4. Overdue' \/ Ahead' <= s'
      <4>1. ~Silent(ts) => s' = 1
        BY <2>2, <3>2
      <4> QED BY <2>4, <4>1 DEF Ahead
    <3> QED BY <1>0, NoQuietRows, <2>7, <3>3, <3>4
  <2>9. CASE session.id # 0
    <3>1. ts = session
      BY <2>9 DEF TickSession
    <3>2. session'.id = session.id /\ session'.seq = session.seq
      BY <2>2, <3>1
    <3>3. QuietRows' = QuietRows
      BY <2>3, <3>2 DEF QuietRows
    <3>4. FaultedRows \subseteq FaultedRows'
      BY <2>3, <2>5, <3>2, <3>3 DEF FaultedRows, Faulted
    <3>5. g <= g'
      BY <1>1, <3>4, FS_Subset DEF g
    <3>6. a <= a'
      BY <1>1, <1>2, <3>5, AllowanceGrows DEF a, d
    <3>7. c' = c
      BY <3>3 DEF c
    <3>8. CASE Silent(ts)
      <4>1. c' <= a' + MaxSilentTicks
        BY <1>1, <1>2, <1>3, <1>4, <3>6, <3>7, MoreAllowed
      <4> QED BY <1>5, <2>4, <2>7, <3>8, <4>1
    <3>9. CASE ~Silent(ts)
      <4>1. s' = s + 1
        BY <2>2, <3>1, <3>9
      <4>2. Overdue => Overdue'
        BY <2>3, <2>5, <3>2 DEF Overdue, Faulted
      <4>3. Ahead = 0 /\ Ahead' = 1
        BY <2>3 DEF Ahead
      <4>4. c' <= a' + MaxSilentTicks
        BY <1>1, <1>2, <1>3, <1>4, <3>6, <3>7, MoreAllowed
      <4>5. ~Overdue => c' + Ahead' <= a' + s'
        BY <1>1, <1>3, <1>4, <3>6, <3>7, <4>1, <4>3
      <4> QED BY <1>5, <2>7, <4>2, <4>4, <4>5
    <3> QED BY <3>8, <3>9
  <2> QED BY <2>8, <2>9
<1>12. ASSUME NEW sig \in Signatures, StorePacket(sig) PROVE SilenceMemory'
  <2> DEFINE last == Len(packets) + 1
  <2>1. PICK row :
           /\ row.session_id = session.id /\ row.seq = session.seq
           /\ row.tick_utc = pkt.tick
           /\ DOMAIN packets' = DOMAIN packets \cup {last}
           /\ last \notin DOMAIN packets
           /\ \A i \in DOMAIN packets : packets'[i] = packets[i]
           /\ packets'[last] = row
           /\ session'.id = session.id
           /\ pc' \in {"select", "setsig"}
           /\ pc = "write" /\ UNCHANGED lastDelta
    BY <1>12, StoredRow DEF envVars
  <2>2. UNCHANGED faults
    BY <1>12 DEF StorePacket
  <2>3. s' = s
    <3>1. session' = session \/ \E b3 : session' = Advance(b3)
      BY <1>12 DEF StorePacket
    <3> QED BY <1>0, <3>1 DEF Advance, TypeOK, Sessions
  <2>4. Ahead = 1 /\ Ahead' = 0 /\ (Overdue <=> Faulted(session.id, session.seq))
    BY <2>1 DEF Ahead, Overdue
  <2> HIDE DEF last
  <2>5. CASE pkt.tick > lastDelta
    <3>1. QuietRows' = QuietRows \cup {last} /\ last \notin QuietRows
      BY <2>1, <2>5 DEF QuietRows
    <3>2. c' = c + 1
      BY <1>1, <3>1, FS_AddElement DEF c
    <3>3. CASE Overdue
      <4>1. FaultedRows' = FaultedRows \cup {last} /\ last \notin FaultedRows
        BY <2>1, <2>2, <2>4, <3>1, <3>3 DEF FaultedRows, Faulted, QuietRows
      <4>2. g' = g + 1
        BY <1>1, <4>1, FS_AddElement DEF g
      <4>3. a' = a + d
        BY <1>1, <1>2, <4>2, AllowanceGrows DEF a, d
      <4> QED BY <1>1, <1>2, <1>3, <1>4, <1>5, <2>3, <2>4, <3>2, <4>3
    <3>4. CASE ~Overdue
      <4>1. FaultedRows' = FaultedRows
        BY <2>1, <2>2, <2>4, <3>1, <3>4 DEF FaultedRows, Faulted, QuietRows
      <4>2. g' = g /\ a' = a
        BY <4>1 DEF g, a
      <4> QED BY <1>1, <1>2, <1>3, <1>4, <1>5, <2>3, <2>4, <3>2, <3>4, <4>2
    <3> QED BY <3>3, <3>4
  <2>6. CASE ~(pkt.tick > lastDelta)
    <3>1. lastDelta \in Nat /\ pkt.tick \in Nat
      BY <1>0, ClockTypes DEF TypeOK
    <3>2. \A i \in DOMAIN packets : packets[i].session_id = session.id =>
                                      ~(packets[i].tick_utc > lastDelta)
      BY <1>0, <2>1, <2>6, <3>1, ClockTypes DEF RowClock, InTick
    <3>3. QuietRows' = {}
      BY <2>1, <2>6, <3>2 DEF QuietRows
    <3> QED BY <1>0, <1>1, <1>2, <1>4, NoQuietRows, <2>3, <2>4, <3>3
  <2> QED BY <2>5, <2>6
<1>13. CASE BackfillSig \/ BackfillFails
  <2>1. s' = s
    <3>1. \E b3 : session' = Advance(b3)
      BY <1>13 DEF BackfillSig, BackfillFails
    <3> QED BY <1>0, <3>1 DEF Advance, TypeOK, Sessions
  <2>2. UNCHANGED faults
    BY <1>13 DEF BackfillSig, BackfillFails, bufferVars
  <2>3. ~Overdue /\ Ahead' <= Ahead
    BY <1>13 DEF BackfillSig, BackfillFails, Overdue, Ahead
  <2> QED BY <1>0, SameQuietRows, <1>13, <2>1, <2>2, <2>3, SettledRow DEF envVars
<1>14. CASE TakeQuote
  <2>1. /\ session'.id = session.id /\ session'.seq = session.seq
        /\ session'.silentTicks = session.silentTicks
    BY <1>0, <1>14 DEF TakeQuote, TypeOK, Sessions
  <2>2. UNCHANGED <<packets, faults, lastDelta>> /\ pc = "quote" /\ pc' = "write"
    BY <1>14 DEF TakeQuote, envVars
  <2>3. (Overdue => Overdue') /\ Ahead' <= Ahead
    BY <2>1, <2>2 DEF Overdue, Faulted, Ahead
  <2> QED BY <1>0, SameQuietRows, <2>1, <2>2, <2>3
<1>15. CASE SkipQuote \/ QuoteFails \/ StoreFails \/ Restart
  <2>1. /\ UNCHANGED <<packets, faults, session, lastDelta>>
        /\ pc' \in {"select", "write"} /\ (pc' = "write" => pc = "quote") /\ pc # "setsig"
    BY <1>15 DEF SkipQuote, QuoteFails, StoreFails, Restart, bufferVars, envVars
  <2>2. (Overdue => Overdue') /\ Ahead' <= Ahead
    BY <2>1 DEF Overdue, Faulted, Ahead
  <2> QED BY <1>0, SameQuietRows, <2>1, <2>2
<1>16. CASE TickerFires \/ TickIdle \/ UNCHANGED packetizerVars
  <2>1. UNCHANGED <<packets, faults, session, lastDelta, pc>>
    BY <1>16 DEF TickerFires, TickIdle, packetizerVars, bufferVars, loopVars, envVars
  <2>2. (Overdue => Overdue') /\ Ahead' <= Ahead
    BY <2>1 DEF Overdue, Faulted, Ahead
  <2> QED BY <1>0, SameQuietRows, <2>1, <2>2
<1>17. CASE Crash
  <2>1. UNCHANGED packets /\ session' = NewSession(0) /\ pc' = "down"
    BY <1>17 DEF Crash, Dies, bufferVars
  <2>2. QuietRows' = {} /\ s' = 0 /\ Ahead' = 0
    BY <1>9, <2>1 DEF NewSession, Ahead
  <2> QED BY <1>0, <1>2, NoQuietRows, <2>2
<1> QED BY <1>10, <1>11, <1>12, <1>13, <1>14, <1>15, <1>16, <1>17
        DEF PacketizerNext, onTick

\* A printer that stays silent is marked at least every (MaxSilentTicks + 1)st
\* packet, whatever fails but the fault log itself: failed inserts, dropped ticks,
\* crashes and power failures never let the count of silent ticks fall behind.
THEOREM SilenceCorrect ==
    ASSUME "fault" \notin MayFail
    PROVE  DaemonSpec => []SilenceFaulted
<1>0. MaxSilentTicks \in Nat
  BY ConfigAssumption
<1>1. DaemonInit => SilenceInv
  <2> SUFFICES ASSUME DaemonInit PROVE SilenceInv
    OBVIOUS
  <2>1. /\ packets = <<>> /\ session.id = 0 /\ pc = "select" /\ session.silentTicks = 0
        /\ session.lastQuoteAt = 0 /\ pkt.tick = 0 /\ now = 0 /\ tickC = 0
    BY DEF DaemonInit, PacketizerInit, BufferInit, NewSession, NoPacket
  <2>2. ClockMemory /\ RowClock
    BY <2>1 DEF ClockMemory, RowClock, InTick
  <2>3. QuietRows = {} /\ FaultedRows = {}
    BY <2>1 DEF QuietRows, FaultedRows
  <2>4. Cardinality(QuietRows) = 0 /\ Cardinality(FaultedRows) = 0 /\ Ahead = 0
    BY <2>1, <2>3, FS_EmptySet DEF Ahead
  <2>5. SilenceMemory
    BY <1>0, <2>1, <2>4 DEF SilenceMemory, Allowance
  <2> QED BY <2>2, <2>5 DEF SilenceInv
<1>2. DaemonInv /\ SilenceInv /\ [DaemonNext]_daemonVars => SilenceInv'
  <2> SUFFICES ASSUME DaemonInv, SilenceInv, [DaemonNext]_daemonVars PROVE SilenceInv'
    OBVIOUS
  <2>1. /\ ChainInv /\ ChainInv' /\ TypeOK /\ TypeOK'
        /\ ClockMemory /\ RowClock /\ SilenceMemory
    BY DaemonStep DEF DaemonInv, TablesInv, ChainInv, SilenceInv
  <2>2. CASE [PacketizerNext]_packetizerVars
    BY <2>1, <2>2, StepClock, StepRowClock, StepSilence DEF SilenceInv
  <2>3. CASE Marks
    <3>1. UNCHANGED <<session, pc, pkt, tickC, now, lastDelta>>
      BY <2>3 DEF Marks, loopVars, envVars
    <3>2. /\ DOMAIN packets' = DOMAIN packets /\ UNCHANGED faults
          /\ \A i \in DOMAIN packets :
                /\ packets'[i].session_id = packets[i].session_id
                /\ packets'[i].seq = packets[i].seq
                /\ packets'[i].tick_utc = packets[i].tick_utc
      BY <2>3 DEF Marks, OnlyMarks, SameLink
    <3>3. pc = "setsig" => pkt.rowID \in DOMAIN packets
      BY <2>1 DEF ChainInv, ChainMemory
    <3>4. ClockMemory' /\ RowClock'
      BY <2>1, <3>1, <3>2, <3>3 DEF ClockMemory, RowClock, InTick
    <3>5. (Overdue => Overdue') /\ Ahead' <= Ahead
      BY <3>1, <3>2 DEF Overdue, Faulted, Ahead
    <3>6. SilenceMemory'
      BY <2>1, <3>1, <3>2, <3>5, SameQuietRows
    <3> QED BY <3>4, <3>6 DEF SilenceInv
  <2>4. CASE PowerFails /\ Loses
    <3>1. /\ session'.id = 0 /\ session'.silentTicks = 0 /\ session'.lastQuoteAt = 0
          /\ pkt'.tick = 0 /\ tickC' = 0 /\ now' = now /\ pc' = "down"
      BY <2>4 DEF PowerFails, Dies, NoPacket, NewSession
    <3>2. \A i \in DOMAIN packets' : packets'[i].session_id # session'.id
      BY <2>1, <3>1 DEF ChainInv, ChainMemory
    <3>3. QuietRows' = {}
      BY <3>2 DEF QuietRows
    <3>4. SilenceMemory'
      BY <1>0, <2>1, <3>1, <3>3, NoQuietRows DEF Ahead
    <3>5. ClockMemory' /\ RowClock'
      BY <2>1, <3>1, <3>2, ClockTypes DEF ClockMemory, RowClock, InTick
    <3> QED BY <3>4, <3>5 DEF SilenceInv
  <2> QED BY <2>2, <2>3, <2>4, EvidenceStep
<1>3. DaemonInv /\ SilenceInv => SilenceFaulted
  <2> SUFFICES ASSUME DaemonInv, SilenceInv PROVE SilenceFaulted
    OBVIOUS
  <2>1. packets \in Seq(PacketRows)
    BY DEF DaemonInv, TablesInv, ChainInv, TypeOK, BufferTypeOK
  <2>2. QuietRows \in SUBSET DOMAIN packets /\ FaultedRows \in SUBSET QuietRows
    BY DEF QuietRows, FaultedRows
  <2>3. Cardinality(QuietRows) \in Nat /\ Cardinality(FaultedRows) \in Nat
    BY <2>1, <2>2, QuietFinite
  <2>4. Cardinality(QuietRows) <= Cardinality(FaultedRows) * (MaxSilentTicks + 1) + MaxSilentTicks
    BY DEF SilenceInv, SilenceMemory, Allowance
  <2>5. MaxSilentTicks + 1 \in Nat \ {0} /\ MaxSilentTicks = (MaxSilentTicks + 1) - 1
    BY <1>0
  <2>6. Cardinality(FaultedRows) >= Cardinality(QuietRows) \div (MaxSilentTicks + 1)
    BY <2>3, <2>4, <2>5, AllowanceBounds
  <2> QED BY <2>6 DEF SilenceFaulted, FaultedRows
<1> QED BY <1>1, <1>2, <1>3, DaemonInvariant, PTL DEF DaemonSpec
=============================================================================
