-------------------------- MODULE PacketizerProofs --------------------------
(***************************************************************************)
(* Proofs about the custody loop for every configuration, every pattern of *)
(* failures and crashes, and any number of ticks and sessions.             *)
(***************************************************************************)
EXTENDS Packetizer, TLAPS

USE DEF Nil

\* The byte strings the code concatenates and hashes are byte strings.
LEMMA BytesTypes ==
    ASSUME NEW a \in Bytes, NEW b \in Bytes, NEW c \in Bytes,
           NEW m \in Nat, NEW n \in Nat, NEW s \in Sessions
    PROVE  /\ a \o b \in Bytes
           /\ <<m>> \in Bytes
           /\ Sha256(a) \in Bytes
           /\ SignPacket(a) \in Bytes
           /\ computePacketBLAKE3(m, n, a, b, c) \in Bytes
           /\ DeriveQuoteNonce(m, a, b, n) \in Bytes
           /\ Canonical(s, m) \in Bytes
<1>1. \A x, y \in Bytes : x \o y \in Bytes
  BY DEF Bytes
<1>2. /\ <<m>> \in Bytes /\ <<n>> \in Bytes
      /\ <<256>> \in Bytes /\ <<2048>> \in Bytes
      /\ <<0, m, n>> \in Bytes
  BY DEF Bytes
<1>3. <<s.id, s.seq, m, s.lastQuoteID>> \in Bytes /\ s.prevBlake3 \in Bytes
  BY DEF Bytes, Sessions
<1>4. Sha256(a) \in Bytes /\ SignPacket(a) \in Bytes
  BY <1>1, <1>2 DEF Sha256, SignPacket
<1>5. computePacketBLAKE3(m, n, a, b, c) \in Bytes
  BY <1>1, <1>2 DEF computePacketBLAKE3
<1>6. DeriveQuoteNonce(m, a, b, n) \in Bytes
  BY <1>1, <1>2 DEF DeriveQuoteNonce, Sha256
<1>7. Canonical(s, m) \in Bytes
  BY <1>1, <1>3 DEF Canonical
<1> QED BY <1>1, <1>2, <1>4, <1>5, <1>6, <1>7

\* NULL is a byte string.
LEMMA NilType == Nil \in Bytes
  BY DEF Bytes

\* Inserting a row into a table keeps the table's type.
LEMMA TableTypes ==
    ASSUME NEW Rows, NEW table \in Seq(Rows), NEW row \in Rows
    PROVE  /\ Len(table) \in Nat
           /\ Append(table, row) \in Seq(Rows)
  OBVIOUS

\* An UPDATE, which keeps the number of rows, keeps the table's type.
LEMMA UpdatedTable ==
    ASSUME NEW Rows, NEW table \in Seq(Rows), NEW updated,
           updated = [i \in DOMAIN table |-> updated[i]],
           \A i \in DOMAIN table : updated[i] \in Rows
    PROVE  updated \in Seq(Rows)
<1>1. Len(table) \in Nat /\ DOMAIN table = 1 .. Len(table)
  OBVIOUS
<1>2. updated \in [1 .. Len(table) -> Rows]
  BY <1>1
<1> QED BY <1>1, <1>2

\* A table starts empty.
LEMMA EmptyTable == ASSUME NEW Rows PROVE <<>> \in Seq(Rows)
  OBVIOUS

\* A packetizer without a session, as NewPacketizer makes it, is well typed.
LEMMA ZeroSession == NewSession(0) \in Sessions
  BY NilType DEF NewSession, Sessions

\* A new session is a session, and so is what a tick works with.
LEMMA SessionTypes ==
    ASSUME started \in Nat, session \in Sessions
    PROVE  /\ startNewSession \in Sessions
           /\ TickSession \in Sessions
  BY NilType DEF NewSession, startNewSession, TickSession, Sessions

\* The chain state after a packet is a session with the next number.
LEMMA AdvanceType ==
    ASSUME session \in Sessions, NEW b3 \in Bytes
    PROVE  /\ Advance(b3) \in Sessions
           /\ Advance(b3).id = session.id
           /\ Advance(b3).seq = session.seq + 1
           /\ Advance(b3).prevBlake3 = b3
           /\ Advance(b3).lastQuoteID = session.lastQuoteID
<1>1. session.seq + 1 \in Nat
  BY DEF Sessions
<1>2. Advance(b3) = [session EXCEPT !.prevBlake3 = b3, !.seq = session.seq + 1]
  BY DEF Advance, Sessions
<1> HIDE DEF Advance
<1>3. Advance(b3) \in Sessions
  BY <1>1, <1>2 DEF Sessions
<1>4. /\ Advance(b3).id = session.id /\ Advance(b3).seq = session.seq + 1
      /\ Advance(b3).prevBlake3 = b3
      /\ Advance(b3).lastQuoteID = session.lastQuoteID
  BY <1>2 DEF Sessions
<1> QED BY <1>3, <1>4

\* The columns of a stored packet have the types of the schema.
LEMMA RowTypes ==
    ASSUME TypeOK, NEW i \in DOMAIN packets
    PROVE  /\ packets[i] \in PacketRows
           /\ packets[i].seq \in Nat
           /\ packets[i].session_id \in Nat
<1>1. packets[i] \in PacketRows
  BY DEF TypeOK, BufferTypeOK
<1> QED BY <1>1 DEF PacketRows

\* So are the locals of onTick before it runs.
LEMMA NoPacketType == NoPacket \in Packets
  BY NilType DEF NoPacket, Packets

\* What SignPacket returns, or nil, is a byte string.
LEMMA SignatureType == ASSUME TypeOK PROVE Signatures \subseteq Bytes
<1>1. pkt.canonical \in Bytes
  BY DEF TypeOK, Packets
<1>2. SignPacket(pkt.canonical) \in Bytes
  BY <1>1, BytesTypes, ZeroSession
<1> QED BY <1>2, NilType DEF Signatures

-----------------------------------------------------------------------------
\* Type correctness.

\* The empty buffer and the new packetizer are well typed.
LEMMA InitType == PacketizerInit => TypeOK
<1> SUFFICES ASSUME PacketizerInit PROVE TypeOK
  OBVIOUS
<1>1. session \in Sessions /\ pkt \in Packets
  BY ZeroSession, NoPacketType DEF PacketizerInit
<1>2. BufferTypeOK
  BY EmptyTable DEF PacketizerInit, BufferInit, BufferTypeOK
<1> QED
  BY <1>1, <1>2, TPMAssumption DEF PacketizerInit, TypeOK, PrintStates

\* Every step of the custody loop preserves the types.
LEMMA StepType == TypeOK /\ [PacketizerNext]_packetizerVars => TypeOK'
<1> SUFFICES ASSUME TypeOK, [PacketizerNext]_packetizerVars PROVE TypeOK'
  OBVIOUS
<1> USE DEF TypeOK
<1>1. CASE TickerFires
  BY <1>1, BoundAssumption DEF TickerFires, bufferVars, loopVars, BufferTypeOK
<1>2. ASSUME NEW state \in PrintStates, ApplyDelta(state) PROVE TypeOK'
  <2>1. session' \in Sessions /\ started' \in Nat
    BY <1>2, SessionTypes DEF ApplyDelta, Sessions
  <2> QED BY <1>2, <2>1 DEF ApplyDelta, bufferVars, BufferTypeOK
<1>3. CASE TickIdle
  BY <1>3 DEF TickIdle, bufferVars, loopVars, BufferTypeOK
<1>4. CASE BeginTick
  <2>1. TickSession \in Sessions
    BY SessionTypes
  <2>2. session' \in Sessions
    BY <1>4, <2>1 DEF BeginTick, Sessions
  <2>3. pkt' \in Packets
    BY <1>4, <2>1, BytesTypes, NoPacketType DEF BeginTick, Packets
  <2>4. faults' \in Seq(FaultRows)
    <3>1. [session_id |-> TickSession.id, seq |-> TickSession.seq] \in FaultRows
      BY <2>1 DEF FaultRows, Sessions
    <3> QED BY <1>4, <3>1, TableTypes DEF BeginTick, RecordProvenanceFault, BufferTypeOK
  <2> QED BY <1>4, <2>2, <2>3, <2>4 DEF BeginTick, BufferTypeOK
<1>5. CASE SkipQuote
  BY <1>5 DEF SkipQuote, bufferVars, envVars, BufferTypeOK
<1>6. CASE TakeQuote
  <2>1. Sha256(pkt.canonical) \in Bytes
    BY BytesTypes DEF Packets
  <2>2. DeriveQuoteNonce(session.id, Sha256(pkt.canonical), session.prevBlake3,
                         session.seq) \in Bytes
    BY <2>1, BytesTypes DEF Sessions
  <2>3. quotes' \in Seq(QuoteRows)
    BY <1>6, <2>2 DEF TakeQuote, WriteQuote, BufferTypeOK, QuoteRows, Sessions
  <2>4. session' \in Sessions
    <3>1. Len(quotes) + 1 \in Nat /\ pkt.tick \in Nat
      BY DEF BufferTypeOK, Packets
    <3> QED BY <1>6, <3>1 DEF TakeQuote, Sessions
  <2> QED BY <1>6, <2>3, <2>4 DEF TakeQuote, envVars, BufferTypeOK
<1>7. CASE QuoteFails
  BY <1>7 DEF QuoteFails, bufferVars, envVars, BufferTypeOK
<1>8. ASSUME NEW sig \in Signatures, StorePacket(sig) PROVE TypeOK'
  <2> DEFINE b3 == computePacketBLAKE3(session.seq, session.id, pkt.canonical,
                                       sig, session.prevBlake3)
  <2>1. sig \in Bytes
    BY SignatureType
  <2>2. b3 \in Bytes /\ Sha256(pkt.canonical) \in Bytes
    BY <2>1, BytesTypes DEF Sessions, Packets
  <2>3. packets' \in Seq(PacketRows)
    <3> DEFINE row == [session_id |-> session.id, seq |-> session.seq,
                       tick_utc |-> pkt.tick, telemetry_json |-> pkt.canonical,
                       prev_packet_blake3 |-> session.prevBlake3,
                       packet_sha256 |-> Sha256(pkt.canonical),
                       packet_blake3 |-> b3, tpm_sig |-> Nil, quote_ref |-> 0,
                       upload_state |-> "pending", segment_id |-> 0]
    <3>1. packets' = Append(packets, row)
      BY <1>8 DEF StorePacket, WritePacket
    <3>2. row \in PacketRows
      BY <2>2 DEF PacketRows, Sessions, Packets, Bytes
    <3> QED BY <3>1, <3>2 DEF BufferTypeOK
  <2>4. session' \in Sessions
    BY <1>8, <2>2, AdvanceType DEF StorePacket
  <2>6. pkt' \in Packets
    <3>1. Len(packets) + 1 \in Nat
      BY DEF BufferTypeOK
    <3> QED BY <1>8, <2>1, <2>2, <3>1, NoPacketType DEF StorePacket, Packets
  <2>5. pc' \in {"select", "setsig"}
    BY <1>8 DEF StorePacket
  <2> QED BY <1>8, <2>3, <2>4, <2>5, <2>6 DEF StorePacket, envVars, BufferTypeOK
<1>9. CASE StoreFails
  BY <1>9, NoPacketType DEF StoreFails, bufferVars, envVars, BufferTypeOK
<1>10. CASE BackfillSig
  <2>1. session' \in Sessions
    BY <1>10, AdvanceType DEF BackfillSig, Packets
  <2>2. packets' \in Seq(PacketRows)
    <3> DEFINE row(i) == IF i = pkt.rowID
                         THEN [packets[i] EXCEPT !.tpm_sig = pkt.sig,
                                                 !.quote_ref = session.lastQuoteID]
                         ELSE packets[i]
    <3>1. packets' = [i \in DOMAIN packets |-> row(i)]
      BY <1>10 DEF BackfillSig, SetTPMSig
    <3>2. ASSUME NEW i \in DOMAIN packets PROVE row(i) \in PacketRows
      <4>1. packets[i] \in PacketRows
        BY <3>2 DEF BufferTypeOK
      <4>2. pkt.sig \in Bytes /\ session.lastQuoteID \in Nat
        BY DEF Packets, Sessions
      <4> QED BY <4>1, <4>2 DEF PacketRows
    <3> HIDE DEF row
    <3>3. /\ packets' = [i \in DOMAIN packets |-> packets'[i]]
          /\ \A i \in DOMAIN packets : packets'[i] \in PacketRows
      BY <3>1, <3>2
    <3>4. packets \in Seq(PacketRows)
      BY DEF BufferTypeOK
    <3> QED BY <3>3, <3>4, UpdatedTable
  <2> QED BY <1>10, <2>1, <2>2, NoPacketType DEF BackfillSig, envVars, BufferTypeOK
<1>11. CASE BackfillFails
  <2>1. session' \in Sessions
    BY <1>11, AdvanceType DEF BackfillFails, Packets
  <2> QED BY <1>11, <2>1, NoPacketType DEF BackfillFails, bufferVars, envVars, BufferTypeOK
<1>12. CASE Crash
  <2>1. printState' \in PrintStates /\ session' \in Sessions /\ pkt' \in Packets
    BY <1>12, ZeroSession, NoPacketType DEF Crash, Dies, PrintStates
  <2>2. BufferTypeOK'
    BY <1>12 DEF Crash, Dies, bufferVars, BufferTypeOK
  <2>3. immediateQuote' \in BOOLEAN /\ tpm' \in BOOLEAN
    BY <1>12, Zenon DEF Crash, Dies
  <2>4. /\ pc' \in {"select", "quote", "write", "setsig", "down"}
        /\ tickC' \in Nat /\ now' \in Nat /\ started' \in Nat
        /\ crashes' \in Nat /\ lastDelta' \in Nat
    <3>1. pc' = "down" /\ tickC' = 0 /\ crashes' = crashes + 1
      BY <1>12 DEF Crash, Dies
    <3>2. UNCHANGED <<now, started, lastDelta>>
      BY <1>12 DEF Crash, Dies
    <3> QED BY <3>1, <3>2
  <2> QED BY <2>1, <2>2, <2>3, <2>4
<1>13. CASE Restart
  BY <1>13, TPMAssumption DEF Restart, bufferVars, envVars, BufferTypeOK
<1>14. CASE UNCHANGED packetizerVars
  BY <1>14 DEF packetizerVars, bufferVars, loopVars, envVars, BufferTypeOK
<1> QED
  BY <1>1, <1>2, <1>3, <1>4, <1>5, <1>6, <1>7, <1>8, <1>9, <1>10, <1>11, <1>12,
     <1>13, <1>14 DEF PacketizerNext, onTick

\* The buffer and the packetizer keep their types in every reachable state.
THEOREM TypeCorrect == PacketizerSpec => []TypeOK
  BY InitType, StepType, PTL DEF PacketizerSpec

-----------------------------------------------------------------------------
(***************************************************************************)
(* The chain.  ChainLinked alone is not inductive: that a new packet finds *)
(* its predecessor stored depends on what the packetizer remembers, which  *)
(* is ChainMemory.                                                         *)
(***************************************************************************)
ChainInv == TypeOK /\ ChainMemory /\ ChainLinked

\* A step that leaves the packets and the chain fields of the session alone,
\* outside the window between WritePacket and SetTPMSig.
LEMMA SameChain ==
    ASSUME ChainMemory, ChainLinked,
           packets' = packets, started' = started,
           session'.id = session.id, session'.seq = session.seq,
           session'.prevBlake3 = session.prevBlake3,
           pc # "setsig", pc' # "setsig",
           pc' \in {"quote", "write"} => session.id # 0
    PROVE  ChainMemory' /\ ChainLinked'
<1>1. ChainLinked'
  BY DEF ChainLinked, Precedes
<1>2. ChainMemory'
  BY DEF ChainMemory, Settled
<1> QED BY <1>1, <1>2

\* A step after which the packetizer works on a session of which nothing is
\* stored: a new one, or none at all.
LEMMA FreshChain ==
    ASSUME TypeOK, ChainMemory, ChainLinked,
           packets' = packets, pc' # "setsig",
           session'.seq = 0, session'.prevBlake3 = Nil,
           \/ session'.id = 0 /\ started' = started /\ pc' \notin {"quote", "write"}
           \/ session'.id = started + 1 /\ started' = started + 1
    PROVE  ChainMemory' /\ ChainLinked'
<1>1. ChainLinked'
  BY DEF ChainLinked, Precedes
<1>2. started \in Nat /\ started' \in Nat /\ started <= started'
  BY DEF TypeOK
<1>3. session'.id \in 0 .. started'
  BY <1>2
<1>4. \A i \in DOMAIN packets : packets[i].session_id \in 1 .. started'
                                /\ packets[i].session_id # session'.id
  BY <1>2 DEF ChainMemory
<1>5. pc' \in {"quote", "write", "setsig"} => session'.id # 0
  BY <1>2
<1> QED BY <1>1, <1>3, <1>4, <1>5 DEF ChainMemory, Settled

\* The rows of a table after an INSERT.
LEMMA InsertedRow ==
    ASSUME NEW Rows, NEW table \in Seq(Rows), NEW row
    PROVE  /\ DOMAIN Append(table, row) = DOMAIN table \cup {Len(table) + 1}
           /\ \A i \in DOMAIN table : /\ Append(table, row)[i] = table[i]
                                      /\ i < Len(table) + 1
           /\ Append(table, row)[Len(table) + 1] = row
           /\ Len(table) + 1 \notin DOMAIN table
  OBVIOUS

\* What StorePacket inserts.
NewRow(b3) ==
    [session_id |-> session.id, seq |-> session.seq, tick_utc |-> pkt.tick,
     telemetry_json |-> pkt.canonical, prev_packet_blake3 |-> session.prevBlake3,
     packet_sha256 |-> Sha256(pkt.canonical), packet_blake3 |-> b3,
     tpm_sig |-> Nil, quote_ref |-> 0, upload_state |-> "pending", segment_id |-> 0]

\* A stored packet extends its session's chain, whether onTick has advanced its
\* memory already (no signature) or has SetTPMSig still to do.
LEMMA StoreChain ==
    ASSUME TypeOK, ChainMemory, ChainLinked, NEW sig \in Signatures, StorePacket(sig)
    PROVE  ChainMemory' /\ ChainLinked'
<1> DEFINE b3 == computePacketBLAKE3(session.seq, session.id, pkt.canonical, sig,
                                     session.prevBlake3)
           n == Len(packets) + 1
<1>1. /\ pc = "write" /\ started' = started
      /\ packets' = Append(packets, NewRow(b3))
  BY DEF StorePacket, WritePacket, NewRow, envVars
<1>2. /\ DOMAIN packets' = DOMAIN packets \cup {n}
      /\ \A i \in DOMAIN packets : packets'[i] = packets[i] /\ i < n
      /\ packets'[n] = NewRow(b3)
      /\ n \notin DOMAIN packets
  BY <1>1, InsertedRow DEF TypeOK, BufferTypeOK
<1>3. b3 \in Bytes
  <2>1. sig \in Bytes /\ pkt.canonical \in Bytes
    BY SignatureType DEF TypeOK, Packets
  <2>2. session.seq \in Nat /\ session.id \in Nat /\ session.prevBlake3 \in Bytes
    BY DEF TypeOK, Sessions
  <2> QED BY <2>1, <2>2, BytesTypes, ZeroSession
<1> HIDE DEF b3, n
<1>4. /\ NewRow(b3).session_id = session.id /\ NewRow(b3).seq = session.seq
      /\ NewRow(b3).prev_packet_blake3 = session.prevBlake3
      /\ NewRow(b3).packet_blake3 = b3 /\ NewRow(b3).tpm_sig = Nil
  BY DEF NewRow
<1>5. session.seq \in Nat /\ session.id \in 1 .. started
  BY <1>1 DEF TypeOK, Sessions, ChainMemory
<1>6. ChainLinked'
  <2>1. ASSUME NEW i \in DOMAIN packets
        PROVE  IF packets'[i].seq = 0
               THEN packets'[i].prev_packet_blake3 = Nil
               ELSE \E j \in DOMAIN packets' :
                      /\ j < i
                      /\ packets'[j].session_id = packets'[i].session_id
                      /\ packets'[i].seq = packets'[j].seq + 1
                      /\ packets'[i].prev_packet_blake3 = packets'[j].packet_blake3
    BY <1>2 DEF ChainLinked, Precedes
  <2>2. session.seq = 0 => session.prevBlake3 = Nil
    BY DEF ChainMemory
  <2>3. ASSUME session.seq # 0
        PROVE  \E j \in DOMAIN packets' :
                  /\ j < n
                  /\ packets'[j].session_id = packets'[n].session_id
                  /\ packets'[n].seq = packets'[j].seq + 1
                  /\ packets'[n].prev_packet_blake3 = packets'[j].packet_blake3
    <3>1. PICK j \in DOMAIN packets : /\ packets[j].session_id = session.id
                                      /\ packets[j].seq = session.seq - 1
                                      /\ packets[j].packet_blake3 = session.prevBlake3
      BY <2>3 DEF ChainMemory
    <3> QED BY <3>1, <1>2, <1>4, <1>5
  <2> QED BY <1>2, <1>4, <2>1, <2>2, <2>3 DEF ChainLinked, Precedes
<1>7. \A i \in DOMAIN packets : /\ packets[i].session_id \in 1 .. started
                                /\ packets[i].session_id = session.id =>
                                     packets[i].seq < session.seq
  BY <1>1 DEF ChainMemory, Settled
<1>8. CASE sig = Nil
  <2>1. session' = Advance(b3) /\ pc' = "select"
    BY <1>8 DEF StorePacket, b3
  <2>2. /\ session'.id = session.id /\ session'.seq = session.seq + 1
        /\ session'.prevBlake3 = b3
    BY <2>1, <1>3, AdvanceType DEF TypeOK
  <2>3. \A i \in DOMAIN packets : packets[i].seq \in Nat
    BY RowTypes
  <2>4. \A i \in DOMAIN packets' : /\ packets'[i].session_id \in 1 .. started'
                                   /\ packets'[i].session_id = session'.id =>
                                        packets'[i].seq < session'.seq
    BY <1>1, <1>2, <1>4, <1>5, <1>7, <2>2, <2>3
  <2>5. /\ n \in DOMAIN packets' /\ packets'[n].session_id = session'.id
        /\ packets'[n].seq = session'.seq - 1
        /\ packets'[n].packet_blake3 = session'.prevBlake3
    BY <1>2, <1>4, <1>5, <2>2
  <2>6. session'.id \in 0 .. started' /\ session'.seq # 0 /\ pc' = "select"
    BY <1>1, <1>5, <2>1, <2>2
  <2> QED BY <1>6, <2>4, <2>5, <2>6 DEF ChainMemory
<1>9. CASE sig # Nil
  <2>1. /\ session' = session /\ pc' = "setsig"
        /\ pkt' = [pkt EXCEPT !.sig = sig, !.blake3 = b3, !.rowID = n]
    BY <1>9 DEF StorePacket, b3, n
  <2>2. pkt'.rowID = n /\ pkt'.blake3 = b3
    BY <2>1 DEF TypeOK, Packets
  <2>3. \A i \in DOMAIN packets' : /\ packets'[i].session_id \in 1 .. started'
                                   /\ packets'[i].session_id = session'.id =>
                                        packets'[i].seq < session'.seq \/ i = n
    BY <1>1, <1>2, <1>4, <1>5, <1>7, <2>1
  <2>4. session.seq # 0 =>
          \E i \in DOMAIN packets' : /\ packets'[i].session_id = session'.id
                                     /\ packets'[i].seq = session'.seq - 1
                                     /\ packets'[i].packet_blake3 = session'.prevBlake3
    BY <1>2, <2>1 DEF ChainMemory
  <2> QED BY <1>1, <1>2, <1>4, <1>5, <1>6, <2>1, <2>2, <2>3, <2>4
          DEF ChainMemory, Settled
<1> QED BY <1>8, <1>9

\* SetTPMSig changes no column the chain is made of; once it has returned, with
\* or without an error, the memory catches up with the packet inserted.
LEMMA BackfillChain ==
    ASSUME TypeOK, ChainMemory, ChainLinked,
           pc = "setsig", pc' = "select", started' = started,
           session' = Advance(pkt.blake3),
           DOMAIN packets' = DOMAIN packets,
           \A i \in DOMAIN packets :
               /\ packets'[i].session_id = packets[i].session_id
               /\ packets'[i].seq = packets[i].seq
               /\ packets'[i].prev_packet_blake3 = packets[i].prev_packet_blake3
               /\ packets'[i].packet_blake3 = packets[i].packet_blake3
    PROVE  ChainMemory' /\ ChainLinked'
<1>1. ChainLinked'
  BY DEF ChainLinked, Precedes
<1>2. /\ session'.id = session.id /\ session'.seq = session.seq + 1
      /\ session'.prevBlake3 = pkt.blake3
  <2>1. pkt.blake3 \in Bytes
    BY DEF TypeOK, Packets
  <2> QED BY <2>1, AdvanceType DEF TypeOK
<1>3. session.seq \in Nat /\ session.id \in 1 .. started
  BY DEF TypeOK, Sessions, ChainMemory
<1>4. \A i \in DOMAIN packets' : /\ packets'[i].session_id \in 1 .. started'
                                 /\ packets'[i].session_id = session'.id =>
                                      packets'[i].seq < session'.seq
  <2>1. \A i \in DOMAIN packets : packets[i].seq \in Nat
    BY RowTypes
  <2>2. \A i \in DOMAIN packets : packets[i].session_id = session.id =>
                                    packets[i].seq <= session.seq
    BY <1>3, <2>1 DEF ChainMemory, Settled
  <2> QED BY <1>2, <1>3, <2>1, <2>2 DEF ChainMemory
<1>5. /\ pkt.rowID \in DOMAIN packets'
      /\ packets'[pkt.rowID].session_id = session'.id
      /\ packets'[pkt.rowID].seq = session'.seq - 1
      /\ packets'[pkt.rowID].packet_blake3 = session'.prevBlake3
  BY <1>2, <1>3 DEF ChainMemory
<1> QED BY <1>1, <1>2, <1>3, <1>4, <1>5 DEF ChainMemory

\* An empty buffer and a packetizer without a session agree.
LEMMA InitChain == PacketizerInit => ChainMemory /\ ChainLinked
<1> SUFFICES ASSUME PacketizerInit PROVE ChainMemory /\ ChainLinked
  OBVIOUS
<1>1. packets = <<>> /\ started = 0 /\ pc = "select" /\ session = NewSession(0)
  BY DEF PacketizerInit, BufferInit
<1> QED BY <1>1 DEF ChainMemory, ChainLinked, NewSession

\* Every step of the custody loop keeps each session one chain and the
\* packetizer's memory in agreement with it.
LEMMA StepChain ==
    TypeOK /\ ChainMemory /\ ChainLinked /\ [PacketizerNext]_packetizerVars
        => ChainMemory' /\ ChainLinked'
<1> SUFFICES ASSUME TypeOK, ChainMemory, ChainLinked, [PacketizerNext]_packetizerVars
             PROVE  ChainMemory' /\ ChainLinked'
  OBVIOUS
<1> DEFINE SameLoop == UNCHANGED <<packets, session, pc, pkt, started>>
<1>0. CASE SameLoop
  BY <1>0 DEF ChainMemory, ChainLinked, Precedes, Settled
<1>1. CASE TickerFires
  BY <1>0, <1>1 DEF TickerFires, bufferVars, loopVars
<1>2. ASSUME NEW state \in PrintStates, ApplyDelta(state)
      PROVE  ChainMemory' /\ ChainLinked'
  <2>1. packets' = packets /\ pc = "select" /\ pc' = "select"
    BY <1>2 DEF ApplyDelta, bufferVars
  <2>2. CASE StartsSession(printState, state)
    <3>1. session' = NewSession(started + 1) /\ started' = started + 1
      BY <1>2, <2>2 DEF ApplyDelta, startNewSession
    <3> QED BY <2>1, <3>1, FreshChain DEF NewSession
  <2>3. CASE ~StartsSession(printState, state)
    <3>1. session' = [session EXCEPT !.silentTicks = 0] /\ started' = started
      BY <1>2, <2>3 DEF ApplyDelta
    <3>2. /\ session'.id = session.id /\ session'.seq = session.seq
          /\ session'.prevBlake3 = session.prevBlake3
      BY <3>1 DEF TypeOK, Sessions
    <3> QED BY <2>1, <3>1, <3>2, SameChain
  <2> QED BY <2>2, <2>3
<1>3. CASE TickIdle
  BY <1>0, <1>3 DEF TickIdle, bufferVars, loopVars
<1>4. CASE BeginTick
  <2>1. packets' = packets /\ pc = "select" /\ pc' = "quote"
    BY <1>4 DEF BeginTick
  <2>2. TickSession \in Sessions
    BY SessionTypes DEF TypeOK
  <2>3. /\ session'.id = TickSession.id /\ session'.seq = TickSession.seq
        /\ session'.prevBlake3 = TickSession.prevBlake3
    BY <1>4, <2>2 DEF BeginTick, Sessions
  <2>4. CASE session.id = 0
    <3>1. TickSession = NewSession(started + 1) /\ started' = started + 1
      BY <1>4, <2>4 DEF BeginTick, TickSession, startNewSession
    <3> QED BY <2>1, <2>3, <3>1, FreshChain DEF NewSession
  <2>5. CASE session.id # 0
    <3>1. TickSession = session /\ started' = started
      BY <1>4, <2>5 DEF BeginTick, TickSession
    <3> QED BY <2>1, <2>3, <2>5, <3>1, SameChain
  <2> QED BY <2>4, <2>5
<1>5. CASE SkipQuote \/ QuoteFails
  <2>1. /\ UNCHANGED <<packets, session, started>>
        /\ pc = "quote" /\ pc' = "write"
    BY <1>5 DEF SkipQuote, QuoteFails, bufferVars, envVars
  <2> QED BY <2>1, SameChain DEF ChainMemory
<1>6. CASE TakeQuote
  <2>1. /\ packets' = packets /\ started' = started
        /\ pc = "quote" /\ pc' = "write"
    BY <1>6 DEF TakeQuote, envVars
  <2>2. /\ session'.id = session.id /\ session'.seq = session.seq
        /\ session'.prevBlake3 = session.prevBlake3
    BY <1>6 DEF TakeQuote, TypeOK, Sessions
  <2> QED BY <2>1, <2>2, SameChain DEF ChainMemory
<1>7. ASSUME NEW sig \in Signatures, StorePacket(sig)
      PROVE  ChainMemory' /\ ChainLinked'
  BY <1>7, StoreChain
<1>8. CASE StoreFails
  <2>1. /\ UNCHANGED <<packets, session, started>>
        /\ pc = "write" /\ pc' = "select"
    BY <1>8 DEF StoreFails, bufferVars, envVars
  <2> QED BY <2>1, SameChain
<1>9. CASE BackfillSig
  <2>1. /\ pc = "setsig" /\ pc' = "select" /\ started' = started
        /\ session' = Advance(pkt.blake3)
        /\ packets' = [i \in DOMAIN packets |->
                         IF i = pkt.rowID
                         THEN [packets[i] EXCEPT !.tpm_sig = pkt.sig,
                                                 !.quote_ref = session.lastQuoteID]
                         ELSE packets[i]]
    BY <1>9 DEF BackfillSig, SetTPMSig, envVars
  <2>2. \A i \in DOMAIN packets : packets[i] \in PacketRows
    BY RowTypes
  <2>3. /\ DOMAIN packets' = DOMAIN packets
        /\ \A i \in DOMAIN packets :
             /\ packets'[i].session_id = packets[i].session_id
             /\ packets'[i].seq = packets[i].seq
             /\ packets'[i].prev_packet_blake3 = packets[i].prev_packet_blake3
             /\ packets'[i].packet_blake3 = packets[i].packet_blake3
    BY <2>1, <2>2 DEF PacketRows
  <2> QED BY <2>1, <2>3, BackfillChain
<1>10. CASE BackfillFails
  <2>1. /\ pc = "setsig" /\ pc' = "select" /\ UNCHANGED <<started, packets>>
        /\ session' = Advance(pkt.blake3)
    BY <1>10 DEF BackfillFails, bufferVars, envVars
  <2> QED BY <2>1, BackfillChain
<1>11. CASE Crash
  <2>1. /\ UNCHANGED <<packets, started>>
        /\ pc' = "down" /\ session' = NewSession(0)
    BY <1>11 DEF Crash, Dies, bufferVars
  <2> QED BY <2>1, FreshChain DEF NewSession
<1>12. CASE Restart
  <2>1. /\ UNCHANGED <<packets, session, started>>
        /\ pc = "down" /\ pc' = "select"
    BY <1>12 DEF Restart, bufferVars, envVars
  <2> QED BY <2>1, SameChain
<1>13. CASE UNCHANGED packetizerVars
  BY <1>0, <1>13 DEF packetizerVars, bufferVars, loopVars, envVars
<1> QED
  BY <1>1, <1>2, <1>3, <1>4, <1>5, <1>6, <1>7, <1>8, <1>9, <1>10, <1>11, <1>12,
     <1>13 DEF PacketizerNext, onTick

\* The chain invariant holds in every reachable state of the custody loop.
LEMMA ChainInvariant == PacketizerSpec => []ChainInv
<1>1. PacketizerInit => ChainInv
  BY InitType, InitChain DEF ChainInv
<1>2. ChainInv /\ [PacketizerNext]_packetizerVars => ChainInv'
  BY StepType, StepChain DEF ChainInv
<1> QED BY <1>1, <1>2, PTL DEF PacketizerSpec

\* Each session in the buffer is one gap-free hash chain, whatever calls fail
\* and wherever the daemon dies (onTick's order of WritePacket, SetTPMSig and
\* the advance of seq and prevBlake3).
THEOREM ChainCorrect == PacketizerSpec => []ChainLinked
<1>1. ChainInv => ChainLinked
  BY DEF ChainInv
<1> QED BY <1>1, ChainInvariant, PTL

\* The packetizer's seq and prevBlake3 always agree with the buffer.
THEOREM MemoryCorrect == PacketizerSpec => []ChainMemory
<1>1. ChainInv => ChainMemory
  BY DEF ChainInv
<1> QED BY <1>1, ChainInvariant, PTL

\* No packet is ever refused by UNIQUE (session_id, seq).
THEOREM NeverWedgedCorrect == PacketizerSpec => []NeverWedged
<1>1. ChainInv => NeverWedged
  <2> SUFFICES ASSUME ChainInv, pc = "write", Duplicate(session.id, session.seq)
               PROVE  FALSE
    BY DEF NeverWedged
  <2>1. PICK i \in DOMAIN packets : /\ packets[i].session_id = session.id
                                    /\ packets[i].seq = session.seq
    BY DEF Duplicate
  <2>2. packets[i].seq < session.seq
    BY <2>1 DEF ChainInv, ChainMemory, Settled
  <2>3. session.seq \in Nat
    BY DEF ChainInv, TypeOK, Sessions
  <2> QED BY <2>1, <2>2, <2>3
<1> QED BY <1>1, ChainInvariant, PTL

-----------------------------------------------------------------------------
(***************************************************************************)
(* Signatures and quotes.  What SetTPMSig writes is right because of what  *)
(* onTick holds in its locals while the row is still without signature,    *)
(* and because lastQuoteID is the current session's.                       *)
(***************************************************************************)
SigMemory ==
    pc = "setsig" =>
        LET row == packets[pkt.rowID]
        IN  /\ pkt.sig = SignPacket(row.telemetry_json)
            /\ row.packet_blake3 =
                 computePacketBLAKE3(row.seq, row.session_id, row.telemetry_json,
                                     pkt.sig, row.prev_packet_blake3)

QuoteMemory ==
    session.lastQuoteID # 0 =>
        /\ session.lastQuoteID \in DOMAIN quotes
        /\ quotes[session.lastQuoteID].session_id = session.id
        /\ quotes[session.lastQuoteID].seq <= session.seq

SigInv == SigMemory /\ StoredSigVerifies
QuoteInv == QuoteMemory /\ QuoteOfOwnSession

\* Only StorePacket and SetTPMSig can disturb the signatures.
LEMMA StepSig ==
    ChainInv /\ SigInv /\ [PacketizerNext]_packetizerVars => SigInv'
<1> SUFFICES ASSUME ChainInv, SigInv, [PacketizerNext]_packetizerVars PROVE SigInv'
  OBVIOUS
<1> USE DEF ChainInv
<1>1. CASE packets' = packets /\ pkt' = pkt /\ pc' = pc
  BY <1>1 DEF SigInv, SigMemory, StoredSigVerifies
<1>2. CASE packets' = packets /\ pc' # "setsig"
  BY <1>2 DEF SigInv, SigMemory, StoredSigVerifies
<1>3. ASSUME NEW sig \in Signatures, StorePacket(sig) PROVE SigInv'
  <2> DEFINE b3 == computePacketBLAKE3(session.seq, session.id, pkt.canonical,
                                       sig, session.prevBlake3)
             n == Len(packets) + 1
  <2>1. packets' = Append(packets, NewRow(b3))
    BY <1>3 DEF StorePacket, WritePacket, NewRow
  <2>2. /\ DOMAIN packets' = DOMAIN packets \cup {n}
        /\ \A i \in DOMAIN packets : packets'[i] = packets[i]
        /\ packets'[n] = NewRow(b3)
    BY <2>1, InsertedRow DEF TypeOK, BufferTypeOK
  <2>3. /\ NewRow(b3).seq = session.seq /\ NewRow(b3).session_id = session.id
        /\ NewRow(b3).telemetry_json = pkt.canonical
        /\ NewRow(b3).prev_packet_blake3 = session.prevBlake3
        /\ NewRow(b3).packet_blake3 = b3 /\ NewRow(b3).tpm_sig = Nil
    BY DEF NewRow
  <2>4. StoredSigVerifies'
    BY <2>2, <2>3 DEF SigInv, StoredSigVerifies
  <2>5. CASE sig = Nil
    BY <1>3, <2>4, <2>5 DEF StorePacket, SigInv, SigMemory
  <2>6. CASE sig # Nil
    <3>1. pkt' = [pkt EXCEPT !.sig = sig, !.blake3 = b3, !.rowID = n]
      BY <1>3, <2>6 DEF StorePacket
    <3>2. pkt'.rowID = n /\ pkt'.sig = sig
      BY <3>1 DEF TypeOK, Packets
    <3>3. sig = SignPacket(pkt.canonical)
      BY <2>6 DEF Signatures
    <3> QED BY <2>2, <2>3, <2>4, <3>2, <3>3 DEF SigInv, SigMemory
  <2> QED BY <2>5, <2>6
<1>4. CASE BackfillSig
  <2>1. /\ pc = "setsig" /\ pc' = "select"
        /\ packets' = [i \in DOMAIN packets |->
                         IF i = pkt.rowID
                         THEN [packets[i] EXCEPT !.tpm_sig = pkt.sig,
                                                 !.quote_ref = session.lastQuoteID]
                         ELSE packets[i]]
    BY <1>4 DEF BackfillSig, SetTPMSig
  <2>2. \A i \in DOMAIN packets : packets[i] \in PacketRows
    BY RowTypes
  <2>3. ASSUME NEW i \in DOMAIN packets
        PROVE  /\ i = pkt.rowID => packets'[i].tpm_sig = pkt.sig
               /\ i # pkt.rowID => packets'[i] = packets[i]
               /\ packets'[i].session_id = packets[i].session_id
               /\ packets'[i].seq = packets[i].seq
               /\ packets'[i].telemetry_json = packets[i].telemetry_json
               /\ packets'[i].prev_packet_blake3 = packets[i].prev_packet_blake3
               /\ packets'[i].packet_blake3 = packets[i].packet_blake3
    BY <2>1, <2>2 DEF PacketRows
  <2>4. DOMAIN packets' = DOMAIN packets
    BY <2>1
  <2>5. SigMemory'
    BY <2>1 DEF SigMemory
  <2>6. ASSUME NEW i \in DOMAIN packets, packets'[i].tpm_sig # Nil
        PROVE  /\ packets'[i].tpm_sig = SignPacket(packets'[i].telemetry_json)
               /\ packets'[i].packet_blake3 =
                    computePacketBLAKE3(packets'[i].seq, packets'[i].session_id,
                                        packets'[i].telemetry_json, packets'[i].tpm_sig,
                                        packets'[i].prev_packet_blake3)
    <3>1. CASE i = pkt.rowID
      <4>1. /\ pkt.sig = SignPacket(packets[i].telemetry_json)
            /\ packets[i].packet_blake3 =
                 computePacketBLAKE3(packets[i].seq, packets[i].session_id,
                                     packets[i].telemetry_json, pkt.sig,
                                     packets[i].prev_packet_blake3)
        <5>1. pc = "setsig"
          BY <2>1
        <5> QED BY <3>1, <5>1 DEF SigInv, SigMemory
      <4> QED BY <2>3, <3>1, <4>1
    <3>2. CASE i # pkt.rowID
      BY <2>3, <2>6, <3>2 DEF SigInv, StoredSigVerifies
    <3> QED BY <3>1, <3>2
  <2> QED BY <2>4, <2>5, <2>6 DEF SigInv, StoredSigVerifies
<1> QED
  <2>1. CASE TickerFires \/ TickIdle \/ UNCHANGED packetizerVars
    BY <2>1, <1>1 DEF TickerFires, TickIdle, packetizerVars, bufferVars, loopVars
  <2>2. ASSUME NEW state \in PrintStates, ApplyDelta(state) PROVE SigInv'
    BY <2>2, <1>1 DEF ApplyDelta, bufferVars
  <2>3. CASE BeginTick \/ SkipQuote \/ TakeQuote \/ QuoteFails
    BY <2>3, <1>2 DEF BeginTick, SkipQuote, TakeQuote, QuoteFails, bufferVars
  <2>4. CASE StoreFails \/ BackfillFails \/ Crash \/ Restart
    BY <2>4, <1>2 DEF StoreFails, BackfillFails, Crash, Dies, Restart, bufferVars
  <2> QED BY <1>3, <1>4, <2>1, <2>2, <2>3, <2>4 DEF PacketizerNext, onTick

\* A stored signature always verifies against the stored packet and its chain
\* hash, for every pattern of failures and crashes.
THEOREM SignaturesCorrect == PacketizerSpec => []StoredSigVerifies
<1>1. PacketizerInit => SigInv
  <2> SUFFICES ASSUME PacketizerInit PROVE SigInv
    OBVIOUS
  <2>1. packets = <<>> /\ pc = "select"
    BY DEF PacketizerInit, BufferInit
  <2> QED BY <2>1 DEF SigInv, SigMemory, StoredSigVerifies
<1>2. SigInv => StoredSigVerifies
  BY DEF SigInv
<1> QED BY <1>1, <1>2, StepSig, ChainInvariant, PTL DEF PacketizerSpec

\* A quote, once written, stays; a session's quotes are only its own.
LEMMA StepQuote ==
    ChainInv /\ QuoteInv /\ [PacketizerNext]_packetizerVars => QuoteInv'
<1> SUFFICES ASSUME ChainInv, QuoteInv, [PacketizerNext]_packetizerVars PROVE QuoteInv'
  OBVIOUS
<1> USE DEF ChainInv
<1>1. ASSUME UNCHANGED <<packets, quotes>>, session'.lastQuoteID = 0 PROVE QuoteInv'
  BY <1>1 DEF QuoteInv, QuoteMemory, QuoteOfOwnSession
<1>2. ASSUME UNCHANGED <<packets, quotes>>, session'.lastQuoteID = session.lastQuoteID,
             session'.id = session.id, session'.seq = session.seq
      PROVE  QuoteInv'
  BY <1>2 DEF QuoteInv, QuoteMemory, QuoteOfOwnSession
<1>3. ASSUME UNCHANGED <<quotes>>, NEW b3 \in Bytes, session' = Advance(b3)
      PROVE  QuoteMemory'
  <2>1. /\ session'.id = session.id /\ session'.seq = session.seq + 1
        /\ session'.lastQuoteID = session.lastQuoteID
    BY <1>3, AdvanceType DEF TypeOK
  <2>2. session.seq \in Nat
    BY DEF TypeOK, Sessions
  <2>3. session.lastQuoteID \in DOMAIN quotes =>
           quotes[session.lastQuoteID].seq \in Nat
    <3>1. \A q \in DOMAIN quotes : quotes[q] \in QuoteRows
      BY DEF TypeOK, BufferTypeOK
    <3> QED BY <3>1 DEF QuoteRows
  <2> QED BY <1>3, <2>1, <2>2, <2>3 DEF QuoteInv, QuoteMemory
<1>4. ASSUME NEW state \in PrintStates, ApplyDelta(state) PROVE QuoteInv'
  <2>1. UNCHANGED <<packets, quotes>>
    BY <1>4 DEF ApplyDelta, bufferVars
  <2>2. \/ session' = NewSession(started + 1)
        \/ session' = [session EXCEPT !.silentTicks = 0]
    BY <1>4 DEF ApplyDelta, startNewSession
  <2>3. \/ session'.lastQuoteID = 0
        \/ /\ session'.lastQuoteID = session.lastQuoteID
           /\ session'.id = session.id /\ session'.seq = session.seq
    BY <2>2 DEF NewSession, TypeOK, Sessions
  <2> QED BY <1>1, <1>2, <2>1, <2>3
<1>5. CASE BeginTick
  <2>1. UNCHANGED <<packets, quotes>>
    BY <1>5 DEF BeginTick
  <2>2. TickSession \in Sessions
    BY SessionTypes DEF TypeOK
  <2>3. /\ session'.lastQuoteID = TickSession.lastQuoteID
        /\ session'.id = TickSession.id /\ session'.seq = TickSession.seq
    BY <1>5, <2>2 DEF BeginTick, Sessions
  <2>4. TickSession = session \/ TickSession.lastQuoteID = 0
    BY DEF TickSession, startNewSession, NewSession
  <2> QED BY <1>1, <1>2, <2>1, <2>3, <2>4
<1>6. CASE TakeQuote
  <2> DEFINE q == Len(quotes) + 1
             row == [session_id |-> session.id, seq |-> session.seq,
                     nonce |-> DeriveQuoteNonce(session.id, Sha256(pkt.canonical),
                                                session.prevBlake3, session.seq)]
  <2>1. quotes' = Append(quotes, row) /\ packets' = packets
    BY <1>6 DEF TakeQuote, WriteQuote
  <2>2. /\ DOMAIN quotes' = DOMAIN quotes \cup {q}
        /\ \A i \in DOMAIN quotes : quotes'[i] = quotes[i]
        /\ quotes'[q] = row
    BY <2>1, InsertedRow DEF TypeOK, BufferTypeOK
  <2>3. /\ session'.lastQuoteID = q /\ session'.id = session.id
        /\ session'.seq = session.seq
    BY <1>6 DEF TakeQuote, TypeOK, Sessions
  <2>4. session.seq \in Nat
    BY DEF TypeOK, Sessions
  <2>5. QuoteMemory'
    BY <2>2, <2>3, <2>4 DEF QuoteMemory
  <2>6. QuoteOfOwnSession'
    BY <2>1, <2>2 DEF QuoteInv, QuoteOfOwnSession
  <2> QED BY <2>5, <2>6 DEF QuoteInv
<1>7. ASSUME NEW sig \in Signatures, StorePacket(sig) PROVE QuoteInv'
  <2> DEFINE b3 == computePacketBLAKE3(session.seq, session.id, pkt.canonical,
                                       sig, session.prevBlake3)
  <2>1. packets' = Append(packets, NewRow(b3)) /\ quotes' = quotes
    BY <1>7 DEF StorePacket, WritePacket, NewRow
  <2>2. /\ DOMAIN packets' = DOMAIN packets \cup {Len(packets) + 1}
        /\ \A i \in DOMAIN packets : packets'[i] = packets[i]
        /\ packets'[Len(packets) + 1] = NewRow(b3)
    BY <2>1, InsertedRow DEF TypeOK, BufferTypeOK
  <2>3. NewRow(b3).quote_ref = 0
    BY DEF NewRow
  <2>4. QuoteOfOwnSession'
    BY <2>1, <2>2, <2>3 DEF QuoteInv, QuoteOfOwnSession
  <2>5. b3 \in Bytes
    <3>1. sig \in Bytes /\ pkt.canonical \in Bytes
      BY SignatureType DEF TypeOK, Packets
    <3>2. session.seq \in Nat /\ session.id \in Nat /\ session.prevBlake3 \in Bytes
      BY DEF TypeOK, Sessions
    <3> QED BY <3>1, <3>2, BytesTypes, ZeroSession
  <2>6. session' = Advance(b3) \/ session' = session
    BY <1>7 DEF StorePacket
  <2>7. QuoteMemory'
    BY <1>3, <2>1, <2>5, <2>6 DEF QuoteInv, QuoteMemory
  <2> QED BY <2>4, <2>7 DEF QuoteInv
<1>8. CASE BackfillSig
  <2>1. /\ pc = "setsig" /\ quotes' = quotes
        /\ session' = Advance(pkt.blake3)
        /\ session.lastQuoteID \in DOMAIN quotes
        /\ packets' = [i \in DOMAIN packets |->
                         IF i = pkt.rowID
                         THEN [packets[i] EXCEPT !.tpm_sig = pkt.sig,
                                                 !.quote_ref = session.lastQuoteID]
                         ELSE packets[i]]
    BY <1>8 DEF BackfillSig, SetTPMSig, QuoteExists
  <2>2. QuoteMemory'
    BY <1>3, <2>1 DEF TypeOK, Packets
  <2>3. \A i \in DOMAIN packets : packets[i] \in PacketRows
    BY RowTypes
  <2>4. DOMAIN packets' = DOMAIN packets
    BY <2>1
  <2>5. ASSUME NEW i \in DOMAIN packets
        PROVE  /\ i = pkt.rowID => packets'[i].quote_ref = session.lastQuoteID
               /\ i # pkt.rowID => packets'[i] = packets[i]
               /\ packets'[i].session_id = packets[i].session_id
               /\ packets'[i].seq = packets[i].seq
    BY <2>1, <2>3 DEF PacketRows
  <2>6. /\ packets[pkt.rowID].session_id = session.id
        /\ packets[pkt.rowID].seq = session.seq
    BY <2>1 DEF ChainMemory
  <2>7. ASSUME NEW i \in DOMAIN packets, packets'[i].quote_ref # 0
        PROVE  /\ packets'[i].quote_ref \in DOMAIN quotes
               /\ quotes[packets'[i].quote_ref].session_id = packets'[i].session_id
               /\ quotes[packets'[i].quote_ref].seq <= packets'[i].seq
    <3>1. CASE i = pkt.rowID
      <4> DEFINE ref == packets'[i].quote_ref
      <4>1. /\ ref = session.lastQuoteID /\ ref # 0
            /\ packets'[i].session_id = session.id /\ packets'[i].seq = session.seq
        BY <2>5, <2>6, <2>7, <3>1
      <4> HIDE DEF ref
      <4>2. /\ ref \in DOMAIN quotes
            /\ quotes[ref].session_id = session.id /\ quotes[ref].seq <= session.seq
        BY <4>1 DEF QuoteInv, QuoteMemory
      <4> QED BY <4>1, <4>2 DEF ref
    <3>2. CASE i # pkt.rowID
      BY <2>5, <2>7, <3>2 DEF QuoteInv, QuoteOfOwnSession
    <3> QED BY <3>1, <3>2
  <2>8. QuoteOfOwnSession'
    BY <2>1, <2>4, <2>7 DEF QuoteOfOwnSession
  <2> QED BY <2>2, <2>8 DEF QuoteInv
<1>9. CASE BackfillFails
  <2>1. /\ UNCHANGED <<packets, quotes>> /\ session' = Advance(pkt.blake3)
    BY <1>9 DEF BackfillFails, bufferVars
  <2>2. QuoteMemory'
    BY <1>3, <2>1 DEF TypeOK, Packets
  <2> QED BY <2>1, <2>2 DEF QuoteInv, QuoteOfOwnSession
<1>10. CASE Crash
  <2>1. UNCHANGED <<packets, quotes>> /\ session' = NewSession(0)
    BY <1>10 DEF Crash, Dies, bufferVars
  <2> QED BY <1>1, <2>1 DEF NewSession
<1> QED
  <2>1. CASE TickerFires \/ TickIdle \/ SkipQuote \/ QuoteFails \/ UNCHANGED packetizerVars
    BY <2>1, <1>2 DEF TickerFires, TickIdle, SkipQuote, QuoteFails, packetizerVars,
                      bufferVars, loopVars
  <2>2. CASE StoreFails \/ Restart
    BY <2>2, <1>2 DEF StoreFails, Restart, bufferVars
  <2> QED BY <1>4, <1>5, <1>6, <1>7, <1>8, <1>9, <1>10, <2>1, <2>2
          DEF PacketizerNext, onTick

\* quote_ref always points into the packet's own session, at or before the
\* packet, for every pattern of failures and crashes.
THEOREM QuotesCorrect == PacketizerSpec => []QuoteOfOwnSession
<1>1. PacketizerInit => QuoteInv
  <2> SUFFICES ASSUME PacketizerInit PROVE QuoteInv
    OBVIOUS
  <2>1. packets = <<>> /\ session.lastQuoteID = 0
    BY DEF PacketizerInit, BufferInit, NewSession
  <2> QED BY <2>1 DEF QuoteInv, QuoteMemory, QuoteOfOwnSession
<1>2. QuoteInv => QuoteOfOwnSession
  BY DEF QuoteInv
<1> QED BY <1>1, <1>2, StepQuote, ChainInvariant, PTL DEF PacketizerSpec

-----------------------------------------------------------------------------
(***************************************************************************)
(* What a step does to the packets table: nothing, one INSERT, or one      *)
(* UPDATE of an unset signature.  Both the action property and the         *)
(* refinement follow from this and the chain invariant.                    *)
(***************************************************************************)
LEMMA TableStep ==
    ASSUME ChainInv, [PacketizerNext]_packetizerVars
    PROVE  \/ packets' = packets
           \/ \E b3 \in Bytes : /\ pc = "write"
                                /\ ~Duplicate(session.id, session.seq)
                                /\ packets' = Append(packets, NewRow(b3))
           \/ /\ packets' \in Seq(PacketRows)
              /\ Len(packets') = Len(packets)
              /\ DOMAIN packets' = DOMAIN packets
              /\ \A i \in DOMAIN packets : packets'[i] = packets[i] \/ OnlySignature(i)
<1> USE DEF ChainInv
<1>1. ASSUME NEW sig \in Signatures, StorePacket(sig)
      PROVE  \E b3 \in Bytes : /\ pc = "write"
                               /\ ~Duplicate(session.id, session.seq)
                               /\ packets' = Append(packets, NewRow(b3))
  <2> DEFINE b3 == computePacketBLAKE3(session.seq, session.id, pkt.canonical,
                                       sig, session.prevBlake3)
  <2>1. sig \in Bytes /\ pkt.canonical \in Bytes
    BY SignatureType DEF TypeOK, Packets
  <2>2. session.seq \in Nat /\ session.id \in Nat /\ session.prevBlake3 \in Bytes
    BY DEF TypeOK, Sessions
  <2>3. b3 \in Bytes
    BY <2>1, <2>2, BytesTypes, ZeroSession
  <2>4. /\ pc = "write" /\ ~Duplicate(session.id, session.seq)
        /\ packets' = Append(packets, NewRow(b3))
    BY <1>1 DEF StorePacket, WritePacket, NewRow
  <2> QED BY <2>3, <2>4
<1>2. CASE BackfillSig
  <2>1. packets' \in Seq(PacketRows)
    BY StepType DEF TypeOK, BufferTypeOK
  <2>2. /\ pc = "setsig"
        /\ packets' = [i \in DOMAIN packets |->
                         IF i = pkt.rowID
                         THEN [packets[i] EXCEPT !.tpm_sig = pkt.sig,
                                                 !.quote_ref = session.lastQuoteID]
                         ELSE packets[i]]
    BY <1>2 DEF BackfillSig, SetTPMSig
  <2>3. DOMAIN packets' = DOMAIN packets
    BY <2>2
  <2>4. Len(packets') = Len(packets)
    BY <2>1, <2>3 DEF TypeOK, BufferTypeOK
  <2>5. ASSUME NEW i \in DOMAIN packets PROVE packets'[i] = packets[i] \/ OnlySignature(i)
    <3>1. CASE i = pkt.rowID
      <4>1. packets[i] \in PacketRows
        BY RowTypes
      <4>2. packets[i].tpm_sig = Nil
        BY <2>2, <3>1 DEF ChainMemory
      <4>3. packets'[i] = [packets[i] EXCEPT !.tpm_sig = pkt.sig,
                                             !.quote_ref = session.lastQuoteID]
        BY <2>2, <3>1
      <4>4. packets'[i].tpm_sig = pkt.sig /\ packets'[i].quote_ref = session.lastQuoteID
        BY <4>1, <4>3 DEF PacketRows
      <4> QED BY <4>2, <4>3, <4>4 DEF OnlySignature
    <3>2. CASE i # pkt.rowID
      BY <2>2, <3>2
    <3> QED BY <3>1, <3>2
  <2> QED BY <2>1, <2>3, <2>4, <2>5
<1>3. ASSUME NEW state \in PrintStates, ApplyDelta(state) PROVE packets' = packets
  BY <1>3 DEF ApplyDelta, bufferVars
<1>4. CASE TickerFires \/ TickIdle \/ BeginTick \/ SkipQuote \/ TakeQuote \/ QuoteFails
  BY <1>4 DEF TickerFires, TickIdle, BeginTick, SkipQuote, TakeQuote, QuoteFails, bufferVars
<1>5. CASE StoreFails \/ BackfillFails \/ Crash \/ Restart \/ UNCHANGED packetizerVars
  BY <1>5 DEF StoreFails, BackfillFails, Crash, Dies, Restart, packetizerVars, bufferVars
<1> QED BY <1>1, <1>2, <1>3, <1>4, <1>5 DEF PacketizerNext, onTick

\* No step of the custody loop removes or rewrites a stored packet.
THEOREM AppendOnlyCorrect == PacketizerSpec => AppendOnly
<1>1. ChainInv /\ [PacketizerNext]_packetizerVars => KeepsPackets
  <2> SUFFICES ASSUME ChainInv, [PacketizerNext]_packetizerVars PROVE KeepsPackets
    OBVIOUS
  <2>1. packets \in Seq(PacketRows) /\ Len(packets) \in Nat
    BY DEF ChainInv, TypeOK, BufferTypeOK
  <2>2. ASSUME NEW row, packets' = Append(packets, row) PROVE KeepsPackets
    <3>1. Len(packets') = Len(packets) + 1
      BY <2>1, <2>2
    <3> QED BY <2>1, <2>2, <3>1, InsertedRow DEF KeepsPackets
  <2> QED BY <2>1, <2>2, TableStep DEF KeepsPackets
<1> QED BY <1>1, ChainInvariant, PTL DEF PacketizerSpec, AppendOnly

\* A step of the custody loop adds the next link of one session or none.
LEMMA StepLinks == ChainInv /\ [PacketizerNext]_packetizerVars => [HC!ChainNext]_Links
<1> SUFFICES ASSUME ChainInv, [PacketizerNext]_packetizerVars
             PROVE  HC!ChainNext \/ Links' = Links
  OBVIOUS
<1>1. CASE packets' = packets
  BY <1>1 DEF Links
<1>2. ASSUME NEW b3 \in Bytes, pc = "write", ~Duplicate(session.id, session.seq),
             packets' = Append(packets, NewRow(b3))
      PROVE  HC!ChainNext
  <2> DEFINE link == [session |-> session.id, seq |-> session.seq,
                      prev |-> session.prevBlake3, hash |-> b3]
             n == Len(packets) + 1
  <2>1. /\ DOMAIN packets' = DOMAIN packets \cup {n}
        /\ \A i \in DOMAIN packets : packets'[i] = packets[i]
        /\ packets'[n] = NewRow(b3)
    BY <1>2, InsertedRow DEF ChainInv, TypeOK, BufferTypeOK
  <2>2. /\ NewRow(b3).session_id = session.id /\ NewRow(b3).seq = session.seq
        /\ NewRow(b3).prev_packet_blake3 = session.prevBlake3
        /\ NewRow(b3).packet_blake3 = b3
    BY DEF NewRow
  <2>3. Links' = Links \cup {link}
    BY <2>1, <2>2 DEF Links
  <2>4. HC!Unused(link)
    BY <1>2 DEF HC!Unused, Links, Duplicate
  <2>5. HC!Extends(link)
    <3>1. CASE session.seq = 0
      BY <3>1 DEF HC!Extends, ChainInv, ChainMemory
    <3>2. CASE session.seq # 0
      <4>1. PICK i \in DOMAIN packets :
               /\ packets[i].session_id = session.id
               /\ packets[i].seq = session.seq - 1
               /\ packets[i].packet_blake3 = session.prevBlake3
        BY <3>2 DEF ChainInv, ChainMemory
      <4>2. session.seq = packets[i].seq + 1
        BY <4>1 DEF ChainInv, TypeOK, Sessions
      <4> DEFINE l == [session |-> packets[i].session_id, seq |-> packets[i].seq,
                       prev |-> packets[i].prev_packet_blake3,
                       hash |-> packets[i].packet_blake3]
      <4>3. l \in Links
        BY DEF Links
      <4>4. /\ l.session = link.session /\ link.seq = l.seq + 1 /\ link.prev = l.hash
        BY <4>1, <4>2
      <4> QED BY <4>3, <4>4 DEF HC!Extends
    <3> QED BY <3>1, <3>2
  <2>6. link \in Links'
    BY <2>3
  <2> QED BY <2>3, <2>4, <2>5, <2>6 DEF HC!ChainNext, HC!AppendLink
<1>3. ASSUME DOMAIN packets' = DOMAIN packets,
             \A i \in DOMAIN packets : packets'[i] = packets[i] \/ OnlySignature(i)
      PROVE  Links' = Links
  <2>1. ASSUME NEW i \in DOMAIN packets
        PROVE  /\ packets'[i].session_id = packets[i].session_id
               /\ packets'[i].seq = packets[i].seq
               /\ packets'[i].prev_packet_blake3 = packets[i].prev_packet_blake3
               /\ packets'[i].packet_blake3 = packets[i].packet_blake3
    <3>1. packets[i] \in PacketRows
      BY RowTypes DEF ChainInv
    <3> QED BY <1>3, <3>1 DEF OnlySignature, PacketRows
  <2> QED BY <1>3, <2>1 DEF Links
<1> QED BY <1>1, <1>2, <1>3, TableStep

\* The custody loop implements the abstract hash chain: each step adds the next
\* link of one session or none.
THEOREM RefinesHashChain == PacketizerSpec => ImplementsHashChain
<1>1. PacketizerInit => HC!ChainInit
  <2> SUFFICES ASSUME PacketizerInit PROVE HC!ChainInit
    OBVIOUS
  <2>1. packets = <<>>
    BY DEF PacketizerInit, BufferInit
  <2> QED BY <2>1 DEF Links, HC!ChainInit
<1> QED BY <1>1, StepLinks, ChainInvariant, PTL
        DEF PacketizerSpec, ImplementsHashChain, HC!ChainSpec

-----------------------------------------------------------------------------
(***************************************************************************)
(* What a quote binds.  A quote is taken for the packet about to be        *)
(* stored; as long as WritePacket does not fail, that packet is stored     *)
(* next at its number, or none ever is.                                    *)
(***************************************************************************)
Binds(P, Q) ==
    \A q \in DOMAIN Q, i \in DOMAIN P :
        (P[i].session_id = Q[q].session_id /\ P[i].seq = Q[q].seq) =>
            Q[q].nonce = DeriveQuoteNonce(P[i].session_id, P[i].packet_sha256,
                                          P[i].prev_packet_blake3, P[i].seq)

OfStarted(Q) == \A q \in DOMAIN Q : Q[q].session_id \in 1 .. started

\* The quotes of the current session are for packets that are stored, or for the
\* packet onTick holds in its locals.
BoundMemory ==
    \A q \in DOMAIN quotes : quotes[q].session_id = session.id =>
        \/ quotes[q].seq < session.seq
        \/ quotes[q].seq = session.seq /\ pc = "setsig"
        \/ /\ quotes[q].seq = session.seq /\ pc = "write"
           /\ quotes[q].nonce = DeriveQuoteNonce(session.id, Sha256(pkt.canonical),
                                                 session.prevBlake3, session.seq)

BoundInv == BoundMemory /\ OfStarted(quotes) /\ Binds(packets, quotes)

\* Every step of the custody loop keeps quotes bound to the packets stored.
LEMMA StepBound ==
    ASSUME "write" \notin MayFail, ChainInv, BoundInv, [PacketizerNext]_packetizerVars
    PROVE  BoundInv' /\ started <= started'
<1> USE DEF ChainInv
<1>0. started \in Nat /\ session \in Sessions /\ session.seq \in Nat
  BY DEF TypeOK, Sessions
<1>1. ASSUME UNCHANGED <<packets, quotes>>, session'.id = started' \/ session'.id = 0,
             \/ started' = started /\ session'.id = 0
             \/ started' = started + 1 /\ session'.id = started + 1
      PROVE  BoundInv' /\ started <= started'
  <2>1. OfStarted(quotes)' /\ Binds(packets, quotes)'
    BY <1>0, <1>1 DEF BoundInv, OfStarted, Binds
  <2>2. \A q \in DOMAIN quotes : quotes[q].session_id # session'.id
    BY <1>0, <1>1 DEF BoundInv, OfStarted
  <2> QED BY <1>0, <1>1, <2>1, <2>2 DEF BoundInv, BoundMemory
<1>2. ASSUME UNCHANGED <<packets, quotes, started>>,
             session'.id = session.id, session'.seq = session.seq,
             pc \notin {"write", "setsig"}
      PROVE  BoundInv' /\ started <= started'
  BY <1>0, <1>2 DEF BoundInv, BoundMemory, OfStarted, Binds
<1>3. ASSUME UNCHANGED <<packets, quotes, started, session, pc, pkt>>
      PROVE  BoundInv' /\ started <= started'
  BY <1>0, <1>3 DEF BoundInv, BoundMemory, OfStarted, Binds
<1>4. ASSUME NEW state \in PrintStates, ApplyDelta(state)
      PROVE  BoundInv' /\ started <= started'
  <2>1. UNCHANGED <<packets, quotes>> /\ pc = "select"
    BY <1>4 DEF ApplyDelta, bufferVars
  <2>2. CASE StartsSession(printState, state)
    <3>1. session' = NewSession(started + 1) /\ started' = started + 1
      BY <1>4, <2>2 DEF ApplyDelta, startNewSession
    <3> QED BY <1>1, <2>1, <3>1 DEF NewSession
  <2>3. CASE ~StartsSession(printState, state)
    <3>1. session' = [session EXCEPT !.silentTicks = 0] /\ started' = started
      BY <1>4, <2>3 DEF ApplyDelta
    <3>2. session'.id = session.id /\ session'.seq = session.seq
      BY <1>0, <3>1 DEF Sessions
    <3> QED BY <1>2, <2>1, <3>1, <3>2
  <2> QED BY <2>2, <2>3
<1>5. CASE BeginTick
  <2>1. UNCHANGED <<packets, quotes>> /\ pc = "select"
    BY <1>5 DEF BeginTick
  <2>2. TickSession \in Sessions
    BY SessionTypes DEF TypeOK
  <2>3. session'.id = TickSession.id /\ session'.seq = TickSession.seq
    BY <1>5, <2>2 DEF BeginTick, Sessions
  <2>4. CASE session.id = 0
    <3>1. TickSession = NewSession(started + 1) /\ started' = started + 1
      BY <1>5, <2>4 DEF BeginTick, TickSession, startNewSession
    <3> QED BY <1>1, <2>1, <2>3, <3>1 DEF NewSession
  <2>5. CASE session.id # 0
    <3>1. TickSession = session /\ started' = started
      BY <1>5, <2>5 DEF BeginTick, TickSession
    <3> QED BY <1>2, <2>1, <2>3, <3>1
  <2> QED BY <2>4, <2>5
<1>6. CASE TakeQuote
  <2> DEFINE new == [session_id |-> session.id, seq |-> session.seq,
                     nonce |-> DeriveQuoteNonce(session.id, Sha256(pkt.canonical),
                                                session.prevBlake3, session.seq)]
             last == Len(quotes) + 1
  <2>1. /\ quotes' = Append(quotes, new) /\ UNCHANGED <<packets, pkt, started>>
        /\ pc = "quote" /\ pc' = "write"
    BY <1>6 DEF TakeQuote, WriteQuote, envVars
  <2>2. /\ DOMAIN quotes' = DOMAIN quotes \cup {last}
        /\ \A q \in DOMAIN quotes : quotes'[q] = quotes[q]
        /\ quotes'[last] = new
    BY <2>1, InsertedRow DEF TypeOK, BufferTypeOK
  <2>3. /\ session'.id = session.id /\ session'.seq = session.seq
        /\ session'.prevBlake3 = session.prevBlake3
    BY <1>0, <1>6 DEF TakeQuote, Sessions
  <2>4. session.id \in 1 .. started
    BY <1>0, <2>1 DEF ChainMemory, Sessions
  <2>5. /\ new.session_id = session.id /\ new.seq = session.seq
        /\ new.nonce = DeriveQuoteNonce(session.id, Sha256(pkt.canonical),
                                        session.prevBlake3, session.seq)
    OBVIOUS
  <2> HIDE DEF new, last
  <2>6. OfStarted(quotes)'
    BY <2>1, <2>2, <2>4, <2>5 DEF BoundInv, OfStarted
  <2>7. BoundMemory'
    BY <2>1, <2>2, <2>3, <2>5 DEF BoundInv, BoundMemory
  <2>8. \A i \in DOMAIN packets : packets[i].session_id = session.id =>
                                    packets[i].seq < session.seq
    BY <2>1 DEF ChainMemory, Settled
  <2>9. \A i \in DOMAIN packets : ~(packets[i].session_id = new.session_id
                                     /\ packets[i].seq = new.seq)
    BY <1>0, <2>5, <2>8
  <2>10. Binds(packets', quotes')
    BY <2>1, <2>2, <2>9 DEF BoundInv, Binds
  <2> QED BY <1>0, <2>1, <2>6, <2>7, <2>10 DEF BoundInv
<1>7. ASSUME NEW sig \in Signatures, StorePacket(sig)
      PROVE  BoundInv' /\ started <= started'
  <2> DEFINE b3 == computePacketBLAKE3(session.seq, session.id, pkt.canonical,
                                       sig, session.prevBlake3)
             last == Len(packets) + 1
  <2>1. /\ packets' = Append(packets, NewRow(b3)) /\ UNCHANGED <<quotes, started>>
        /\ pc = "write"
        /\ \/ session' = Advance(b3) /\ pc' = "select"
           \/ session' = session /\ pc' = "setsig"
    BY <1>7 DEF StorePacket, WritePacket, NewRow, envVars
  <2>2. /\ DOMAIN packets' = DOMAIN packets \cup {last}
        /\ \A i \in DOMAIN packets : packets'[i] = packets[i]
        /\ packets'[last] = NewRow(b3)
    BY <2>1, InsertedRow DEF TypeOK, BufferTypeOK
  <2>3. /\ NewRow(b3).session_id = session.id /\ NewRow(b3).seq = session.seq
        /\ NewRow(b3).prev_packet_blake3 = session.prevBlake3
        /\ NewRow(b3).packet_sha256 = Sha256(pkt.canonical)
    BY DEF NewRow
  <2>4. b3 \in Bytes
    <3>1. sig \in Bytes /\ pkt.canonical \in Bytes
      BY SignatureType DEF TypeOK, Packets
    <3>2. session.seq \in Nat /\ session.id \in Nat /\ session.prevBlake3 \in Bytes
      BY DEF TypeOK, Sessions
    <3> QED BY <3>1, <3>2, BytesTypes, ZeroSession
  <2> HIDE DEF b3, last
  <2>5. \/ session'.id = session.id /\ session'.seq = session.seq + 1 /\ pc' = "select"
        \/ session'.id = session.id /\ session'.seq = session.seq /\ pc' = "setsig"
    BY <1>0, <2>1, <2>4, AdvanceType
  <2>6. \A q \in DOMAIN quotes : quotes[q].seq \in Nat
    <3>1. \A q \in DOMAIN quotes : quotes[q] \in QuoteRows
      BY DEF TypeOK, BufferTypeOK
    <3> QED BY <3>1 DEF QuoteRows
  <2>7. ASSUME NEW q \in DOMAIN quotes, quotes[q].session_id = session.id
        PROVE  \/ quotes[q].seq < session.seq
               \/ /\ quotes[q].seq = session.seq
                  /\ quotes[q].nonce = DeriveQuoteNonce(session.id, Sha256(pkt.canonical),
                                                        session.prevBlake3, session.seq)
    BY <2>1, <2>7 DEF BoundInv, BoundMemory
  <2>8. BoundMemory'
    BY <1>0, <2>1, <2>5, <2>6, <2>7 DEF BoundMemory
  <2>9. ASSUME NEW q \in DOMAIN quotes, NEW i \in DOMAIN packets',
               packets'[i].session_id = quotes[q].session_id,
               packets'[i].seq = quotes[q].seq
        PROVE  quotes[q].nonce = DeriveQuoteNonce(packets'[i].session_id,
                  packets'[i].packet_sha256, packets'[i].prev_packet_blake3, packets'[i].seq)
    <3>1. CASE i \in DOMAIN packets
      BY <2>2, <2>9, <3>1 DEF BoundInv, Binds
    <3>2. CASE i = last
      BY <1>0, <2>2, <2>3, <2>6, <2>7, <2>9, <3>2
    <3> QED BY <2>2, <3>1, <3>2
  <2>10. Binds(packets', quotes')
    BY <2>1, <2>9 DEF Binds
  <2>11. OfStarted(quotes)'
    BY <2>1 DEF BoundInv, OfStarted
  <2> QED BY <1>0, <2>1, <2>8, <2>10, <2>11 DEF BoundInv
<1>8. CASE BackfillSig \/ BackfillFails
  <2>1. /\ session' = Advance(pkt.blake3) /\ pc' = "select" /\ pc = "setsig"
        /\ UNCHANGED <<quotes, started>>
    BY <1>8 DEF BackfillSig, BackfillFails, envVars, bufferVars
  <2>2. session'.id = session.id /\ session'.seq = session.seq + 1
    <3>1. pkt.blake3 \in Bytes
      BY DEF TypeOK, Packets
    <3> QED BY <1>0, <2>1, <3>1, AdvanceType
  <2>3. /\ DOMAIN packets' = DOMAIN packets
        /\ \A i \in DOMAIN packets :
              /\ packets'[i].session_id = packets[i].session_id
              /\ packets'[i].seq = packets[i].seq
              /\ packets'[i].packet_sha256 = packets[i].packet_sha256
              /\ packets'[i].prev_packet_blake3 = packets[i].prev_packet_blake3
    <3>1. \A i \in DOMAIN packets : packets[i] \in PacketRows
      BY RowTypes
    <3>2. CASE BackfillSig
      BY <3>1, <3>2 DEF BackfillSig, SetTPMSig, PacketRows
    <3>3. CASE BackfillFails
      BY <3>3 DEF BackfillFails, bufferVars
    <3> QED BY <1>8, <3>2, <3>3
  <2>4. Binds(packets', quotes')
    BY <2>1, <2>3 DEF BoundInv, Binds
  <2>5. \A q \in DOMAIN quotes : quotes[q].seq \in Nat
    <3>1. \A q \in DOMAIN quotes : quotes[q] \in QuoteRows
      BY DEF TypeOK, BufferTypeOK
    <3> QED BY <3>1 DEF QuoteRows
  <2>6. BoundMemory' /\ OfStarted(quotes)'
    BY <1>0, <2>1, <2>2, <2>5 DEF BoundInv, BoundMemory, OfStarted
  <2> QED BY <1>0, <2>1, <2>4, <2>6 DEF BoundInv
<1>9. CASE SkipQuote \/ QuoteFails \/ Restart
  <2>1. UNCHANGED <<packets, quotes, started, session>> /\ pc \notin {"write", "setsig"}
    BY <1>9 DEF SkipQuote, QuoteFails, Restart, bufferVars, envVars
  <2> QED BY <1>2, <2>1
<1>10. ~StoreFails
  <2>1. pc = "write" => ~Duplicate(session.id, session.seq)
    BY <1>0 DEF ChainMemory, Settled, Duplicate
  <2> QED BY <2>1 DEF StoreFails
<1>11. CASE Crash
  <2>1. UNCHANGED <<packets, quotes, started>> /\ session' = NewSession(0)
    BY <1>11 DEF Crash, Dies, bufferVars
  <2> QED BY <1>1, <2>1 DEF NewSession
<1>12. CASE TickerFires \/ TickIdle \/ UNCHANGED packetizerVars
  BY <1>3, <1>12 DEF TickerFires, TickIdle, packetizerVars, bufferVars, loopVars, envVars
<1> QED BY <1>4, <1>5, <1>6, <1>7, <1>8, <1>9, <1>10, <1>11, <1>12
        DEF PacketizerNext, onTick

-----------------------------------------------------------------------------
(***************************************************************************)
(* A worker that can sign has a quote to refer to: it takes one before the *)
(* first packet of a session, unless taking it fails.                      *)
(***************************************************************************)
HasQuote == QuoteExists(session.lastQuoteID)

QuoteReady ==
    /\ session.lastQuoteAt # 0 => HasQuote
    /\ (pc = "write" /\ tpm) => HasQuote
    /\ pc = "setsig" => HasQuote


\* Every step of the custody loop keeps a quote at hand for the worker.
LEMMA StepReady ==
    ASSUME "quote" \notin MayFail, ChainInv, QuoteReady, [PacketizerNext]_packetizerVars
    PROVE  QuoteReady'
<1> USE DEF ChainInv, QuoteReady, HasQuote, QuoteExists
<1>0. session \in Sessions /\ session.lastQuoteAt \in Nat
  BY DEF TypeOK, Sessions
<1>1. CASE TickerFires \/ TickIdle \/ UNCHANGED packetizerVars
  BY <1>1 DEF TickerFires, TickIdle, packetizerVars, bufferVars, loopVars
<1>2. ASSUME NEW state \in PrintStates, ApplyDelta(state) PROVE QuoteReady'
  <2>1. UNCHANGED <<quotes, tpm, pc>> /\ pc = "select"
    BY <1>2 DEF ApplyDelta, bufferVars
  <2>2. session' = startNewSession \/ session' = [session EXCEPT !.silentTicks = 0]
    BY <1>2 DEF ApplyDelta
  <2>3. session'.lastQuoteAt # 0 => /\ session.lastQuoteAt # 0
                                    /\ session'.lastQuoteID = session.lastQuoteID
    BY <1>0, <2>2 DEF startNewSession, NewSession, Sessions
  <2> QED BY <2>1, <2>3
<1>3. CASE BeginTick
  <2>1. UNCHANGED <<quotes, tpm>> /\ pc' = "quote"
    BY <1>3 DEF BeginTick
  <2>2. TickSession \in Sessions
    BY SessionTypes DEF TypeOK
  <2>3. /\ session'.lastQuoteAt = TickSession.lastQuoteAt
        /\ session'.lastQuoteID = TickSession.lastQuoteID
    BY <1>3, <2>2 DEF BeginTick, Sessions
  <2>4. TickSession.lastQuoteAt # 0 => TickSession = session
    BY DEF TickSession, startNewSession, NewSession
  <2> QED BY <2>1, <2>3, <2>4
<1>4. CASE SkipQuote
  <2>1. /\ UNCHANGED <<quotes, tpm, session>> /\ pc' = "write"
        /\ ~(tpm /\ shouldQuote)
    BY <1>4 DEF SkipQuote, bufferVars
  <2>2. tpm => session.lastQuoteAt # 0
    BY <2>1 DEF shouldQuote
  <2> QED BY <2>1, <2>2
<1>5. CASE TakeQuote
  <2>1. Len(quotes) + 1 \in DOMAIN quotes'
    BY <1>5, InsertedRow DEF TakeQuote, WriteQuote, TypeOK, BufferTypeOK
  <2>2. session'.lastQuoteID = Len(quotes) + 1
    BY <1>0, <1>5 DEF TakeQuote, Sessions
  <2> QED BY <2>1, <2>2
<1>6. ~QuoteFails
  BY DEF QuoteFails
<1>7. ASSUME NEW sig \in Signatures, StorePacket(sig) PROVE QuoteReady'
  <2>1. UNCHANGED <<quotes, tpm>> /\ pc = "write"
    BY <1>7 DEF StorePacket
  <2>2. CASE sig = Nil
    <3>1. pc' = "select" /\ \E b3 : session' = Advance(b3)
      BY <1>7, <2>2 DEF StorePacket
    <3>2. /\ session'.lastQuoteID = session.lastQuoteID
          /\ session'.lastQuoteAt = session.lastQuoteAt
      BY <1>0, <3>1 DEF Advance, Sessions
    <3> QED BY <2>1, <3>1, <3>2
  <2>3. CASE sig # Nil
    <3>1. UNCHANGED session /\ pc' = "setsig"
      BY <1>7, <2>3 DEF StorePacket
    <3>2. tpm
      BY <2>3 DEF Signatures
    <3> QED BY <2>1, <3>1, <3>2
  <2> QED BY <2>2, <2>3
<1>8. CASE StoreFails
  BY <1>8 DEF StoreFails, bufferVars
<1>9. CASE BackfillSig \/ BackfillFails
  <2>1. UNCHANGED quotes /\ pc' = "select" /\ session' = Advance(pkt.blake3)
    BY <1>9 DEF BackfillSig, BackfillFails, bufferVars
  <2>2. /\ session'.lastQuoteID = session.lastQuoteID
        /\ session'.lastQuoteAt = session.lastQuoteAt
    BY <1>0, <2>1 DEF Advance, Sessions
  <2> QED BY <2>1, <2>2
<1>10. CASE Crash
  BY <1>10 DEF Crash, Dies, NewSession
<1>11. CASE Restart
  BY <1>11 DEF Restart, bufferVars
<1> QED BY <1>1, <1>2, <1>3, <1>4, <1>5, <1>6, <1>7, <1>8, <1>9, <1>10, <1>11
        DEF PacketizerNext, onTick
=============================================================================
