----------------------------- MODULE Packetizer -----------------------------
(***************************************************************************)
(* The custody loop (internal/custody/packetizer.go) over the trust        *)
(* buffer.  One goroutine selects between deltas from Moonraker and its    *)
(* ticker; each tick of an active print becomes one packet of the session. *)
(*                                                                         *)
(* onTick is four steps, because it calls the TPM and the database three   *)
(* times, any call can fail, the daemon can die between any two, and the   *)
(* clock keeps running during all of them:                                 *)
(*                                                                         *)
(*   select --BeginTick--> quote --RunQuote--> write --Store--> setsig     *)
(*      ^                                        |                |        *)
(*      +----------------------------------------+----------------+        *)
(*                                                                         *)
(* Hashes and signatures are symbolic: each is (a tag and) the bytes it is *)
(* computed from, so two are equal exactly when their preimages are.       *)
(* Sensor readings and the policy's decision are data of the packet that   *)
(* no property here tells apart and are left out.                          *)
(***************************************************************************)
EXTENDS HotBuffer

CONSTANTS
    PrinterEdges,     \* the changes of print_stats.state a delta may carry
    MaxSilentTicks,   \* cfg.MaxSilentTicks
    QuoteInterval,    \* cfg.QuoteInterval, in ticks
    QuoteOnLifecycle, \* cfg.QuoteOnLifecycle
    TPMOpens,         \* the outcomes of opening the TPM when the daemon starts
    MayFail,          \* the calls of onTick that may fail
    MaxTime,          \* bound: active ticks are handled before this time
    MaxSessions,      \* bound: sessions started
    MaxCrashes        \* bound: crashes of the daemon

PrintStates ==
    {"", "standby", "printing", "paused", "complete", "cancelled", "error"}

\* "slow": a tick may take longer than a period, so the ticker drops ticks.
Failures == {"fault", "quote", "sign", "write", "setsig", "slow"}

ASSUME EdgesAssumption == PrinterEdges \subseteq PrintStates \X PrintStates
ASSUME ConfigAssumption == /\ MaxSilentTicks \in Nat
                           /\ QuoteInterval \in Nat
                           /\ QuoteOnLifecycle \in BOOLEAN
ASSUME TPMAssumption == TPMOpens \subseteq BOOLEAN /\ TPMOpens # {}
ASSUME FailAssumption == MayFail \subseteq Failures
ASSUME BoundAssumption == /\ MaxTime \in Nat
                          /\ MaxSessions \in Nat
                          /\ MaxCrashes \in Nat

VARIABLES
    printState,      \* state.PrintStats.State, the cached print state
    session,         \* the session fields of the Packetizer
    immediateQuote,
    tpm,             \* p.tpm # nil
    pc,              \* where the goroutine is; "down": no daemon is running
    pkt,             \* the locals of onTick
    tickC,           \* ticker.C, of capacity one: 0, or the tick waiting in it
    now,             \* the time, in custody periods
    started,         \* sessions started so far: random ids never repeat
    crashes,
    lastDelta        \* history: when the last delta was applied

loopVars == <<printState, session, immediateQuote, tpm, pc, pkt>>
envVars == <<tickC, now, started, crashes, lastDelta>>
packetizerVars == <<bufferVars, loopVars, envVars>>

-----------------------------------------------------------------------------
\* The symbolic cryptography.
Sha256(bytes) == <<256>> \o bytes
SignPacket(canonical) == <<2048>> \o Sha256(canonical)

\* Absent parts contribute no bytes.
computePacketBLAKE3(seq, sid, canonical, sig, prev) ==
    <<0, seq, sid>> \o canonical \o sig \o prev

\* The session nonce is random and drawn with the session id, so the id
\* stands for it.
DeriveQuoteNonce(sid, sha, prev, seq) == Sha256(<<sid>> \o sha \o <<seq>> \o prev)

\* What of the marshalled CustodyPacket tells packets apart.  It holds the
\* quote known before this tick's own quote is taken.
Canonical(s, tick) ==
    <<s.id, s.seq, tick, s.lastQuoteID>> \o s.prevBlake3

-----------------------------------------------------------------------------
\* The session fields; id 0 is the empty sessionID, lastQuoteAt 0 the zero time.
Sessions == [id : Nat, seq : Nat, prevBlake3 : Bytes, lastQuoteID : Nat,
             lastQuoteAt : Nat, silentTicks : Nat]

NewSession(id) == [id |-> id, seq |-> 0, prevBlake3 |-> Nil, lastQuoteID |-> 0,
                   lastQuoteAt |-> 0, silentTicks |-> 0]

\* Bug: the chain hash of the previous session is kept.
Bug_SessionKeepsHash ==
    [NewSession(started + 1) EXCEPT !.prevBlake3 = session.prevBlake3]

\* Bug: the quote of the previous session is kept.
Bug_SessionKeepsQuote ==
    [NewSession(started + 1) EXCEPT !.lastQuoteID = session.lastQuoteID,
                                    !.lastQuoteAt = session.lastQuoteAt]

\* Bug: -1 stands for "no quote yet".
Bug_SessionQuoteSentinel == [NewSession(started + 1) EXCEPT !.lastQuoteID = -1]

\* Bug: the id is fixed, as the one main.go makes of the node's label.
Bug_SessionIdFixed == NewSession(1)

\* The id is random: one that no session had.
startNewSession == NewSession(started + 1)

Packets == [tick : Nat, canonical : Bytes, sig : Bytes, blake3 : Bytes,
            rowID : Nat]
NoPacket == [tick |-> 0, canonical |-> Nil, sig |-> Nil, blake3 |-> Nil,
             rowID |-> 0]

\* Bug: a paused print is not recorded.
Bug_PausedIsIdle(state) == state = "printing"

IsActive(state) == state \in {"printing", "paused"}

\* An empty buffer and NewPacketizer: everything has its zero value.
PacketizerInit ==
    /\ BufferInit
    /\ printState = "" /\ session = NewSession(0)
    /\ immediateQuote = FALSE /\ pkt = NoPacket
    /\ tpm \in TPMOpens
    /\ pc = "select"
    /\ tickC = 0 /\ now = 0 /\ started = 0 /\ crashes = 0 /\ lastDelta = 0

-----------------------------------------------------------------------------
\* Time passes.  The ticker drops a tick when the one before it still waits.
\* The clock stops at MaxTime but the ticker goes on, so that a bound on the
\* time does not look like a printer that stops.
TickerFires ==
    /\ (pc # "down" /\ "slow" \notin MayFail) => (pc = "select" /\ tickC = 0)
    /\ now' = IF now < MaxTime THEN now + 1 ELSE now
    /\ tickC' = IF pc = "down" \/ tickC # 0 THEN tickC ELSE now'
    /\ UNCHANGED <<bufferVars, loopVars, started, crashes, lastDelta>>

\* detectLifecycleEdge
StartsSession(prev, next) ==
    prev # next /\ next = "printing" /\ prev # "paused"

SchedulesQuote(prev, next) == prev # next /\ QuoteOnLifecycle /\ tpm

\* A delta from Moonraker; state is the cached print state when the delta does
\* not carry print_stats, or carries the same state again.
ApplyDelta(state) ==
    /\ pc = "select"
    /\ state = printState \/ <<printState, state>> \in PrinterEdges
    /\ IF StartsSession(printState, state)
       THEN /\ started < MaxSessions
            /\ started' = started + 1
            /\ session' = startNewSession
       ELSE /\ session' = [session EXCEPT !.silentTicks = 0]
            /\ UNCHANGED started
    /\ immediateQuote' = (immediateQuote \/ SchedulesQuote(printState, state))
    /\ printState' = state
    /\ lastDelta' = now
    /\ UNCHANGED <<bufferVars, tpm, pc, pkt, tickC, now, crashes>>

-----------------------------------------------------------------------------
\* onTick

TickIdle ==
    /\ pc = "select" /\ tickC # 0
    /\ ~IsActive(printState)
    /\ tickC' = 0
    /\ UNCHANGED <<bufferVars, loopVars, now, started, crashes, lastDelta>>

\* The session this tick belongs to: a print that was already running when the
\* daemon first heard of it gets one here.
TickSession == IF session.id = 0 THEN startNewSession ELSE session

\* Bug: the counter is compared before it is incremented.
Bug_SilentLate(s) == s.silentTicks > MaxSilentTicks

Silent(s) == s.silentTicks + 1 > MaxSilentTicks

\* The fault threshold and the packet: up to json.Marshal and the SHA-256.
BeginTick ==
    /\ pc = "select" /\ tickC # 0 /\ tickC < MaxTime
    /\ IsActive(printState)
    /\ IF session.id = 0 THEN started < MaxSessions /\ started' = started + 1
                         ELSE UNCHANGED started
    /\ \/ ~Silent(TickSession) /\ UNCHANGED faults
       \/ Silent(TickSession) /\ RecordProvenanceFault(TickSession.id, TickSession.seq)
       \/ Silent(TickSession) /\ "fault" \in MayFail /\ UNCHANGED faults
    /\ session' = [TickSession EXCEPT
                     !.silentTicks = IF Silent(TickSession) THEN 0 ELSE @ + 1]
    /\ pkt' = [NoPacket EXCEPT !.tick = tickC,
                               !.canonical = Canonical(TickSession, tickC)]
    /\ tickC' = 0
    /\ pc' = "quote"
    /\ UNCHANGED <<packets, quotes, segments, printState, immediateQuote, tpm,
                   now, crashes, lastDelta>>

\* Bug: the interval is counted from the start of the session only.
Bug_QuoteOncePerSession == immediateQuote \/ session.lastQuoteAt = 0

shouldQuote ==
    \/ immediateQuote
    \/ session.lastQuoteAt = 0
    \/ now - session.lastQuoteAt >= QuoteInterval

SkipQuote ==
    /\ pc = "quote"
    /\ ~(tpm /\ shouldQuote)
    /\ pc' = "write"
    /\ UNCHANGED <<bufferVars, printState, session, immediateQuote, tpm, pkt, envVars>>

TakeQuote ==
    /\ pc = "quote"
    /\ tpm /\ shouldQuote
    /\ WriteQuote(session.id, session.seq,
                  DeriveQuoteNonce(session.id, Sha256(pkt.canonical),
                                   session.prevBlake3, session.seq))
    /\ session' = [session EXCEPT !.lastQuoteID = Len(quotes) + 1,
                                  !.lastQuoteAt = pkt.tick]
    /\ immediateQuote' = FALSE
    /\ pc' = "write"
    /\ UNCHANGED <<packets, segments, faults, printState, tpm, pkt, envVars>>

\* The TPM or WriteQuote fails: the tick goes on with the quote it had.
QuoteFails ==
    /\ pc = "quote"
    /\ tpm /\ shouldQuote /\ "quote" \in MayFail
    /\ pc' = "write"
    /\ UNCHANGED <<bufferVars, printState, session, immediateQuote, tpm, pkt, envVars>>

\* What p.tpm.SignPacket(canonical) leaves in tpmSig.
Signatures ==
    IF ~tpm THEN {Nil}
    ELSE {SignPacket(pkt.canonical)} \cup (IF "sign" \in MayFail THEN {Nil} ELSE {})

\* Bug: the sequence number is not advanced.
Bug_AdvanceHashOnly(b3) == [session EXCEPT !.prevBlake3 = b3]

\* Bug: the chain hash is not advanced.
Bug_AdvanceSeqOnly(b3) == [session EXCEPT !.seq = @ + 1]

\* The chain state after a packet with hash b3.
Advance(b3) == [session EXCEPT !.prevBlake3 = b3, !.seq = @ + 1]

\* WritePacket succeeds.  Without a signature there is nothing to backfill.
StorePacket(sig) ==
    LET b3 == computePacketBLAKE3(session.seq, session.id, pkt.canonical, sig,
                                  session.prevBlake3)
    IN  /\ pc = "write"
        /\ sig \in Signatures
        /\ WritePacket(session.id, session.seq, pkt.tick, pkt.canonical,
                       session.prevBlake3, Sha256(pkt.canonical), b3)
        /\ IF sig = Nil
           THEN /\ session' = Advance(b3)
                /\ pkt' = NoPacket
                /\ pc' = "select"
           ELSE /\ pkt' = [pkt EXCEPT !.sig = sig, !.blake3 = b3,
                                      !.rowID = Len(packets) + 1]
                /\ pc' = "setsig"
                /\ UNCHANGED session
        /\ UNCHANGED <<quotes, segments, faults, printState, immediateQuote, tpm, envVars>>

\* WritePacket fails, and onTick returns without advancing the chain state.
StoreFails ==
    /\ pc = "write"
    /\ "write" \in MayFail \/ Duplicate(session.id, session.seq)
    /\ pkt' = NoPacket
    /\ pc' = "select"
    /\ UNCHANGED <<bufferVars, printState, session, immediateQuote, tpm, envVars>>

BackfillSig ==
    /\ pc = "setsig"
    /\ SetTPMSig(pkt.rowID, pkt.sig, session.lastQuoteID)
    /\ session' = Advance(pkt.blake3)
    /\ pkt' = NoPacket
    /\ pc' = "select"
    /\ UNCHANGED <<quotes, segments, faults, printState, immediateQuote, tpm, envVars>>

\* SetTPMSig fails: the failure is logged and the chain state advances.
BackfillFails ==
    /\ pc = "setsig"
    /\ "setsig" \in MayFail \/ ~QuoteExists(session.lastQuoteID)
    /\ session' = Advance(pkt.blake3)
    /\ pkt' = NoPacket
    /\ pc' = "select"
    /\ UNCHANGED <<bufferVars, printState, immediateQuote, tpm, envVars>>

-----------------------------------------------------------------------------
\* The process is gone, with everything but the tables.
Dies ==
    /\ pc' = "down" /\ tickC' = 0
    /\ crashes' = crashes + 1
    /\ printState' = "" /\ session' = NewSession(0)
    /\ immediateQuote' = FALSE /\ pkt' = NoPacket
    /\ UNCHANGED <<tpm, now, started, lastDelta>>

\* The daemon dies, or its context is cancelled, at any point.  A context that
\* is cancelled inside onTick makes the calls that follow fail, which changes
\* nothing that outlives the process.
Crash ==
    /\ pc # "down" /\ crashes < MaxCrashes
    /\ Dies
    /\ UNCHANGED bufferVars

\* A new process opens the same buffer, and the TPM if it can.
Restart ==
    /\ pc = "down"
    /\ pc' = "select"
    /\ tpm' \in TPMOpens
    /\ UNCHANGED <<bufferVars, printState, session, immediateQuote, pkt, envVars>>

onTick ==
    \/ TickIdle
    \/ BeginTick
    \/ SkipQuote
    \/ TakeQuote
    \/ QuoteFails
    \/ \E sig \in Signatures : StorePacket(sig)
    \/ StoreFails
    \/ BackfillSig
    \/ BackfillFails

PacketizerNext ==
    \/ TickerFires
    \/ \E state \in PrintStates : ApplyDelta(state)
    \/ onTick
    \/ Crash
    \/ Restart

PacketizerSpec == PacketizerInit /\ [][PacketizerNext]_packetizerVars

\* The ticker keeps firing, and select chooses at random among the channels
\* that are ready, so a waiting tick is not put off for ever by deltas.
PacketizerFairSpec ==
    /\ PacketizerSpec
    /\ WF_packetizerVars(TickerFires)
    /\ WF_packetizerVars(onTick)
-----------------------------------------------------------------------------
\* Properties.

\* Every table holds rows of its schema and every field of the packetizer a
\* value of its Go type.
TypeOK ==
    /\ BufferTypeOK
    /\ printState \in PrintStates
    /\ session \in Sessions
    /\ immediateQuote \in BOOLEAN /\ tpm \in BOOLEAN
    /\ pc \in {"select", "quote", "write", "setsig", "down"}
    /\ pkt \in Packets
    /\ tickC \in Nat /\ now \in Nat /\ started \in Nat /\ crashes \in Nat
    /\ lastDelta \in Nat

\* j is the row of the packet that precedes the one of row i in its session.
Precedes(j, i) == /\ packets[j].session_id = packets[i].session_id
                  /\ packets[i].seq = packets[j].seq + 1

\* The row is complete: it is not the one SetTPMSig is still to update.
Settled(i) == ~(pc = "setsig" /\ pkt.rowID = i)

\* Whatever fails and whenever the daemon dies, each session in the buffer is
\* one gap-free chain: every packet but the first has its predecessor stored,
\* at an earlier row, and names that row's packet_blake3 (onTick advances seq
\* and prevBlake3 together, and only once the packet is stored).
ChainLinked ==
    \A i \in DOMAIN packets :
        IF packets[i].seq = 0
        THEN packets[i].prev_packet_blake3 = Nil
        ELSE \E j \in DOMAIN packets :
                /\ j < i
                /\ Precedes(j, i)
                /\ packets[i].prev_packet_blake3 = packets[j].packet_blake3

\* The packetizer is never stuck on UNIQUE (session_id, seq): the row it is
\* about to insert is not there yet, so after any failure, crash or resumed
\* print the next tick can be recorded.
NeverWedged == pc = "write" => ~Duplicate(session.id, session.seq)

\* A signature that is in the buffer is the one the chain hash was computed
\* over: SetTPMSig, a separate statement after the insert, reached the right
\* row with the right bytes.
StoredSigVerifies ==
    \A i \in DOMAIN packets :
        LET row == packets[i] IN
        row.tpm_sig # Nil =>
            /\ row.tpm_sig = SignPacket(row.telemetry_json)
            /\ row.packet_blake3 =
                 computePacketBLAKE3(row.seq, row.session_id, row.telemetry_json,
                                     row.tpm_sig, row.prev_packet_blake3)

\* A packet refers to a quote of its own session that was taken for it or for
\* an earlier packet: lastQuoteID never leaks from one session into the next.
QuoteOfOwnSession ==
    \A i \in DOMAIN packets :
        LET row == packets[i] IN
        row.quote_ref # 0 =>
            /\ row.quote_ref \in DOMAIN quotes
            /\ quotes[row.quote_ref].session_id = row.session_id
            /\ quotes[row.quote_ref].seq <= row.seq

\* What the packetizer remembers of the chain agrees with the buffer at every
\* step: prevBlake3 is the hash of the stored packet at seq - 1 and nothing of
\* the session is stored at seq or beyond, except, until SetTPMSig returns, the
\* packet just inserted.  Sessions in the buffer were all started, so that a
\* new one finds it empty.
ChainMemory ==
    /\ session.id \in 0 .. started
    /\ pc \in {"quote", "write", "setsig"} => session.id # 0
    /\ \A i \in DOMAIN packets :
          /\ packets[i].session_id \in 1 .. started
          /\ packets[i].session_id = session.id =>
                packets[i].seq < session.seq \/ ~Settled(i)
    /\ IF session.seq = 0
       THEN session.prevBlake3 = Nil
       ELSE \E i \in DOMAIN packets : /\ packets[i].session_id = session.id
                                      /\ packets[i].seq = session.seq - 1
                                      /\ packets[i].packet_blake3 = session.prevBlake3
    /\ pc = "setsig" =>
          /\ pkt.rowID \in DOMAIN packets
          /\ packets[pkt.rowID].session_id = session.id
          /\ packets[pkt.rowID].seq = session.seq
          /\ packets[pkt.rowID].packet_blake3 = pkt.blake3
          /\ packets[pkt.rowID].tpm_sig = Nil

OnlySignature(i) ==
    /\ packets[i].tpm_sig = Nil
    /\ packets'[i] = [packets[i] EXCEPT !.tpm_sig = packets'[i].tpm_sig,
                                        !.quote_ref = packets'[i].quote_ref]

KeepsPackets ==
    /\ Len(packets) <= Len(packets')
    /\ \A i \in DOMAIN packets : packets'[i] = packets[i] \/ OnlySignature(i)

\* No stored packet is ever removed or rewritten: the only thing a later step of
\* the custody loop may do to a row is to set its unset signature and quote_ref.
AppendOnly == [][KeepsPackets]_packetizerVars

\* The links that the rows of the packets table stand for.
Links == {[session |-> packets[i].session_id, seq |-> packets[i].seq,
           prev |-> packets[i].prev_packet_blake3,
           hash |-> packets[i].packet_blake3] : i \in DOMAIN packets}

HC == INSTANCE HashChain WITH chain <- Links

\* The custody loop implements the abstract chain: each of its steps, in any
\* interleaving with failures and crashes, extends one session by its next link
\* or changes no link at all.
ImplementsHashChain == HC!ChainSpec

\* When the power fails too, a session may lose packets, but only from its end,
\* and never gets one back under the same number but as the next link of what
\* is left (SQLite's recovery keeps a prefix of the commits).
ImplementsLossyChain == HC!LossyChainSpec

-----------------------------------------------------------------------------
\* Properties that need the calls they depend on to succeed.

\* The chain can be recomputed from what is stored (docs/STREAM_FORMAT.md,
\* "Chain recomputation"): packet_blake3 covers the stored signature, or no
\* signature exactly when none is stored.
ChainRecomputable ==
    \A i \in DOMAIN packets :
        LET row == packets[i] IN
        Settled(i) =>
            row.packet_blake3 =
              computePacketBLAKE3(row.seq, row.session_id, row.telemetry_json,
                                  row.tpm_sig, row.prev_packet_blake3)

Faulted(sid, seq) ==
    \E f \in DOMAIN faults : faults[f].session_id = sid /\ faults[f].seq = seq

\* Consecutive packets of a session are one period apart, or the place is
\* marked by a provenance fault: no tick of an active print is lost silently.
TicksAccountedFor ==
    \A i, j \in DOMAIN packets :
        Precedes(j, i) => \/ packets[i].tick_utc = packets[j].tick_utc + 1
                          \/ Faulted(packets[i].session_id, packets[i].seq)

\* The packets of the current session recorded since the last delta.
QuietRows == {i \in DOMAIN packets : /\ packets[i].session_id = session.id
                                     /\ packets[i].tick_utc > lastDelta}

\* A printer that stays silent is marked again and again: of the packets
\* recorded since the last delta at least every (MaxSilentTicks + 1)st carries
\* a provenance fault.
SilenceFaulted ==
    Cardinality({i \in QuietRows : Faulted(session.id, packets[i].seq)})
        >= Cardinality(QuietRows) \div (MaxSilentTicks + 1)

\* A quote's nonce binds it to the packet stored at its session and position
\* (DeriveQuoteNonce's comment): recomputing the nonce from that row gives it.
QuoteBindsPacket ==
    \A q \in DOMAIN quotes, i \in DOMAIN packets :
        LET row == packets[i] IN
        (row.session_id = quotes[q].session_id /\ row.seq = quotes[q].seq) =>
            quotes[q].nonce = DeriveQuoteNonce(row.session_id, row.packet_sha256,
                                               row.prev_packet_blake3, row.seq)

\* A signed packet rests on a fresh quote: less than QuoteInterval before its
\* tick the packet its quote_ref was taken for was recorded.
SignedUnderFreshQuote ==
    \A i \in DOMAIN packets :
        LET row == packets[i] IN
        row.tpm_sig # Nil =>
            \E j \in DOMAIN packets :
                /\ packets[j].session_id = row.session_id
                /\ packets[j].seq = quotes[row.quote_ref].seq
                /\ \/ j = i
                   \/ row.tick_utc - packets[j].tick_utc < QuoteInterval

\* A tick of an active print becomes a packet, unless the print ends before it
\* is handled.
EveryTickRecorded ==
    \A t \in 1 .. MaxTime - 1 :
        (tickC = t /\ IsActive(printState)) ~>
            (\/ \E i \in DOMAIN packets : packets[i].tick_utc = t
             \/ ~IsActive(printState))

\* The quote asked for at the end of a print is taken (README.md: quotes are
\* taken "at session start, lifecycle edges, and on a configurable interval").
EndOfPrintQuoted ==
    (immediateQuote /\ printState = "complete") ~> ~immediateQuote
=============================================================================
