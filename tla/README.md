# A verification of axm-sfn in TLA+

axm-sfn records what a 3D printer does during a print as a chain of signed
packets. The edge daemon `axm-edge` (Go) listens to the printer through
Moonraker, writes one packet per second into a local SQLite "trust buffer",
signs it with a TPM, and reports finished segments upstream; a Python spoke
later compiles a session from the buffer into a sealed shard. The value of the
whole rests on a few promises about that buffer: that a session is one gap-free
hash chain, that what is signed is what is stored, that silence and loss leave a
trace. These modules state those promises, model the code that has to keep them,
check them with TLC and prove every safety property that holds with TLAPS.

## 1. The system

| Component | State it keeps | Operations | Talks to |
|---|---|---|---|
| Moonraker client, `internal/moonraker` | connection, request ids, `pending` calls, `Updates` channel (64) | dial, identify, waitReady, subscribe, readLoop, reconnect | Moonraker over a websocket; packetizer through `Updates` |
| Custody packetizer, `internal/custody` | cached printer state; session id, `seq`, `prevBlake3`, `lastQuoteID`, `lastQuoteAt`, `silentTicks`, `immediateQuote` | applyDelta, detectLifecycleEdge, startNewSession, onTick | policy engine, TPM worker (calls), trust buffer (SQL) |
| Policy engine, `internal/policy` | profile, `consecutive` and `total` violation counts | LoadProfile, ClearProfile, Evaluate | called by onTick |
| TPM worker, `internal/tpm` | the device, the public areas found at its handles | Open, KeyEvidence, SignPacket, Quote; ProvisionKeys as a command of its own | called by runDaemon and onTick |
| Trust buffer, `internal/hotbuffer` | tables packets, quotes, segments, provenance_faults, attestation_keys | WritePacket, SetTPMSig, RecordProvenanceFault, WriteQuote, WriteAttestationKey, PendingRange, PacketHashes, WriteSegment | shared by packetizer, uploader and the Python spoke |
| Uploader, `internal/uploader` | none between flushes | flush: pending range, hashes, segment root, WriteSegment, ship | trust buffer, HTTP endpoint |
| Edge daemon, `cmd/axm-edge` | the process and its configuration | run: open the buffer and the TPM, store the key evidence, start the goroutines, exit; provision | starts the goroutines above |
| Configuration, `internal/config` | none | Load, DefaultConfig | read once by either command |
| Python spoke, `python/src` | none between compilations | load_session, stream and attestation builders, compile_session | reads the buffer beside the daemon, calls the external kernel |

What is hard here is not any single function but what lies between two of them.
`onTick` takes up to five separate calls to the TPM and the database, each of
which can fail and is only logged; the daemon can die between any two; ticks are
dropped by a one-place channel while a call is slow; the uploader reads and
updates the same table in several statements while the packetizer inserts; the
session state lives only in memory and is rebuilt from nothing after a restart;
the buffer's commits are not synced, so a power failure takes the last ones with
it, also those somebody acted upon; the spoke reads four tables in four
statements while all this goes on.
`PROJECT.json` lists these hazards at the line where each bites.

What makes each part correct:

* buffer and packetizer: every session is one append-only chain; memory and
  buffer agree; a stored signature verifies; a quote reference stays within its
  session; a complete record when nothing fails; silence and lost ticks marked;
* uploader: segments tile a session, name exactly the packets they cover, carry
  the right root, are shipped once, and in the end every packet of the session
  that the uploader serves is uploaded;
* policy: the verdict follows from the history of readings;
* start: what is signed can be verified, because the key is stored first; a start
  settles, with a TPM or without;
* spoke: a shard is a prefix of its session, complete for the packets it has, and
  passes the archival rules of `docs/STREAM_FORMAT.md` on its own, as far as the
  code keeps them;
* client: it gets to pump.

## 2. The modules

| Module | Models | Built on |
|---|---|---|
| `HashChain` | abstract: a set of links that only grows by a session's next link; and the weaker promise that sessions may lose links from their end | |
| `HotBuffer` | the tables and the methods of `Buffer` as actions on them | |
| `Packetizer` | the custody loop | `HotBuffer`, `HashChain` (refinement) |
| `PacketizerProofs` | the proofs about it | `Packetizer`, TLAPS |
| `Merkle` | `localSegmentRoot`, `merkleReduce`, and the tree hash of RFC 6962 as the reference | |
| `Uploader` | `flush`, step by step | `HotBuffer`, `Merkle` |
| `EdgeDaemon` | packetizer and uploader in one process over one buffer, crashes, power failures | both |
| `Startup` | the commands `provision` and `run` up to the start of the goroutines; configuration, TPM handles, key evidence | |
| `Spoke` | `compile_session` beside the packetizer | `Packetizer` |
| `Policy` | the evaluator | |
| `Moonraker` | handshake, reader and reconnection | |
| `MC*` | the constants of the small instances | |
| `DataLemmas` | lemmas: two forms of induction, and the rounds of `merkleReduce` | `Merkle`, TLAPS |
| `MerkleProofs` | the proofs about the root: it is the reference's, and identifies its segment | `DataLemmas` |
| `DaemonProofs` | what `flush` does to any pair of tables; the proofs about the daemon: chain, segments, shipments, refinement | `EdgeDaemon`, `PacketizerProofs`, `MerkleProofs` |
| `EvidenceProofs` | the proofs about the daemon's evidence: signatures, quotes, ticks, silence | `DaemonProofs` |
| `StartupProofs` | the proofs about provisioning and the start | `Startup`, TLAPS |
| `SpokeProofs` | the proofs about shards | `Spoke`, `PacketizerProofs`, `DataLemmas` |
| `PolicyProofs` | the proof about verdicts | `Policy`, `DataLemmas` |

**HotBuffer.** A table is the sequence of its rows and a row's AUTOINCREMENT id
its index; the code never deletes a row. A method is the action of its success;
a caller says what happens when it fails. Two constraints of the schema are
guards because the code runs into them: `UNIQUE (session_id, seq)` and the
foreign key from `quote_ref` to `quotes` (`foreign_keys` is ON, and 0, unlike
NULL, is checked). NULL and Go's `nil` slice are the empty byte string.

**Packetizer.** One `select` loop, with `pc` for its place in `onTick`:
`select → quote → write → setsig → select`. `BeginTick` covers the code from the
start of `onTick` to the SHA-256 of the marshalled packet, `TakeQuote` /
`SkipQuote` / `QuoteFails` the quote, `StorePacket` / `StoreFails` the TPM
signature, the chain hash and the insert, `BackfillSig` / `BackfillFails` the
update and the advance of the chain. Failures of the three database writes and
the two TPM calls are separate switches (`MayFail`), as is `"slow"`: a tick that
takes longer than a period, so that the ticker drops ticks. Deltas are
`ApplyDelta(state)` with the print state they lead to; which changes are possible
is the constant `PrinterEdges`. `Crash` loses everything but the tables, at any
point; `Restart` opens the buffer again, and the TPM or not (`TPMOpens`).

Hashes are symbolic: a tag and the concatenation of what the code hashes, in the
code's order. The marshalled packet is reduced to what tells packets apart
(session, seq, tick, quote reference, previous hash). A comment in
`telemetry/packet.go` (62-64) says the chain fields are not part of the
serialization that is signed; the code sets `PrevPacketBLAKE3` and `QuoteRef`
before marshalling, and the model follows the code.

**Uploader, EdgeDaemon.** `flush` is four steps, `poll → hash → record → ship`, with
packetizer steps between any two. `PendingRange` ignores `rows.Err()`, so a
failing read may return a shorter range. A failed POST may have arrived.
Both goroutines stop together: `runDaemon` returns at the signal and waits for
nobody. The session that `Run` is called with is the constant `UploadSession`:
session 1 of the packetizer where the question is whether the uploader does its
work, and 0, an id no session has, where it is whether the daemon as it is
started uploads anything (`cmd/axm-edge/main.go:169` passes a fixed label). The
batch size is any natural number; 0, which a configuration file that leaves it
out gives, is SQLite's `LIMIT 0` and uploads nothing. A negative one, which
SQLite takes for no limit, is left out.
`upstream` is what the endpoint received. A power failure (`PowerFails`) is a
crash that also brings back the tables as they were before one of the last
`MaxUnsynced` commits: every statement of the code is a commit, and with WAL and
`synchronous=NORMAL` none is synced when it returns.

**Startup.** Two processes, `provision` and `run`, and an operator who removes keys
with the TPM's tools, also while a provisioning is between its two keys: it then
goes on and reports success, and the history variable `emptied` remembers which
handle it is whose key was taken away. `Exec` takes the configuration, which is the file's, with
zeros for what it leaves out, or the defaults when there is no readable file.
`checkHandles` is two steps, each `WriteAttestationKey` one, so the process can
die, and the other process act, between any two. Of the buffer the module keeps
the log of the commits that matter to a verifier: keys, signatures and quotes,
with the key stored or used. A signature names the handle, not the key `Open`
read there. `time.NewTicker` panics on a zero interval. Handle numbers, keys and
intervals are small numbers; TPM structures are left out. `EvictControl` refuses
a handle that is taken, so `ProvisionKeys` on a TPM that has the first key
fails, although its comment says it creates the keys "if they do not already
exist" (`attestation.go:237`); the model follows the code.

**Spoke.** One step per SELECT of `load_session`, then one for what works on the
loaded data only. `_load_quotes` and `_load_attestation_keys` catch
`sqlite3.OperationalError` and return no rows; the code means a buffer older than
the table, but a lock or an I/O error raises the same. With `LoadMayFail` either
SELECT may end like that. An error of the other two ends the compilation.
`_hex_to_bytes` raises on a signature, because `SetTPMSig` stores bytes and not
hexadecimal text. The shard is a record with the stream, the
locators, the faults, and the tables `packets@1` and `tpm-attestation@1` with the
concatenated files they index; the archival rules are stated on these alone. The
key rows stand for the last key of each role. The session nonce is represented
by the session id; in the code it is in no table and no shard, so that rule 4 can
be stated here but not be applied by a verifier.

**Policy.** Readings are integers, a missing sensor a field outside the snapshot's
domain. The rules of a profile are folded in order over the counters, which are
keyed by field as in the code. In the daemon no profile is ever loaded
(`LoadProfile` has no caller outside the tests), so every decision it records is
the null decision; the module is about the engine on its own.

**Moonraker.** One goroutine runs the handshake and then the reader. `call` is two
steps, sending and registering. The server is external and at its best: it
answers everything, and a call times out only when nothing that can move could
still bring its answer.

## 3. The runs

Passing:

| Run | Shows | Bounds |
|---|---|---|
| `packetizer_faults` | types, chain, memory, signatures, quote references, append-only, refinement of `HashChain`, under every failure, dropped ticks, any jump of the print state and a crash | 4 periods, 2 sessions, 1 crash; silence after 1 tick, quotes every 2 |
| `daemon_healthy` | with nothing failing the record is complete (recomputable, no lost tick, silence marked, quotes bound and fresh, every tick becomes a packet), nothing is marked that is not shipped, and the session the uploader is given is uploaded in the end, its last and incomplete batch included | 5 periods, 2 sessions, pauses, batches of 2 |
| `daemon_faults` | segments tile, cover, carry the root of the packets they cover, which is the RFC 6962 tree hash, are shipped at most once unless the power fails, and what was shipped is never contradicted by the buffer; refinement of the lossy chain; with failing inserts, reads, transactions and POSTs and a crash or power failure | 4 periods, 2 sessions, 1 crash or power failure that loses up to 2 commits, batches of 3 |
| `startup` | a signature's key is on record before it; after a provisioning that succeeds a handle lacks its key only if an operator removed it; a start comes up or ends | 3 configurations, 2 handles, 2 signing keys and 1 AK, 5 commits, of which up to 2 are lost at a time |
| `spoke` | a shard is a gap-free prefix of its session for ever, has all faults of its packets, and all quotes or, when their SELECT failed, none; it passes rules 1 and 4, and rule 3 when the node never opened a TPM | 4 periods, 2 sessions, 1 crash, 1 shard; failing signatures and faults, failing SELECTs of quotes and keys |
| `policy` | verdict = function of the history, profiles with at most one rule per field | 5 evaluations, 6 snapshots, 2 profiles |

Bounds are guards on `MaxTime`, `MaxSessions`, `MaxCrashes`, `MaxUnsynced`,
`MaxEvidence`, `MaxShards` and `MaxEpochs`. They are enough for the cases that
matter: a session with a stored predecessor, a second session after it, a crash
in every step of either, two quote intervals, a full and a partial batch, a
power failure that takes a shipped packet and one that takes a segment with the
packet before it, both keys lost and stored again, a session read before, in the
middle of and after each statement of a tick, and a tree of three leaves, whose
last hash is promoted. The clock stops at `MaxTime` while the
ticker goes on, so the bound neither deadlocks the model nor looks like a printer
that stops. Policy evaluation is bounded but profiles can always be loaded
again.

Each of these runs found a place where a document, comment or test says more than
the code does:

| Run | What the code does |
|---|---|
| `signature_lost` | If the session's first quote fails, `SetTPMSig` names quote 0, the foreign key refuses it, and the signature the hash was computed over is lost |
| `end_quote_missed` | The quote scheduled at the end of a print is never taken |
| `shipment_lost` | Packets are marked as uploaded before the POST, which is never repeated |
| `moonraker_handshake` | The handshake waits for answers only `readLoop` would read, and `readLoop` starts after it |
| `uploader_label` | The uploader is given a label that is no session's id, finds nothing pending under it, and uploads nothing, ever, although nothing fails |
| `spoke_signed_session` | No session with a signed packet can be loaded: the signature is stored as bytes and decoded as hexadecimal |

`signature_lost` and `shipment_lost` need one failing call; in the healthy run the
same properties hold. `moonraker_handshake` means that the daemon as written never
receives a delta; the packetizer is therefore checked against deltas as the
client is meant to deliver them. In the same way `uploader_label` means that the
other daemon runs, and `shipment_lost`, are about the uploader once it is given a
session; even then it serves that one only, and the sessions after it stay
pending, since every print and every restart makes a new id. `spoke_signed_session` means that the shards of
the `spoke` run hold no signature; its properties hold as well when
`_hex_to_bytesRaises` is FALSE, which is what a reader that takes the bytes as
they are would do.

More follows from the same models with one constant or one conjunct changed, and
has no run of its own:

* `DaemonHealthy.cfg` with `MayFail = {"write"}`: `TicksAccountedFor` fails, since a
  packet that cannot be written leaves a hole in time that no fault marks and the
  sequence numbers hide ("every tick is a packet", `README.md:30`), and so does
  `QuoteBindsPacket`: the quote of that packet points at the next tick's.
* With `MayFail = {"fault"}` `SilenceFaulted` fails: the counter is reset although
  the fault was not recorded.
* `Policy.cfg` with `Profiles <- MinAndMax`: `VerdictFollowsHistory` fails. Two rules
  on one field share its counters (`engine.go:161`), so the one that passes resets
  the run of the one that is broken.
* `Startup.cfg` with `LiveEviction = TRUE`: `SignatureKeyOnRecord` fails. A key that
  is replaced at its handle while the daemon runs signs from then on, and only
  the next start would record it.
* Rule 3 fails for a node with a TPM, with nothing failing: a session that is
  compiled while a packet waits for its `SetTPMSig` is sealed with that packet as
  unsigned, although its hash covers the signature, and "the full BLAKE3 chain is
  recomputable from the shard alone" (`STREAM_FORMAT.md:134`) is not true of it.
  `SoftwareChainFromShard` without its hypothesis shows this in `Spoke.cfg`. Since a
  shard with a signature does not exist (`spoke_signed_session`), what rule 3 says of
  signed packets, and rule 2, cannot be checked of any shard this code makes.
* With `LoadMayFail = {"quotes"}` or `{"keys"}` a shard may lack the quotes or keys
  that the buffer has, and nothing tells it from one that never had any:
  `db.py:182-183` and `212-213` take a locked or unreadable database for an old one,
  while `STREAM_FORMAT.md:142-145` reads the absence of the extension as "the explicit
  statement that no hardware evidence exists". `ShardComplete` states what is left:
  all of the quotes or none of them, and always the faults.
* A shard of a session recorded without a TPM does have a `tpm-attestation@1` table
  when an earlier run of the daemon had one, because key rows are the node's and
  not the session's; `STREAM_FORMAT.md:144` takes the absence of the table for the
  statement that there is no hardware evidence. After a change of keys,
  `sign_key_fingerprint` takes the first `sign_pub` row and
  `build_tpm_attestation` the last of each role, whichever key signed.

## 4. Fairness

`PacketizerFairSpec`: the ticker keeps firing, and a tick that waits, or an
`onTick` under way, goes on. Go's `select` picks at random among ready channels,
so a stream of deltas cannot put a tick off for ever, and `onTick` is
straight-line code whose calls return. `DaemonFairSpec` adds the uploader's loop,
on a ticker of its own; `PendingUploaded` therefore speaks of a daemon that stays
up. `StartupFairSpec`: `runDaemon` goes on to the start of its goroutines, each of
which makes its ticker first. Nothing is assumed about deltas, crashes, restarts,
failures, provisioning or the operator. `MoonrakerSpec`: the client's goroutine runs, the server answers, Klippy
becomes ready and the packetizer consumes; a disconnection is never forced.

## 5. The proofs

The theorems hold for every value of the constants (any configuration, any set of
failing calls, any edges and batch size, 0 included, any number of ticks, sessions, crashes
and lost commits), from the assumptions named in the modules, which say no more
than the types of the constants. Where a theorem needs more, its hypothesis is
listed with it.

| Theorem | Property | Hypothesis |
|---|---|---|
| about `PacketizerSpec`: | | |
| `TypeCorrect` | `TypeOK` | |
| `ChainCorrect`, `MemoryCorrect` | `ChainLinked`, `ChainMemory` | |
| `NeverWedgedCorrect` | `NeverWedged` | |
| `SignaturesCorrect` | `StoredSigVerifies` | |
| `QuotesCorrect` | `QuoteOfOwnSession` | |
| `AppendOnlyCorrect` | `AppendOnly` | |
| `RefinesHashChain` | `ImplementsHashChain` | |
| about `DaemonSpec`, power failures included: | | |
| `UploaderTypeCorrect` | `UploaderTypeOK` | |
| `DaemonChainCorrect`, `DaemonMemoryCorrect` | `ChainLinked`, `ChainMemory` | |
| `SegmentsTileCorrect` | `SegmentsTile` | |
| `UploadedCorrect` | `UploadedIffCovered` | |
| `RootsCorrect` | `RootCoversPackets` | |
| `RootIsTheTreeHash` | `RootIsRFC6962` | |
| `UpstreamCorrect` | `UpstreamAgrees` | |
| `ShippedOnceCorrect` | `ShippedOncePowered` | |
| `UploadedShipped` | `UploadedMeansShipped` | no POST fails, the daemon is not stopped |
| `RefinesLossyChain` | `ImplementsLossyChain` | |
| `DaemonSignaturesCorrect` | `StoredSigVerifies` | |
| `DaemonQuotesCorrect` | `QuoteOfOwnSession` | |
| `QuotesBindCorrect` | `QuoteBindsPacket` | no `WritePacket` fails |
| `RecomputableCorrect` | `ChainRecomputable` | no quote and no `SetTPMSig` fails, the daemon is not stopped |
| `FreshQuotesCorrect` | `SignedUnderFreshQuote` | no quote fails |
| `TicksCorrect` | `TicksAccountedFor` | no `WritePacket` fails, no tick is slow, no pause follows an idle state |
| `SilenceCorrect` | `SilenceFaulted` | no `RecordProvenanceFault` fails |
| about `StartupSpec`: | | |
| `StartupTypeCorrect` | `StartupTypeOK` | |
| `ProvisioningCorrect` | `ProvisionedBoth` | |
| `KeyOnRecordCorrect` | `SignatureKeyOnRecord` | no key is removed under a running daemon |
| about `SpokeSpec`, the packetizer's failures and crashes included: | | |
| `ShardsArePrefixes` | `ShardIsPrefix` | |
| `ShardsAreComplete` | `ShardComplete` | |
| `SlicesAreRight` | `SlicesHash` | |
| `SoftwareChainsRecomputable` | `SoftwareChainFromShard` | |
| `SealedQuotesAreBound` | `SealedQuotesBind` | no `WritePacket` fails |
| about `PolicySpec`: | | |
| `VerdictsFollowHistory` | `VerdictFollowsHistory` | a profile judges each field by one rule |
| about `localSegmentRoot`: | | |
| `RootsIdentifySegments` | no two lists of hashes have the same root | |

Each hypothesis excludes what breaks the property, as the refuting runs and the
variations of section 3 show, and the passing run of the property satisfies all
of them. They say exactly on which calls a guarantee rests. Freshness, for
example, needs the quotes only: failed inserts, slow ticks, crashes and power
failures do not touch it. A failed insert leaves silence marked too, although the
packet that carried the fault may be missing. The pause in `TicksCorrect` is the
code's: `detectLifecycleEdge` keeps the session on `paused → printing` whatever
came before the pause, so with a dropped delta a session may outlive an idle time.

**The custody loop.** The inductive invariant is
`ChainInv == TypeOK /\ ChainMemory /\ ChainLinked`.
`ChainLinked` alone is not inductive: that the next packet finds its predecessor
depends on `prevBlake3` and `seq` in memory. `ChainMemory` says that they describe
the last stored packet, and what is different between `WritePacket` and
`SetTPMSig`, when one row is already stored that memory does not count yet; it
also says that every stored session was started, so a new id finds the buffer
empty of it. Each action then falls under one of four lemmas: it leaves the
chain alone (`SameChain`), moves to a session without packets (`FreshChain`),
inserts (`StoreChain`), or backfills (`BackfillChain`). `NeverWedged` follows
from `ChainInv`. Signatures need, besides, that the signature and hash held
between the two statements are those of the row just inserted (`SigInv`), quotes
that `lastQuoteID` is 0 or a quote of the current session at or before `seq`
(`QuoteInv`). The action property and the refinement both rest on `TableStep`:
a step leaves the packets table alone, inserts one row, or sets one unset
signature.

**The daemon.** `DaemonInv` has three parts. `TablesInv`: the chain, rows in the
order of their numbers, and `Consistent(packets, segments)`, which gives the
three properties of segments at once: segments tile, a row is marked and names a
segment exactly if that segment covers it, and roots agree with the rows present.
`FlushInv`: the rows flush holds between its transactions are still pending, are
one contiguous batch and follow the segments there are, because only flush marks
rows and inserts come behind them; and every segment the endpoint has agrees with
the packets, its numbers never to be used again even if its packets are lost.
`PowerInv`: every logged state a power failure may bring back is itself consistent
and an initial part of the present packets. Without it nothing could be said after
`PowerFails`; with it the lemmas about flush, which speak of any two tables,
apply to the past as to the present. `ShippedOncePowered` needs that each
shipped segment is on record and is not the one about to be shipped (`OnceInv`),
`UploadedMeansShipped` that every segment on record was shipped or is next
(`EachShipped`). The refinement of the lossy chain takes a step of the custody
loop to a step of the chain, a step of the uploader to a stutter, and a power
failure to the loss of the ends of sessions, by `InitialPart`.

**Evidence.** `EvidenceStep` reduces every step of the daemon to one of the custody
loop, one that only marks rows, or a return to a logged state; each invariant is
then the loop's, and the same of the rows of every logged state. `BindsInv`: a
quote's nonce is over the packet being written, or stored, at its position.
`RecomputeInv`: a worker that can sign has a quote by the time it signs, so that
`SetTPMSig` never meets quote 0. `FreshLog`: the clock, the tick under way and
`lastQuoteAt` are ordered, and `lastQuoteAt` is the time of the packet quoted.
`TicksLog`: while a print is active the last packet is of the last tick handled.
`SilenceInv` counts: quiet packets are at most `MaxSilentTicks + 1` for each
faulted one, plus `silentTicks` since the last.

**The start.** `WorkerMemory` says which keys are on record at each step of
`runDaemon`, `KeysStay` that the keys `Open` captured are still those at the
handles, which is what ties a signature, made by handle, to the key stored.
`ProvisionMemory` says of the first key, from the moment it is made, that it is
in its place or was taken away by an operator (`Kept`): making the second cannot
replace it, and neither can anything the daemon does.

**The spoke.** `SpokeInv` has four parts. `TableInv` is about the buffer: the
chain of the custody loop, and that each row is the only one of its session and
number. From these alone follows that a SELECT of a session's packets, ordered by
number, returns a chain without a gap (`ReadsChain`). `LoadInv` says after each SELECT
what the data read so far has in common with the tables as they are now, and it
has to survive every step of the packetizer in between. It does because of an
order: a tick writes its fault and its quote before its packet, and `load_session`
reads packets first, so a fault or quote of a packet that was read is in its table
when that is read, and every later row belongs to a later packet (`RowsRead`,
`QuotesRead`). `SealedInv` is the same of each shard, which is the image under `Shard`
of such data. The packets read carry no stored signature, since `_hex_to_bytes`
would have raised. `QuotesRead` has the failed SELECT as its other case (`NoQuotes`),
so that the completeness of quotes is all or nothing. `SoftwareChainFromShard` needs
an invariant about the daemon, `SoftwareInv`: as long as no key was ever stored the
worker is absent, there is no quote, and the hash of every row covers no
signature. `SealedQuotesBind` needs that a quote is over the packet stored, or about to be, at its number (`BoundInv`).
`Located` and `Members` say what running offsets into a concatenation find, for any
number of parts of any length: the slice of a part is that part, and nothing else
is in the file.

**The policy engine.** `CountersFollow` says that the two counters of a rule's field
are its present run of violations and the number of its violations in the history.
A snapshot moves the counters of a rule once, at its place in the loop, and no
other rule touches them; `RoundState` says what the loop has made of counters and
violations after each rule. Rules of an unknown type judge nothing and may share
a field. With two judging rules the theorem is false (section 3).

**The segment root.** Taking one level away from below is what relates the two
shapes of tree: above two leaves the split point is twice the split point of the
half, rounded up (`SplitPointDoubles`), so the tree over a level splits where the
tree over the next level does, and the hash of a run that starts at an odd
position and ends with the level, or has even length, is the hash of the run of
its pairs (`NextLevelTree`, by induction over the length). Hence all rounds of
`merkleReduce` have one tree hash, and the last one is that hash. That a root
identifies its segment follows, by induction over the tree, from the symbolic
`Blake3` being injective and from the prefixes, which keep leaves, nodes and the
root of no packets apart; the length follows because the two sides of a node
determine their lengths in turn. For the daemon both halves meet: a recorded
segment has the root of the rows it covers (`TablesInv`), and that root is the
tree hash for any number of them.

**Induction.** The library's induction theorems have an operator parameter, which the
provers cannot instantiate; `SetInduction` and `StrongInduction` in `DataLemmas` are
stated for a set of naturals instead and follow from their well-foundedness. A
recursive function is first shown to exist up to every bound (`RoundsExist`,
`PowersExist`, `TreeExists`, `LoopExists`, `JoinExists`), so that CHOOSE has a value to
choose, and then to be what its equation says.

Only model-checked:

* everything under fairness (`EveryTickRecorded`, `PendingUploaded`,
  `StartSettles`, and the refuted `EndOfPrintQuoted`, `EverythingUploaded` and
  `Subscribes`), which is outside what the prover handles;
* that a property is violated (the six runs of section 3): a counterexample is
  TLC's to find.

## 6. What is not modelled

* Logging, flag parsing, the demo pages, CI: no state that a property is about.
* `json.Marshal` failing in `onTick` (a NaN reading).
* The TPM's structures and hierarchies, and which of several keys of a role a
  fingerprint in a shard names.
* The text of the journal and of the candidates, verdicts, the byte layout within a
  record, key generation, and `compile_generic_shard`, which is not in the
  repository.
* The client's pump behind a handshake that completes: the program does not get
  there (`moonraker_handshake`). What the packetizer would see of dropped deltas is
  in `AnyEdges`.
* `pingLoop`, which only writes to the socket, and undecodable messages, which
  `readLoop` skips.
* A power failure while the spoke runs, or with the TPM's handles half written.

## 7. Plan

Done: all modules of section 2, their runs, and the proofs of every safety property
that a passing run checks. What is left depends on the code:

1. When the handshake is repaired (reader started before the first call), the
   client's pump with its dropped updates, composed with the packetizer in place
   of `AnyEdges`.
2. When signatures are stored as text, or read as bytes, the proofs about the spoke
   with signed packets: `ReadsChain`, `Located` and the order of reading carry over;
   `Unsigned` becomes the packetizer's `StoredSigVerifies`, and rule 3 can be stated
   of signed packets, which also needs a reader that leaves out a packet whose
   `SetTPMSig` is still to come.
3. When several keys of a role matter, the key rows of `Startup` in `Spoke`, for the
   fingerprints a shard names.
4. When the packetizer tells the uploader its sessions, `EverythingUploaded` in place
   of `PendingUploaded`.
5. A power failure while the spoke reads: `ShardIsPrefix` would have to say which
   sealed packets the buffer may have lost.
