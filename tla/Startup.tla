------------------------------ MODULE Startup ------------------------------
(***************************************************************************)
(* How the TPM's keys come to be and how the daemon comes up: the commands *)
(* `axm-edge provision' and `axm-edge run' (cmd/axm-edge/main.go, with     *)
(* internal/config and internal/tpm) as two processes that share the TPM,  *)
(* beside an operator who removes keys from it.                            *)
(*                                                                         *)
(*   off --Exec--> buffer --> signPub --> akPub --> storeSign --> storeAK  *)
(*                               |          |                        |     *)
(*                               |          |       storeEK <--------+     *)
(*                               v          v          v             |     *)
(*                             running <---------------+-------------+     *)
(*                                                                         *)
(* Of the buffer there is what the signatures and quotes in it need to be  *)
(* verified: `evidence' is the sequence of the commits that store a key, a *)
(* signature or a quote, with the key that is stored or was used.          *)
(***************************************************************************)
EXTENDS Integers, Sequences

CONSTANTS
    FileConfigs,    \* what a configuration file may say; a missing number is 0
    Handles,        \* the TPM's persistent handles
    SignKeys,       \* the signing keys CreatePrimary may come up with
    AKs,            \* the attestation keys
    EKCert,         \* the certificate in the file at EKCertPath
    LiveEviction,   \* keys may be removed while the daemon runs
    MaxEvidence,    \* bound: commits
    MaxUnsynced     \* bound: the commits a power failure may lose

VARIABLES
    nv,         \* external: the key at each persistent handle of the TPM, or 0
    provision,  \* the provision process: its configuration, where it is, and
                \* (history) the handles an operator has emptied since it began
    cfg,        \* the daemon's configuration
    proc,       \* where the daemon is
    worker,     \* the tpm.Worker: the public areas captured by Open
    evidence    \* the commits to the buffer, in order

startupVars == <<nv, provision, cfg, proc, worker, evidence>>

Configs == [SignKeyHandle : Nat, AKHandle : Nat, EKCertPath : BOOLEAN,
            Period : Nat, RetryInterval : Nat]

ASSUME ConfigsAssumption == FileConfigs \subseteq Configs
ASSUME TPMKeysAssumption ==
    /\ Handles \subseteq Nat \ {0}
    /\ SignKeys \subseteq Nat \ {0} /\ AKs \subseteq Nat \ {0} /\ EKCert \in Nat \ {0}
    /\ SignKeys \cap AKs = {}
    /\ LiveEviction \in BOOLEAN
    /\ MaxEvidence \in Nat /\ MaxUnsynced \in Nat

\* 0x81000001 and 0x81000002 are handles 1 and 2; durations are in seconds.
DefaultConfig == [SignKeyHandle |-> 1, AKHandle |-> 2, EKCertPath |-> FALSE,
                  Period |-> 1, RetryInterval |-> 30]

\* Load fails when there is no file, or not a YAML one, and the caller goes on
\* with the defaults.  What a file leaves out is not filled in from them.
LoadedConfigs == FileConfigs \cup {DefaultConfig}

Workers == [signPub : Nat, akPub : Nat]
NoWorker == [signPub |-> 0, akPub |-> 0]

KeyAt(handle) == IF handle \in Handles THEN nv[handle] ELSE 0

StartupInit ==
    /\ nv = [h \in Handles |-> 0]
    /\ provision = [pc |-> "off", cfg |-> DefaultConfig, emptied |-> {}]
    /\ cfg = DefaultConfig /\ proc = "off" /\ worker = NoWorker
    /\ evidence = <<>>

-----------------------------------------------------------------------------
\* axm-edge provision.

\* Another process: it may be run at any time, also beside the daemon.
ProvisionStarts(c) ==
    /\ provision.pc \in {"off", "done"}
    /\ provision' = [pc |-> "sign", cfg |-> c, emptied |-> {}]
    /\ UNCHANGED <<nv, cfg, proc, worker, evidence>>

\* EvictControl makes a key persistent only at a handle that is free.
Persist(handle, key) ==
    /\ handle \in Handles /\ nv[handle] = 0
    /\ nv' = [nv EXCEPT ![handle] = key]

createPersistentRSAPSSKey ==
    /\ provision.pc = "sign"
    /\ \E key \in SignKeys : Persist(provision.cfg.SignKeyHandle, key)
    /\ provision' = [provision EXCEPT !.pc = "ak", !.emptied = @ \ {provision.cfg.SignKeyHandle}]
    /\ UNCHANGED <<cfg, proc, worker, evidence>>

createPersistentAK ==
    /\ provision.pc = "ak"
    /\ \E key \in AKs : Persist(provision.cfg.AKHandle, key)
    /\ provision' = [provision EXCEPT !.pc = "done", !.emptied = @ \ {provision.cfg.AKHandle}]
    /\ UNCHANGED <<cfg, proc, worker, evidence>>

\* Bug: the error of the second key is not returned.
Bug_AKErrorIgnored ==
    /\ provision.pc \in {"sign", "ak"}
    /\ provision' = [provision EXCEPT !.pc = IF @ = "ak" THEN "done" ELSE "off"]
    /\ UNCHANGED <<nv, cfg, proc, worker, evidence>>

\* The device does not open, a command fails, as it must when the handle is
\* taken, or the process is killed.  A key that was made stays.
ProvisionFails ==
    /\ provision.pc \in {"sign", "ak"}
    /\ provision' = [provision EXCEPT !.pc = "off"]
    /\ UNCHANGED <<nv, cfg, proc, worker, evidence>>

\* An operator removes a key, with the TPM's own tools.  A provision that is under
\* way does not notice.
Evict(handle) ==
    /\ proc = "off" \/ LiveEviction
    /\ nv[handle] # 0
    /\ nv' = [nv EXCEPT ![handle] = 0]
    /\ provision' = [provision EXCEPT !.emptied = @ \cup {handle}]
    /\ UNCHANGED <<cfg, proc, worker, evidence>>

-----------------------------------------------------------------------------
\* axm-edge run.
Exec(c) ==
    /\ proc = "off"
    /\ cfg' = c
    /\ proc' = "buffer"
    /\ UNCHANGED <<nv, provision, worker, evidence>>

\* hotbuffer.Open; migrate creates only the tables that are missing.
OpenBuffer ==
    /\ proc = "buffer"
    /\ proc' = "signPub"
    /\ UNCHANGED <<nv, provision, cfg, worker, evidence>>

\* checkHandles, first handle.
ReadSignPub ==
    /\ proc = "signPub" /\ KeyAt(cfg.SignKeyHandle) # 0
    /\ worker' = [worker EXCEPT !.signPub = KeyAt(cfg.SignKeyHandle)]
    /\ proc' = "akPub"
    /\ UNCHANGED <<nv, provision, cfg, evidence>>

\* Bug: the answer for an empty handle is taken for a key.
Bug_AKNotChecked ==
    /\ proc = "akPub"
    /\ worker' = [worker EXCEPT !.akPub = KeyAt(cfg.AKHandle)]
    /\ proc' = "storeSign"
    /\ UNCHANGED <<nv, provision, cfg, evidence>>

\* checkHandles, second handle.
ReadAKPub ==
    /\ proc = "akPub" /\ KeyAt(cfg.AKHandle) # 0
    /\ worker' = [worker EXCEPT !.akPub = KeyAt(cfg.AKHandle)]
    /\ proc' = "storeSign"
    /\ UNCHANGED <<nv, provision, cfg, evidence>>

\* Bug: the daemon waits for the TPM.
Bug_WaitForTPM ==
    /\ proc \in {"signPub", "akPub"}
    /\ worker' = NoWorker
    /\ proc' = "signPub"
    /\ UNCHANGED <<nv, provision, cfg, evidence>>

\* The device does not open or a handle is empty: software-only mode.
TPMUnavailable ==
    /\ proc \in {"signPub", "akPub"}
    /\ worker' = NoWorker
    /\ proc' = "running"
    /\ UNCHANGED <<nv, provision, cfg, evidence>>

\* Bug: a role is recorded once and never again.
Bug_FirstKeyOfRole(role, key) ==
    IF \E i \in DOMAIN evidence : evidence[i].kind = role
    THEN UNCHANGED evidence
    ELSE evidence' = Append(evidence, [kind |-> role, key |-> key])

\* INSERT OR IGNORE under UNIQUE (role, data).
WriteAttestationKey(role, key) ==
    IF \E i \in DOMAIN evidence : evidence[i] = [kind |-> role, key |-> key]
    THEN UNCHANGED evidence
    ELSE evidence' = Append(evidence, [kind |-> role, key |-> key])

StoreSignPub ==
    /\ proc = "storeSign"
    /\ WriteAttestationKey("sign_pub", worker.signPub)
    /\ proc' = "storeAK"
    /\ UNCHANGED <<nv, provision, cfg, worker>>

StoreAKPub ==
    /\ proc = "storeAK"
    /\ WriteAttestationKey("ak_pub", worker.akPub)
    /\ proc' = IF cfg.EKCertPath THEN "storeEK" ELSE "running"
    /\ UNCHANGED <<nv, provision, cfg, worker>>

\* A certificate that cannot be read is only warned about.
StoreEKCert ==
    /\ proc = "storeEK"
    /\ UNCHANGED evidence \/ WriteAttestationKey("ek_cert", EKCert)
    /\ proc' = "running"
    /\ UNCHANGED <<nv, provision, cfg, worker>>

\* The packetizer of a running daemon stores a signature or a quote.  SignPacket
\* and Quote name the handle, not the key that Open found there.
Attest ==
    /\ proc = "running" /\ worker # NoWorker /\ cfg.Period > 0
    /\ Len(evidence) < MaxEvidence
    /\ \E made \in {[kind |-> "sig", key |-> KeyAt(cfg.SignKeyHandle)],
                    [kind |-> "quote", key |-> KeyAt(cfg.AKHandle)]} :
          /\ made.key # 0
          /\ evidence' = Append(evidence, made)
    /\ UNCHANGED <<nv, provision, cfg, proc, worker>>

\* time.NewTicker panics on an interval that the file left out, in the goroutine
\* of the packetizer or of the uploader, and takes the process with it.
TickerPanics ==
    /\ proc = "running" /\ (cfg.Period = 0 \/ cfg.RetryInterval = 0)
    /\ proc' = "off" /\ worker' = NoWorker
    /\ UNCHANGED <<nv, provision, cfg, evidence>>

\* The process ends: it cannot open the buffer or store a key, it is stopped or
\* it dies.
Exit ==
    /\ proc # "off"
    /\ proc' = "off" /\ worker' = NoWorker
    /\ UNCHANGED <<nv, provision, cfg, evidence>>

\* The power fails: both processes are gone, and the last commits.
PowerFails ==
    /\ evidence # <<>>
    /\ \E lost \in 1 .. MaxUnsynced :
          /\ lost <= Len(evidence)
          /\ evidence' = SubSeq(evidence, 1, Len(evidence) - lost)
    /\ proc' = "off" /\ worker' = NoWorker
    /\ provision' = [provision EXCEPT !.pc = IF @ = "done" THEN @ ELSE "off"]
    /\ UNCHANGED <<nv, cfg>>

runDaemon ==
    \/ OpenBuffer
    \/ ReadSignPub
    \/ ReadAKPub
    \/ TPMUnavailable
    \/ StoreSignPub
    \/ StoreAKPub
    \/ StoreEKCert
    \/ TickerPanics

ProvisionKeys ==
    \/ createPersistentRSAPSSKey
    \/ createPersistentAK
    \/ ProvisionFails

StartupNext ==
    \/ \E c \in LoadedConfigs : ProvisionStarts(c) \/ Exec(c)
    \/ ProvisionKeys
    \/ \E h \in Handles : Evict(h)
    \/ runDaemon
    \/ Attest
    \/ Exit
    \/ PowerFails

StartupSpec == StartupInit /\ [][StartupNext]_startupVars

\* runDaemon is straight-line code up to the start of the goroutines, and each of
\* these makes its ticker first.
StartupFairSpec == StartupSpec /\ WF_startupVars(runDaemon)

-----------------------------------------------------------------------------
\* Properties.

\* The processes are at one of their steps and hold what belongs there.
StartupTypeOK ==
    /\ nv \in [Handles -> {0} \cup SignKeys \cup AKs]
    /\ provision \in [pc : {"off", "sign", "ak", "done"}, cfg : LoadedConfigs,
                       emptied : SUBSET Handles]
    /\ cfg \in LoadedConfigs
    /\ proc \in {"off", "buffer", "signPub", "akPub", "storeSign", "storeAK",
                 "storeEK", "running"}
    /\ worker \in Workers
    /\ evidence \in Seq([kind : {"sign_pub", "ak_pub", "ek_cert", "sig", "quote"},
                         key : Nat \ {0}])

OnRecordBefore(i, role) ==
    \E j \in 1 .. i - 1 : evidence[j] = [kind |-> role, key |-> evidence[i].key]

\* The key that verifies a stored signature or quote was committed before it (the
\* comment on Worker.signPub: without it "no verifier can ever check a packet
\* signature or quote"), so that it is there at every moment, and after every
\* crash between the writes of runDaemon, every power failure, a change of keys
\* between two runs, another configuration or a provisioning beside the daemon.
SignatureKeyOnRecord ==
    \A i \in DOMAIN evidence :
        /\ evidence[i].kind = "sig" => OnRecordBefore(i, "sign_pub")
        /\ evidence[i].kind = "quote" => OnRecordBefore(i, "ak_pub")

\* When ProvisionKeys reports success both handles hold a key, whatever failed in
\* earlier attempts: what Open will look for.  Only a key that an operator removed
\* after it was made, be it before the second one was, can be missing.
ProvisionedBoth ==
    provision.pc = "done" =>
        \A handle \in {provision.cfg.SignKeyHandle, provision.cfg.AKHandle} :
            KeyAt(handle) # 0 \/ handle \in provision.emptied

\* A daemon that is started comes up, without a TPM as well (main.go: "Non-fatal:
\* the daemon runs in software-only mode"), or it exits; and it does not stay up
\* without the tickers of its goroutines.
StartSettles ==
    (proc = "buffer") ~> \/ proc = "off"
                         \/ proc = "running" /\ cfg.Period > 0 /\ cfg.RetryInterval > 0
=============================================================================
