--------------------------- MODULE StartupProofs ---------------------------
(***************************************************************************)
(* Proofs about provisioning and about how the daemon comes up, for every  *)
(* set of configuration files, handles and keys, every interleaving of the *)
(* two processes and the operator, every crash and every power failure.    *)
(***************************************************************************)
EXTENDS Startup, TLAPS

USE DEF Workers, NoWorker

Commit == [kind : {"sign_pub", "ak_pub", "ek_cert", "sig", "quote"}, key : Nat \ {0}]

\* The daemon has a worker: Open found a key at both handles.
HasWorker == \/ proc \in {"storeSign", "storeAK", "storeEK"}
             \/ proc = "running" /\ worker # NoWorker

Recorded(role, key) ==
    \E i \in DOMAIN evidence : evidence[i] = [kind |-> role, key |-> key]

(***************************************************************************)
(* What runDaemon has established at each of its steps: the keys Open      *)
(* captured are keys, and those whose write is behind it are on record.    *)
(* TypeOK is not inductive without it: a key of 0 would be stored.         *)
(***************************************************************************)
WorkerMemory ==
    /\ proc \in {"off", "buffer", "signPub"} => worker = NoWorker
    /\ proc = "akPub" => worker.signPub # 0
    /\ HasWorker => worker.signPub # 0 /\ worker.akPub # 0
    /\ HasWorker /\ proc # "storeSign" => Recorded("sign_pub", worker.signPub)
    /\ HasWorker /\ proc \notin {"storeSign", "storeAK"} => Recorded("ak_pub", worker.akPub)

\* What is found at a handle is a key or nothing.
LEMMA KeyAtType ==
    ASSUME StartupTypeOK, NEW h PROVE KeyAt(h) \in Nat
<1>1. {0} \cup SignKeys \cup AKs \subseteq Nat
  BY TPMKeysAssumption
<1>2. h \in Handles => nv[h] \in {0} \cup SignKeys \cup AKs
  BY DEF StartupTypeOK
<1> QED BY <1>1, <1>2 DEF KeyAt

\* An insert keeps what is on record, and adds the new commit.
LEMMA CommitAppended ==
    ASSUME StartupTypeOK, NEW c \in Commit, evidence' = Append(evidence, c)
    PROVE  /\ evidence' \in Seq(Commit)
           /\ DOMAIN evidence' = 1 .. Len(evidence) + 1
           /\ DOMAIN evidence = 1 .. Len(evidence)
           /\ Len(evidence) \in Nat
           /\ \A i \in DOMAIN evidence : i \in DOMAIN evidence' /\ evidence'[i] = evidence[i]
           /\ evidence'[Len(evidence) + 1] = c
  BY DEF StartupTypeOK, Commit

\* A power failure leaves the commits that precede the lost ones as they were.
LEMMA CommitsLost ==
    ASSUME StartupTypeOK, NEW lost \in 1 .. MaxUnsynced, lost <= Len(evidence),
           evidence' = SubSeq(evidence, 1, Len(evidence) - lost)
    PROVE  /\ evidence' \in Seq(Commit)
           /\ \A i \in DOMAIN evidence' :
                 /\ i \in DOMAIN evidence /\ i \in Nat
                 /\ evidence'[i] = evidence[i]
                 /\ \A j \in 1 .. i - 1 : j \in DOMAIN evidence'
<1>1. evidence \in Seq(Commit) /\ Len(evidence) \in Nat /\ lost \in Nat
  BY TPMKeysAssumption DEF StartupTypeOK, Commit
<1>2. Len(evidence) - lost \in Nat /\ Len(evidence) - lost <= Len(evidence)
  BY <1>1
<1> DEFINE n == Len(evidence) - lost
<1> HIDE DEF n, Commit
<1>3. n \in Nat /\ n <= Len(evidence) /\ evidence' = SubSeq(evidence, 1, n)
  BY <1>2 DEF n
<1>4. DOMAIN evidence' = 1 .. n /\ \A i \in 1 .. n : evidence'[i] = evidence[i]
  BY <1>1, <1>3
<1>5. \A i \in 1 .. n : i \in DOMAIN evidence /\ evidence[i] \in Commit
  BY <1>1, <1>3
<1>6. evidence' \in Seq(Commit)
  BY <1>1, <1>3, <1>4, <1>5
<1>7. ASSUME NEW i \in 1 .. n PROVE i \in Nat /\ \A j \in 1 .. i - 1 : j \in 1 .. n
  BY <1>3
<1> QED BY <1>4, <1>5, <1>6, <1>7

\* WriteAttestationKey leaves the key on record and loses no other commit.
LEMMA KeyWritten ==
    ASSUME StartupTypeOK, NEW role \in {"sign_pub", "ak_pub", "ek_cert"},
           NEW key \in Nat \ {0}, WriteAttestationKey(role, key)
    PROVE  /\ evidence' \in Seq(Commit)
           /\ Recorded(role, key)'
           /\ \A r, k : Recorded(r, k) => Recorded(r, k)'
<1>1. CASE \E i \in DOMAIN evidence : evidence[i] = [kind |-> role, key |-> key]
  <2>1. evidence' = evidence
    BY <1>1 DEF WriteAttestationKey
  <2> QED BY <1>1, <2>1 DEF Recorded, StartupTypeOK, Commit
<1>2. CASE ~ \E i \in DOMAIN evidence : evidence[i] = [kind |-> role, key |-> key]
  <2> DEFINE c == [kind |-> role, key |-> key]
  <2>1. evidence' = Append(evidence, c)
    BY <1>2 DEF WriteAttestationKey
  <2>2. c \in Commit
    BY DEF Commit
  <2> HIDE DEF c
  <2>3. /\ evidence' \in Seq(Commit)
        /\ DOMAIN evidence' = 1 .. Len(evidence) + 1
        /\ DOMAIN evidence = 1 .. Len(evidence)
        /\ Len(evidence) \in Nat
        /\ \A i \in DOMAIN evidence : i \in DOMAIN evidence' /\ evidence'[i] = evidence[i]
        /\ evidence'[Len(evidence) + 1] = c
    BY <2>1, <2>2, CommitAppended
  <2>4. Recorded(role, key)'
    BY <2>3 DEF Recorded, c
  <2>5. ASSUME NEW r, NEW k, Recorded(r, k) PROVE Recorded(r, k)'
    BY <2>3, <2>5 DEF Recorded
  <2> QED BY <2>3, <2>4, <2>5
<1> QED BY <1>1, <1>2

-----------------------------------------------------------------------------
\* Type correctness, with what the daemon remembers.

\* Before either command ran.
LEMMA StartupInitType == StartupInit => StartupTypeOK /\ WorkerMemory
  BY TPMKeysAssumption DEF StartupInit, StartupTypeOK, WorkerMemory, LoadedConfigs, HasWorker

\* Every step of the two processes, the operator and the power.
LEMMA StartupStepType ==
    StartupTypeOK /\ WorkerMemory /\ [StartupNext]_startupVars
        => StartupTypeOK' /\ WorkerMemory'
<1> SUFFICES ASSUME StartupTypeOK, WorkerMemory, [StartupNext]_startupVars
             PROVE  StartupTypeOK' /\ WorkerMemory'
  OBVIOUS
<1>a. ASSUME UNCHANGED <<proc, worker, evidence>> PROVE WorkerMemory'
  BY <1>a DEF WorkerMemory, HasWorker, Recorded
<1>b. ASSUME worker' = NoWorker, proc' \in {"off", "running"} PROVE WorkerMemory'
  BY <1>b DEF WorkerMemory, HasWorker
<1>1. ASSUME NEW c \in LoadedConfigs, ProvisionStarts(c)
      PROVE  StartupTypeOK' /\ WorkerMemory'
  BY <1>1, <1>a DEF ProvisionStarts, StartupTypeOK
<1>2. ASSUME NEW c \in LoadedConfigs, Exec(c) PROVE StartupTypeOK' /\ WorkerMemory'
  <2>1. StartupTypeOK'
    BY <1>2 DEF Exec, StartupTypeOK
  <2>2. WorkerMemory'
    BY <1>2 DEF Exec, WorkerMemory, HasWorker
  <2> QED BY <2>1, <2>2
<1>3. CASE createPersistentRSAPSSKey
  BY <1>3, <1>a DEF createPersistentRSAPSSKey, Persist, StartupTypeOK
<1>4. CASE createPersistentAK
  BY <1>4, <1>a DEF createPersistentAK, Persist, StartupTypeOK
<1>5. CASE ProvisionFails
  BY <1>5, <1>a DEF ProvisionFails, StartupTypeOK
<1>6. ASSUME NEW h \in Handles, Evict(h) PROVE StartupTypeOK' /\ WorkerMemory'
  BY <1>6, <1>a DEF Evict, StartupTypeOK
<1>7. CASE OpenBuffer
  <2>1. StartupTypeOK'
    BY <1>7 DEF OpenBuffer, StartupTypeOK
  <2>2. WorkerMemory'
    BY <1>7 DEF OpenBuffer, WorkerMemory, HasWorker
  <2> QED BY <2>1, <2>2
<1>8. CASE ReadSignPub
  <2>1. KeyAt(cfg.SignKeyHandle) \in Nat
    BY KeyAtType
  <2>2. worker' \in Workers /\ worker'.signPub # 0
    BY <1>8, <2>1 DEF ReadSignPub, StartupTypeOK
  <2>3. StartupTypeOK'
    BY <1>8, <2>2 DEF ReadSignPub, StartupTypeOK
  <2>4. WorkerMemory'
    BY <1>8, <2>2 DEF ReadSignPub, WorkerMemory, HasWorker
  <2> QED BY <2>3, <2>4
<1>9. CASE ReadAKPub
  <2>1. KeyAt(cfg.AKHandle) \in Nat
    BY KeyAtType
  <2>2. worker' \in Workers /\ worker'.akPub # 0 /\ worker'.signPub = worker.signPub
    BY <1>9, <2>1 DEF ReadAKPub, StartupTypeOK
  <2>3. StartupTypeOK'
    BY <1>9, <2>2 DEF ReadAKPub, StartupTypeOK
  <2>4. WorkerMemory'
    BY <1>9, <2>2 DEF ReadAKPub, WorkerMemory, HasWorker
  <2> QED BY <2>3, <2>4
<1>10. CASE TPMUnavailable
  BY <1>10, <1>b DEF TPMUnavailable, StartupTypeOK
<1>11. CASE StoreSignPub
  <2>1. worker.signPub \in Nat \ {0} /\ worker.akPub \in Nat \ {0}
    BY <1>11 DEF StoreSignPub, StartupTypeOK, WorkerMemory, HasWorker
  <2>2. evidence' \in Seq(Commit) /\ Recorded("sign_pub", worker.signPub)'
    BY <1>11, <2>1, KeyWritten DEF StoreSignPub
  <2>3. StartupTypeOK'
    BY <1>11, <2>2 DEF StoreSignPub, StartupTypeOK, Commit
  <2>4. WorkerMemory'
    BY <1>11, <2>1, <2>2 DEF StoreSignPub, WorkerMemory, HasWorker, Recorded
  <2> QED BY <2>3, <2>4
<1>12. CASE StoreAKPub
  <2>1. /\ worker.signPub \in Nat \ {0} /\ worker.akPub \in Nat \ {0}
        /\ Recorded("sign_pub", worker.signPub)
    BY <1>12 DEF StoreAKPub, StartupTypeOK, WorkerMemory, HasWorker
  <2>2. /\ evidence' \in Seq(Commit) /\ Recorded("ak_pub", worker.akPub)'
        /\ Recorded("sign_pub", worker.signPub)'
    BY <1>12, <2>1, KeyWritten DEF StoreAKPub
  <2>3. StartupTypeOK'
    BY <1>12, <2>2 DEF StoreAKPub, StartupTypeOK, Commit
  <2>4. WorkerMemory'
    BY <1>12, <2>1, <2>2 DEF StoreAKPub, WorkerMemory, HasWorker, Recorded
  <2> QED BY <2>3, <2>4
<1>13. CASE StoreEKCert
  <2>1. /\ worker.signPub \in Nat \ {0} /\ worker.akPub \in Nat \ {0}
        /\ Recorded("sign_pub", worker.signPub) /\ Recorded("ak_pub", worker.akPub)
    BY <1>13 DEF StoreEKCert, StartupTypeOK, WorkerMemory, HasWorker
  <2>2. CASE UNCHANGED evidence
    <3>1. StartupTypeOK'
      BY <1>13, <2>2 DEF StoreEKCert, StartupTypeOK
    <3>2. WorkerMemory'
      BY <1>13, <2>1, <2>2 DEF StoreEKCert, WorkerMemory, HasWorker, Recorded
    <3> QED BY <3>1, <3>2
  <2>3. CASE WriteAttestationKey("ek_cert", EKCert)
    <3>1. /\ evidence' \in Seq(Commit) /\ Recorded("ak_pub", worker.akPub)'
          /\ Recorded("sign_pub", worker.signPub)'
      <4>1. worker' = worker
        BY <1>13 DEF StoreEKCert
      <4>2. EKCert \in Nat \ {0}
        BY TPMKeysAssumption
      <4> QED BY <2>1, <2>3, <4>1, <4>2, KeyWritten
    <3>2. StartupTypeOK'
      BY <1>13, <3>1 DEF StoreEKCert, StartupTypeOK, Commit
    <3>3. WorkerMemory'
      BY <1>13, <2>1, <3>1 DEF StoreEKCert, WorkerMemory, HasWorker, Recorded
    <3> QED BY <3>2, <3>3
  <2> QED BY <1>13, <2>2, <2>3 DEF StoreEKCert
<1>14. CASE Attest
  <2>1. PICK made \in {[kind |-> "sig", key |-> KeyAt(cfg.SignKeyHandle)],
                       [kind |-> "quote", key |-> KeyAt(cfg.AKHandle)]} :
              made.key # 0 /\ evidence' = Append(evidence, made)
    BY <1>14 DEF Attest
  <2>2. made \in Commit
    BY <2>1, KeyAtType DEF Commit
  <2>3. /\ evidence' \in Seq(Commit)
        /\ \A i \in DOMAIN evidence : i \in DOMAIN evidence' /\ evidence'[i] = evidence[i]
    BY <2>1, <2>2, CommitAppended
  <2>4. StartupTypeOK'
    BY <1>14, <2>3 DEF Attest, StartupTypeOK, Commit
  <2>5. WorkerMemory'
    BY <1>14, <2>3 DEF Attest, WorkerMemory, HasWorker, Recorded
  <2> QED BY <2>4, <2>5
<1>15. CASE TickerPanics
  BY <1>15, <1>b DEF TickerPanics, StartupTypeOK
<1>16. CASE Exit
  BY <1>16, <1>b DEF Exit, StartupTypeOK
<1>17. CASE PowerFails
  <2>1. PICK lost \in 1 .. MaxUnsynced :
              /\ lost <= Len(evidence)
              /\ evidence' = SubSeq(evidence, 1, Len(evidence) - lost)
    BY <1>17 DEF PowerFails
  <2>2. evidence' \in Seq(Commit)
    BY <2>1, CommitsLost
  <2>3. StartupTypeOK'
    BY <1>17, <2>2 DEF PowerFails, StartupTypeOK, Commit
  <2>4. WorkerMemory'
    BY <1>17, <1>b DEF PowerFails
  <2> QED BY <2>3, <2>4
<1>18. CASE UNCHANGED startupVars
  BY <1>18, <1>a DEF startupVars, StartupTypeOK
<1> QED
  BY <1>1, <1>2, <1>3, <1>4, <1>5, <1>6, <1>7, <1>8, <1>9, <1>10, <1>11, <1>12,
     <1>13, <1>14, <1>15, <1>16, <1>17, <1>18
     DEF StartupNext, runDaemon, ProvisionKeys

\* What the invariant says holds throughout.
LEMMA StartupInvariant == StartupSpec => [](StartupTypeOK /\ WorkerMemory)
  BY StartupInitType, StartupStepType, PTL DEF StartupSpec

\* The two processes are always at one of their steps and hold what belongs
\* there; no key of 0, which is the answer for an empty handle, is ever stored.
THEOREM StartupTypeCorrect == StartupSpec => []StartupTypeOK
  BY StartupInvariant, PTL

-----------------------------------------------------------------------------
(***************************************************************************)
(* Provisioning.  ProvisionedBoth is not inductive: the second key finds   *)
(* the first in its place because nothing takes a key from a handle but    *)
(* the operator, and a new key never replaces one.                         *)
(***************************************************************************)
Kept(handle) == KeyAt(handle) # 0 \/ handle \in provision.emptied

ProvisionMemory ==
    /\ provision.pc \in {"ak", "done"} => Kept(provision.cfg.SignKeyHandle)
    /\ provision.pc = "done" => Kept(provision.cfg.AKHandle)

\* A key made persistent is found at its handle, and the others where they were.
LEMMA KeyPersisted ==
    ASSUME StartupTypeOK, NEW handle, NEW key \in SignKeys \cup AKs, Persist(handle, key)
    PROVE  /\ handle \in Handles /\ nv'[handle] # 0
           /\ \A h \in Handles : nv[h] # 0 => nv'[h] = nv[h]
<1>1. key # 0
  BY TPMKeysAssumption
<1>2. handle \in Handles /\ nv[handle] = 0 /\ nv' = [nv EXCEPT ![handle] = key]
  BY DEF Persist
<1>3. nv'[handle] = key /\ \A h \in Handles : h # handle => nv'[h] = nv[h]
  BY <1>2 DEF StartupTypeOK
<1> QED BY <1>1, <1>2, <1>3

\* Whatever failed in earlier attempts and whatever the daemon does beside it, a
\* provisioning that reports success leaves a key at both handles, and they
\* stay until somebody removes one; nor can one be missing for another reason.
THEOREM ProvisioningCorrect == StartupSpec => []ProvisionedBoth
<1> DEFINE Inv == ProvisionMemory
<1>1. StartupInit => Inv
  BY DEF StartupInit, ProvisionMemory
<1>2. StartupTypeOK /\ Inv /\ [StartupNext]_startupVars => Inv'
  <2> SUFFICES ASSUME StartupTypeOK, Inv, [StartupNext]_startupVars PROVE Inv'
    OBVIOUS
  <2>a. ASSUME UNCHANGED <<nv, provision>> PROVE Inv'
    BY <2>a DEF ProvisionMemory, Kept, KeyAt
  <2>b. ASSUME provision'.pc \in {"off", "sign"} PROVE Inv'
    BY <2>b DEF ProvisionMemory
  <2>c. provision \in [pc : {"off", "sign", "ak", "done"}, cfg : LoadedConfigs,
                       emptied : SUBSET Handles]
    BY DEF StartupTypeOK
  <2>1. ASSUME NEW c \in LoadedConfigs, ProvisionStarts(c) PROVE Inv'
    BY <2>1, <2>b DEF ProvisionStarts
  <2>2. CASE createPersistentRSAPSSKey
    <3>1. PICK key \in SignKeys : Persist(provision.cfg.SignKeyHandle, key)
      BY <2>2 DEF createPersistentRSAPSSKey
    <3>2. provision'.cfg = provision.cfg /\ provision'.pc = "ak"
      BY <2>2, <2>c DEF createPersistentRSAPSSKey
    <3>3. nv'[provision.cfg.SignKeyHandle] # 0 /\ provision.cfg.SignKeyHandle \in Handles
      BY <3>1, KeyPersisted
    <3> QED BY <3>2, <3>3 DEF ProvisionMemory, Kept, KeyAt
  <2>3. CASE createPersistentAK
    <3> DEFINE sign == provision.cfg.SignKeyHandle
               ak == provision.cfg.AKHandle
    <3>1. PICK key \in AKs : Persist(ak, key)
      BY <2>3 DEF createPersistentAK
    <3>2. /\ provision'.cfg = provision.cfg /\ provision.pc = "ak"
          /\ provision'.emptied = provision.emptied \ {ak}
      BY <2>3, <2>c DEF createPersistentAK
    <3>3. /\ nv'[ak] # 0 /\ ak \in Handles
          /\ \A h \in Handles : nv[h] # 0 => nv'[h] = nv[h]
      BY <3>1, KeyPersisted
    <3>4. Kept(ak)'
      BY <3>2, <3>3 DEF Kept, KeyAt
    <3>5. Kept(sign)
      BY <3>2 DEF ProvisionMemory
    <3>6. Kept(sign)'
      BY <3>2, <3>3, <3>4, <3>5 DEF Kept, KeyAt
    <3> QED BY <3>2, <3>4, <3>6 DEF ProvisionMemory
  <2>4. CASE ProvisionFails
    BY <2>4, <2>b, <2>c DEF ProvisionFails
  <2>5. ASSUME NEW h \in Handles, Evict(h) PROVE Inv'
    <3>1. /\ provision'.pc = provision.pc /\ provision'.cfg = provision.cfg
          /\ provision'.emptied = provision.emptied \cup {h}
      BY <2>5, <2>c DEF Evict
    <3>2. \A x \in Handles : x # h => nv'[x] = nv[x]
      BY <2>5 DEF Evict, StartupTypeOK
    <3>3. ASSUME NEW x, Kept(x) PROVE Kept(x)'
      BY <3>1, <3>2, <3>3 DEF Kept, KeyAt
    <3> QED BY <3>1, <3>3 DEF ProvisionMemory
  <2>6. CASE PowerFails
    <3>1. /\ nv' = nv /\ provision'.cfg = provision.cfg
          /\ provision'.emptied = provision.emptied
          /\ provision'.pc = provision.pc \/ provision'.pc = "off"
      BY <2>6, <2>c DEF PowerFails
    <3> QED BY <3>1 DEF ProvisionMemory, Kept, KeyAt
  <2>7. ASSUME NEW c \in LoadedConfigs, Exec(c) PROVE Inv'
    BY <2>7, <2>a DEF Exec
  <2>8. CASE runDaemon
    BY <2>8, <2>a DEF runDaemon, OpenBuffer, ReadSignPub, ReadAKPub, TPMUnavailable,
                      StoreSignPub, StoreAKPub, StoreEKCert, TickerPanics
  <2>9. CASE Attest \/ Exit \/ UNCHANGED startupVars
    BY <2>9, <2>a DEF Attest, Exit, startupVars
  <2> QED BY <2>1, <2>2, <2>3, <2>4, <2>5, <2>6, <2>7, <2>8, <2>9
          DEF StartupNext, ProvisionKeys
<1>3. Inv => ProvisionedBoth
  BY DEF ProvisionMemory, ProvisionedBoth, Kept
<1> QED BY <1>1, <1>2, <1>3, StartupInvariant, PTL DEF StartupSpec

-----------------------------------------------------------------------------
(***************************************************************************)
(* The key of every signature.  SignPacket and Quote name a handle, not a  *)
(* key, so that the key used is the one on record only while the keys Open *)
(* captured stay at their handles.  They do when no key is removed under a *)
(* running daemon: a provisioning beside it cannot replace one.            *)
(***************************************************************************)
KeysStay ==
    /\ proc = "akPub" \/ HasWorker => worker.signPub = KeyAt(cfg.SignKeyHandle)
    /\ HasWorker => worker.akPub = KeyAt(cfg.AKHandle)

\* Without live eviction the keys the worker captured stay where they were.
LEMMA KeysStayStep ==
    ASSUME LiveEviction = FALSE
    PROVE  StartupTypeOK /\ WorkerMemory /\ KeysStay /\ [StartupNext]_startupVars => KeysStay'
<1> SUFFICES ASSUME StartupTypeOK, WorkerMemory, KeysStay, [StartupNext]_startupVars
             PROVE  KeysStay'
  OBVIOUS
<1>a. ASSUME UNCHANGED <<cfg, proc, worker>>,
             \A h \in Handles : nv[h] # 0 => nv'[h] = nv[h]
      PROVE  KeysStay'
  BY <1>a DEF KeysStay, HasWorker, WorkerMemory, KeyAt
<1>b. ASSUME proc' \in {"off", "buffer", "signPub"} \/ (proc' = "running" /\ worker' = NoWorker)
      PROVE  KeysStay'
  BY <1>b DEF KeysStay, HasWorker
<1>1. CASE createPersistentRSAPSSKey
  BY <1>1, <1>a, KeyPersisted DEF createPersistentRSAPSSKey
<1>2. CASE createPersistentAK
  BY <1>2, <1>a, KeyPersisted DEF createPersistentAK
<1>3. ASSUME NEW h \in Handles, Evict(h) PROVE KeysStay'
  BY <1>3, <1>b DEF Evict
<1>4. CASE ReadSignPub
  <2>1. worker'.signPub = KeyAt(cfg.SignKeyHandle)
    BY <1>4 DEF ReadSignPub, StartupTypeOK
  <2> QED BY <1>4, <2>1 DEF ReadSignPub, KeysStay, HasWorker, KeyAt
<1>5. CASE ReadAKPub
  <2>1. worker'.akPub = KeyAt(cfg.AKHandle) /\ worker'.signPub = worker.signPub
    BY <1>5 DEF ReadAKPub, StartupTypeOK
  <2> QED BY <1>5, <2>1 DEF ReadAKPub, KeysStay, HasWorker, KeyAt
<1>6. CASE StoreSignPub \/ StoreAKPub \/ StoreEKCert
  <2>1. UNCHANGED <<nv, cfg, worker>> /\ proc \in {"storeSign", "storeAK", "storeEK"}
    BY <1>6 DEF StoreSignPub, StoreAKPub, StoreEKCert
  <2> QED BY <2>1 DEF KeysStay, HasWorker, KeyAt
<1>7. ASSUME NEW c \in LoadedConfigs, ProvisionStarts(c) PROVE KeysStay'
  BY <1>7, <1>a DEF ProvisionStarts
<1>8. ASSUME NEW c \in LoadedConfigs, Exec(c) PROVE KeysStay'
  BY <1>8, <1>b DEF Exec
<1>9. CASE ProvisionFails \/ Attest \/ UNCHANGED startupVars
  BY <1>9, <1>a DEF ProvisionFails, Attest, startupVars
<1>10. CASE OpenBuffer \/ TPMUnavailable \/ TickerPanics \/ Exit \/ PowerFails
  BY <1>10, <1>b DEF OpenBuffer, TPMUnavailable, TickerPanics, Exit, PowerFails
<1> QED
  BY <1>1, <1>2, <1>3, <1>4, <1>5, <1>6, <1>7, <1>8, <1>9, <1>10
     DEF StartupNext, runDaemon, ProvisionKeys

\* The property survives the commit of a key, and that of a signature or quote
\* whose key is on record.
LEMMA AppendKeepsRecord ==
    ASSUME StartupTypeOK, SignatureKeyOnRecord, NEW c \in Commit,
           evidence' = Append(evidence, c),
           c.kind = "sig" => Recorded("sign_pub", c.key),
           c.kind = "quote" => Recorded("ak_pub", c.key)
    PROVE  SignatureKeyOnRecord'
<1>n. PICK n \in Nat : n = Len(evidence)
  BY CommitAppended
<1>1. /\ DOMAIN evidence' = 1 .. n + 1 /\ DOMAIN evidence = 1 .. n /\ n \in Nat
      /\ \A i \in 1 .. n : evidence'[i] = evidence[i]
      /\ evidence'[n + 1] = c
  BY <1>n, CommitAppended
<1>2. ASSUME NEW i \in 1 .. n, NEW role, OnRecordBefore(i, role)
      PROVE  OnRecordBefore(i, role)'
  BY <1>1, <1>2 DEF OnRecordBefore
<1>3. ASSUME NEW role, Recorded(role, c.key) PROVE OnRecordBefore(n + 1, role)'
  <2>1. PICK j \in 1 .. n : evidence[j] = [kind |-> role, key |-> c.key]
    BY <1>1, <1>3 DEF Recorded
  <2>2. j \in 1 .. (n + 1) - 1 /\ evidence'[j] = [kind |-> role, key |-> evidence'[n + 1].key]
    BY <1>1, <2>1
  <2> QED BY <2>2 DEF OnRecordBefore
<1>4. ASSUME NEW i \in 1 .. n
      PROVE  /\ evidence'[i].kind = "sig" => OnRecordBefore(i, "sign_pub")'
             /\ evidence'[i].kind = "quote" => OnRecordBefore(i, "ak_pub")'
  BY <1>1, <1>2 DEF SignatureKeyOnRecord
<1>5. /\ evidence'[n + 1].kind = "sig" => OnRecordBefore(n + 1, "sign_pub")'
      /\ evidence'[n + 1].kind = "quote" => OnRecordBefore(n + 1, "ak_pub")'
  BY <1>1, <1>3
<1>6. \A i \in 1 .. n + 1 : i \in 1 .. n \/ i = n + 1
  BY <1>1
<1> QED BY <1>1, <1>4, <1>5, <1>6 DEF SignatureKeyOnRecord

\* What is left after a power failure has its keys on record: they were committed
\* first.
LEMMA LossKeepsRecord ==
    ASSUME StartupTypeOK, SignatureKeyOnRecord, NEW lost \in 1 .. MaxUnsynced,
           lost <= Len(evidence),
           evidence' = SubSeq(evidence, 1, Len(evidence) - lost)
    PROVE  SignatureKeyOnRecord'
<1>1. \A i \in DOMAIN evidence' :
         /\ i \in DOMAIN evidence /\ i \in Nat /\ evidence'[i] = evidence[i]
         /\ \A j \in 1 .. i - 1 : j \in DOMAIN evidence'
  BY CommitsLost
<1>2. ASSUME NEW i \in DOMAIN evidence', NEW role, OnRecordBefore(i, role)
      PROVE  OnRecordBefore(i, role)'
  <2>1. PICK j \in 1 .. i - 1 : evidence[j] = [kind |-> role, key |-> evidence[i].key]
    BY <1>2 DEF OnRecordBefore
  <2>2. evidence'[j] = [kind |-> role, key |-> evidence'[i].key]
    BY <1>1, <2>1
  <2> QED BY <2>2 DEF OnRecordBefore
<1>3. ASSUME NEW i \in DOMAIN evidence'
      PROVE  /\ evidence'[i].kind = "sig" => OnRecordBefore(i, "sign_pub")'
             /\ evidence'[i].kind = "quote" => OnRecordBefore(i, "ak_pub")'
  BY <1>1, <1>2 DEF SignatureKeyOnRecord
<1> QED BY <1>3 DEF SignatureKeyOnRecord

\* Every stored signature and quote can be verified: when no key is removed under
\* a running daemon, the public key it was made with was committed before it,
\* after any crash, restart, power failure, change of keys or of the configuration.
THEOREM KeyOnRecordCorrect ==
    ASSUME LiveEviction = FALSE
    PROVE  StartupSpec => []SignatureKeyOnRecord
<1> DEFINE Inv == KeysStay /\ SignatureKeyOnRecord
<1>1. StartupInit => Inv
  BY DEF StartupInit, KeysStay, HasWorker, SignatureKeyOnRecord
<1>2. StartupTypeOK /\ WorkerMemory /\ Inv /\ [StartupNext]_startupVars => Inv'
  <2> SUFFICES ASSUME StartupTypeOK, WorkerMemory, Inv, [StartupNext]_startupVars
               PROVE  SignatureKeyOnRecord'
    BY KeysStayStep
  <2>a. ASSUME UNCHANGED evidence PROVE SignatureKeyOnRecord'
    BY <2>a DEF SignatureKeyOnRecord, OnRecordBefore
  <2>b. ASSUME NEW role \in {"sign_pub", "ak_pub", "ek_cert"}, NEW key \in Nat \ {0},
               WriteAttestationKey(role, key)
        PROVE  SignatureKeyOnRecord'
    <3> DEFINE c == [kind |-> role, key |-> key]
    <3>1. evidence' = evidence \/ evidence' = Append(evidence, c)
      BY <2>b DEF WriteAttestationKey
    <3>2. c \in Commit /\ c.kind \notin {"sig", "quote"}
      BY DEF Commit
    <3> QED BY <2>a, <3>1, <3>2, AppendKeepsRecord
  <2>1. CASE StoreSignPub
    <3>1. worker.signPub \in Nat \ {0}
      BY <2>1 DEF StoreSignPub, StartupTypeOK, WorkerMemory, HasWorker
    <3> QED BY <2>1, <2>b, <3>1 DEF StoreSignPub
  <2>2. CASE StoreAKPub
    <3>1. worker.akPub \in Nat \ {0}
      BY <2>2 DEF StoreAKPub, StartupTypeOK, WorkerMemory, HasWorker
    <3> QED BY <2>2, <2>b, <3>1 DEF StoreAKPub
  <2>3. CASE StoreEKCert
    BY <2>3, <2>a, <2>b, TPMKeysAssumption DEF StoreEKCert
  <2>4. CASE Attest
    <3>1. PICK made \in {[kind |-> "sig", key |-> KeyAt(cfg.SignKeyHandle)],
                         [kind |-> "quote", key |-> KeyAt(cfg.AKHandle)]} :
                made.key # 0 /\ evidence' = Append(evidence, made)
      BY <2>4 DEF Attest
    <3>2. made \in Commit
      BY <3>1, KeyAtType DEF Commit
    <3>3. /\ HasWorker /\ proc = "running"
          /\ worker.signPub = KeyAt(cfg.SignKeyHandle) /\ worker.akPub = KeyAt(cfg.AKHandle)
      BY <2>4 DEF Attest, HasWorker, KeysStay
    <3>4. /\ Recorded("sign_pub", KeyAt(cfg.SignKeyHandle))
          /\ Recorded("ak_pub", KeyAt(cfg.AKHandle))
      BY <3>3 DEF WorkerMemory
    <3>5. /\ made.kind = "sig" => Recorded("sign_pub", made.key)
          /\ made.kind = "quote" => Recorded("ak_pub", made.key)
      BY <3>1, <3>4
    <3> QED BY <3>1, <3>2, <3>5, AppendKeepsRecord
  <2>5. CASE PowerFails
    BY <2>5, LossKeepsRecord DEF PowerFails
  <2>6. CASE OpenBuffer \/ ReadSignPub \/ ReadAKPub \/ TPMUnavailable \/ TickerPanics \/ Exit
    BY <2>6, <2>a DEF OpenBuffer, ReadSignPub, ReadAKPub, TPMUnavailable, TickerPanics, Exit
  <2>7. CASE ProvisionKeys \/ (\E h \in Handles : Evict(h)) \/ UNCHANGED startupVars
    BY <2>7, <2>a DEF ProvisionKeys, createPersistentRSAPSSKey, createPersistentAK,
                      ProvisionFails, Evict, startupVars
  <2>8. ASSUME NEW c \in LoadedConfigs, ProvisionStarts(c) \/ Exec(c)
        PROVE  SignatureKeyOnRecord'
    BY <2>8, <2>a DEF ProvisionStarts, Exec
  <2> QED BY <2>1, <2>2, <2>3, <2>4, <2>5, <2>6, <2>7, <2>8 DEF StartupNext, runDaemon
<1> QED BY <1>1, <1>2, StartupInvariant, PTL DEF StartupSpec
=============================================================================
