----------------------------- MODULE EdgeDaemon -----------------------------
(***************************************************************************)
(* The daemon (cmd/axm-edge): the packetizer and the uploader as           *)
(* goroutines of one process that share the trust buffer and nothing else. *)
(* A crash, or the shutdown that runDaemon calls draining but that waits   *)
(* for nobody, stops both at once, wherever they are.                      *)
(*                                                                         *)
(* When the machine loses power the buffer loses commits as well: it is    *)
(* opened with WAL and synchronous=NORMAL, where a commit is not synced,   *)
(* and recovery finds the state before one of the last of them.            *)
(***************************************************************************)
EXTENDS Packetizer, Uploader

CONSTANT MaxUnsynced    \* bound: the commits a power failure may lose

ASSUME SyncAssumption == MaxUnsynced \in Nat

VARIABLES
    unsynced,   \* the tables before each of the last commits, oldest first
    outage      \* history: the power failed and commits were lost

powerVars == <<unsynced, outage>>
daemonVars == <<packetizerVars, uploaderVars, powerVars>>

DaemonInit == PacketizerInit /\ UploaderInit /\ unsynced = <<>> /\ outage = FALSE

Tables == [packets |-> packets, quotes |-> quotes, segments |-> segments,
           faults |-> faults]

\* A step that changes a table is a commit; every statement of the code is one.
Commits ==
    LET log == Append(unsynced, Tables)
    IN  /\ unsynced' = IF bufferVars' = bufferVars THEN unsynced
                       ELSE IF Len(log) > MaxUnsynced THEN Tail(log) ELSE log
        /\ UNCHANGED outage

PacketizerStep ==
    /\ \/ TickerFires
       \/ \E state \in PrintStates : ApplyDelta(state)
       \/ onTick
    /\ UNCHANGED uploaderVars
    /\ Commits

\* Run(ctx, UploadSession), between two ticks of its ticker.
UploaderStep ==
    /\ pc # "down"
    /\ flush
    /\ UNCHANGED <<loopVars, envVars>>
    /\ Commits

DaemonStops == Crash /\ UploaderStops /\ UNCHANGED powerVars

DaemonStarts == Restart /\ UNCHANGED <<uploaderVars, powerVars>>

\* The power fails: the process is gone, and one or more of the last commits.
PowerFails ==
    /\ crashes < MaxCrashes
    /\ Dies
    /\ UploaderStops
    /\ \E n \in DOMAIN unsynced :
          /\ packets' = unsynced[n].packets /\ quotes' = unsynced[n].quotes
          /\ segments' = unsynced[n].segments /\ faults' = unsynced[n].faults
    /\ unsynced' = <<>>
    /\ outage' = TRUE

DaemonNext ==
    \/ PacketizerStep
    \/ UploaderStep
    \/ DaemonStops
    \/ DaemonStarts
    \/ PowerFails

DaemonSpec == DaemonInit /\ [][DaemonNext]_daemonVars

\* Both goroutines run on tickers; nothing promises that a daemon that stopped
\* is started again.
DaemonFairSpec ==
    /\ DaemonSpec
    /\ WF_daemonVars(TickerFires /\ UNCHANGED uploaderVars /\ Commits)
    /\ WF_daemonVars(onTick /\ UNCHANGED uploaderVars /\ Commits)
    /\ WF_daemonVars(UploaderStep)

-----------------------------------------------------------------------------
\* Without a power failure the endpoint never receives a packet in two segments,
\* although crashes and failed POSTs leave flush in doubt about what arrived.
ShippedOncePowered == ~outage => ShippedOnce

\* The packets of the session that Run is called with are all uploaded some day
\* (Run's comment in uploader.go: "uploads any pending segments"): unless packets
\* keep coming for ever, a time comes from which on none of them is pending, the
\* last and incomplete batch included.
PendingUploaded ==
    \/ []<><<Len(packets') > Len(packets)>>_packets
    \/ <>[](Pending(UploadSession) = {})

\* The same of the buffer as a whole: whatever its session, a packet does not stay
\* pending for ever.
EverythingUploaded ==
    \/ []<><<Len(packets') > Len(packets)>>_packets
    \/ <>[](\A i \in DOMAIN packets : packets[i].upload_state # "pending")
=============================================================================
