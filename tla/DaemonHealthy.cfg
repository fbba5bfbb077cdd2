SPECIFICATION DaemonFairSpec
CONSTANTS
    PrinterEdges <- PauseEdges
    MaxSilentTicks = 1
    QuoteInterval = 2
    QuoteOnLifecycle = TRUE
    TPMOpens = {TRUE}
    MayFail = {}
    MaxTime = 5
    MaxSessions = 2
    MaxCrashes = 0
    UploadSession = 1
    BatchSize = 2
    UploadMayFail = {}
    MaxUnsynced = 0
INVARIANTS
    ChainRecomputable
    TicksAccountedFor
    SilenceFaulted
    QuoteBindsPacket
    SignedUnderFreshQuote
    UploadedMeansShipped
PROPERTIES
    EveryTickRecorded
    PendingUploaded
