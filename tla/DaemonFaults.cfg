SPECIFICATION DaemonSpec
CONSTANTS
    PrinterEdges <- PrintEdges
    MaxSilentTicks = 9
    QuoteInterval = 9
    QuoteOnLifecycle = FALSE
    TPMOpens = {TRUE, FALSE}
    MayFail = {"write"}
    MaxTime = 4
    MaxSessions = 2
    MaxCrashes = 1
    UploadSession = 1
    BatchSize = 3
    UploadMayFail <- AllUploadFailures
    MaxUnsynced = 2
INVARIANTS
    UploaderTypeOK
    SegmentsTile
    UploadedIffCovered
    RootCoversPackets
    RootIsRFC6962
    UpstreamAgrees
    ShippedOncePowered
PROPERTIES
    ImplementsLossyChain
