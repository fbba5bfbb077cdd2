SPECIFICATION DaemonFairSpec
CONSTANTS
    PrinterEdges <- PrintEdges
    MaxSilentTicks = 9
    QuoteInterval = 9
    QuoteOnLifecycle = FALSE
    TPMOpens = {FALSE}
    MayFail = {}
    MaxTime = 2
    MaxSessions = 1
    MaxCrashes = 0
    UploadSession = 0
    BatchSize = 2
    UploadMayFail = {}
    MaxUnsynced = 0
PROPERTIES
    EverythingUploaded
