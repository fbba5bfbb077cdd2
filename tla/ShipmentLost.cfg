SPECIFICATION DaemonSpec
CONSTANTS
    PrinterEdges <- PrintEdges
    MaxSilentTicks = 9
    QuoteInterval = 9
    QuoteOnLifecycle = FALSE
    TPMOpens = {FALSE}
    MayFail = {}
    MaxTime = 4
    MaxSessions = 1
    MaxCrashes = 0
    UploadSession = 1
    BatchSize = 2
    UploadMayFail = {"post"}
    MaxUnsynced = 0
INVARIANT
    UploadedMeansShipped
