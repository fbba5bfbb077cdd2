SPECIFICATION SpokeSpec
CONSTANTS
    PrinterEdges <- PrintEdges
    MaxSilentTicks = 1
    QuoteInterval = 2
    QuoteOnLifecycle = TRUE
    TPMOpens = {TRUE}
    MayFail = {}
    MaxTime = 4
    MaxSessions = 1
    MaxCrashes = 0
    LoadMayFail = {}
    MaxShards = 1
INVARIANT
    LoadRaisesOnlyIfEmpty
