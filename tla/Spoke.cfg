SPECIFICATION SpokeSpec
CONSTANTS
    PrinterEdges <- PrintEdges
    MaxSilentTicks = 1
    QuoteInterval = 2
    QuoteOnLifecycle = TRUE
    TPMOpens = {TRUE, FALSE}
    MayFail = {"sign", "fault"}
    MaxTime = 4
    MaxSessions = 2
    MaxCrashes = 1
    LoadMayFail = {"quotes", "keys"}
    MaxShards = 1
INVARIANTS
    ShardIsPrefix
    ShardComplete
    SlicesHash
    SoftwareChainFromShard
    SealedQuotesBind
