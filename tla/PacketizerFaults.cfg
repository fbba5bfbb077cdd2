SPECIFICATION PacketizerSpec
CONSTANTS
    PrinterEdges <- AnyEdges
    MaxSilentTicks = 1
    QuoteInterval = 2
    QuoteOnLifecycle = TRUE
    TPMOpens = {TRUE, FALSE}
    MayFail <- AllFailures
    MaxTime = 4
    MaxSessions = 2
    MaxCrashes = 1
INVARIANTS
    TypeOK
    ChainLinked
    NeverWedged
    ChainMemory
    StoredSigVerifies
    QuoteOfOwnSession
PROPERTIES
    AppendOnly
    ImplementsHashChain
