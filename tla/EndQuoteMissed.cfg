SPECIFICATION PacketizerFairSpec
CONSTANTS
    PrinterEdges <- KlipperEdges
    MaxSilentTicks = 1
    QuoteInterval = 2
    QuoteOnLifecycle = TRUE
    TPMOpens = {TRUE}
    MayFail = {}
    MaxTime = 4
    MaxSessions = 1
    MaxCrashes = 0
PROPERTY
    EndOfPrintQuoted
