SPECIFICATION PolicySpec
CONSTANTS
    Profiles <- OneRulePerField
    Telemetry <- MCTelemetry
    Fields <- MCFields
    MaxEpochs = 5
INVARIANT
    VerdictFollowsHistory
