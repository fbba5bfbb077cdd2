SPECIFICATION StartupFairSpec
CONSTANTS
    FileConfigs <- CertificateAndIncomplete
    Handles = {1, 2}
    SignKeys = {1, 2}
    AKs = {3}
    EKCert = 5
    LiveEviction = FALSE
    MaxEvidence = 5
    MaxUnsynced = 2
INVARIANTS
    StartupTypeOK
    SignatureKeyOnRecord
    ProvisionedBoth
PROPERTIES
    StartSettles
