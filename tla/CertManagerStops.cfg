\* The managers of cert_manager_test.go, with and without a certificate and a
\* token, cancelled at any time; the certificates live shorter than the window.
SPECIFICATION LiveSpec
CONSTANTS
    TTL = 4
    RenewalWindow = 0
    DefaultWindow = 5
    RetryDelay = 2
    MinSleep = 1
    TokenTTL = 12
    CallMax = 2
    MaxFail = 1
    InitialCerts = {"none", "good", "unparsable"}
    InitialTokens = {TRUE, FALSE}
INVARIANTS
    FewLateFetches
    FirstCertificate
PROPERTIES
    StopsOnCancel
    NoHotLoop
