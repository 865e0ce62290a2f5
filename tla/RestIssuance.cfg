SPECIFICATION FairSpec
CONSTANTS
    Calls = {c1, c2}
    Threads = {t1, t2}
    Accounts = {a1, a2}
    Unknown = unknown
    None = none
INVARIANTS
    CertificateIsCallers
    ContextStaysWithRequest
PROPERTIES
    EveryCallIsClosed
    ImplementsIssuer
