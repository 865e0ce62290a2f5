\* NewProxy's values: RetryDelay 1m, RenewalWindow 5m, Vault ttl 6m, token 1h;
\* calls take at most 10s.
SPECIFICATION FairSpec
CONSTANTS
    TTL = 36
    RenewalWindow = 30
    DefaultWindow = 30
    RetryDelay = 6
    MinSleep = 1
    TokenTTL = 360
    CallMax = 1
    MaxFail = 3
    InitialCerts = {"good"}
    InitialTokens = {TRUE}
INVARIANTS
    NeverServesExpired
    RotatesWithFreshToken
PROPERTIES
    RecoversFromOutage
