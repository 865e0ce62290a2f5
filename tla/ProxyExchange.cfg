\* Two connections of any kinds, a request on each, two certificates.
SPECIFICATION FairSpec
CONSTANTS
    c1 = c1
    c2 = c2
    Conns = {c1, c2}
    Kinds = {"inbound", "outbound", "self", "tproxy"}
    MaxSent = 1
    MaxCerts = 2
CHECK_DEADLOCK FALSE
INVARIANTS
    OnlyVerifiedClients
    AtomicSwap
    RequestServed
PROPERTIES
    HandlerEnds
