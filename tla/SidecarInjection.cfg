\* Pods of every kind, and a sentinel-init of a pod's own in both modes, dry or not,
\* with and without -excludePorts; it is run three times, and one command fails.
SPECIFICATION FairPodSpec
CONSTANTS
    ServicePort = 3005
    OutboundPort = 15001
    ExcludePorts <- MCExcludePorts
    Others = {8080}
    MaxReruns = 2
    MaxFaults = 1
    None = None
CHECK_DEADLOCK FALSE
INVARIANTS
    PodTypeOK
    ProxyNeverCaptured
    PolicyInstalled
    InjectionAddsOnly
    AppStartsIntercepted
PROPERTIES
    PodStarts
