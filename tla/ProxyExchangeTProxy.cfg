\* The TPROXY mode.
SPECIFICATION Spec
CONSTANTS
    c1 = c1
    Conns = {c1}
    Kinds = {"tproxy"}
    MaxSent = 1
    MaxCerts = 1
CHECK_DEADLOCK FALSE
INVARIANTS
    TProxyForwards
