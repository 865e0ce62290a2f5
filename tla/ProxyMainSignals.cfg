\* One request, one attempt.
SPECIFICATION Spec
CONSTANTS
    r1 = r1
    Requests = {r1}
    LoopMax = 1
    MaxAttempts = 1
CHECK_DEADLOCK FALSE
INVARIANTS
    SignalsHandled
