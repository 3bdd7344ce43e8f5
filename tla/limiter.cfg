SPECIFICATION Spec
CONSTANTS
    Clients = {c1, c2}
    Window = 2
    PerIp = 2
    Global = 3
    ClockSteps <- SetBack
    MaxSkew = 1
    MaxTime = 4
    MaxRequests = 7
SYMMETRY MCSymmetry
INVARIANTS TypeOK Rates RefusedForCause
CHECK_DEADLOCK FALSE
