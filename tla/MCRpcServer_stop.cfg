\* A GracefulStop and a Stop against Serve, two connections and their requests.
CONSTANTS
    c1 = c1
    c2 = c2
    Conns = {c1, c2}
    Graceful = {g}
    Hard = {h}
    MaxRequests <- TwoAndOne
    Rate = 1
SPECIFICATION FairSpec
INVARIANTS
    NothingEscapesSweep
    GracefulLosesNothing
PROPERTIES
    StopsReturn
CHECK_DEADLOCK FALSE
