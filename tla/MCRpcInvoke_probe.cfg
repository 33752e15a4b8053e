\* A probe that ends without an outcome.
CONSTANTS
    Calls = {c1, c2}
    Kinds = {"unary", "async", "stream"}
    WindowSize = 1
    Num = 3
    Den = 5
SPECIFICATION Spec
INVARIANTS
    ProbeOutstanding
CHECK_DEADLOCK FALSE
