\* Unary calls and streams against a window of three. The system may stop:
\* a half-open breaker whose probe is lost admits nothing any more.
CONSTANTS
    Calls = {c1, c2}
    Kinds = {"unary", "async", "stream"}
    WindowSize = 3
    Num = 3
    Den = 5
SPECIFICATION FairSpec
INVARIANTS
    CountedOnce
    OneProbe
PROPERTIES
    ProbeDecides
CHECK_DEADLOCK FALSE
