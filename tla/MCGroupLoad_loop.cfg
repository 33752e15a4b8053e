\* Disagreeing rings: two forwarded requests wait for each other.
CONSTANTS
    n1 = n1
    n2 = n2
    c1 = c1
    c2 = c2
    Nodes = {n1, n2}
    Calls = {c1, c2}
    Home <- MCHome
    Writers = {}
    Values = {v1}
    NoValue = NoValue
    Error = Error
    NoNode = NoNode
    NoThread = NoThread
SPECIFICATION Spec
INVARIANTS
    NoForwardingLoop
