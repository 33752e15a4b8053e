\* Two nodes whose rings change at will, a caller on each, one also writes.
CONSTANTS
    n1 = n1
    n2 = n2
    c1 = c1
    c2 = c2
    Nodes = {n1, n2}
    Calls = {c1, c2}
    Home <- MCHome
    Writers = {c1}
    Values = {v1}
    NoValue = NoValue
    Error = Error
    NoNode = NoNode
    NoThread = NoThread
SPECIFICATION FairSpec
INVARIANTS
    WaitersHaveLeader
    NoRedundantLoad
PROPERTIES
    GetReturns
