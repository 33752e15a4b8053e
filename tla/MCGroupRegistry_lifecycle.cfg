\* Two goroutines open, use and close two groups under two names.
CONSTANTS
    Names = {a, b}
    Groups = {g1, g2}
    Procs = {p1, p2}
    NoName = NoName
    NoGroup = NoGroup
    NoProc = NoProc
SPECIFICATION RegistryFairSpec
INVARIANTS
    NoStoreLeak
    NoUseAfterClose
    NoClosedGroupLeft
PROPERTIES
    OperationsReturn
