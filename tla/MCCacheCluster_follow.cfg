\* One picker; a node that is granted two leases, and one event of another peer,
\* whose virtual nodes collide with its own. A picker that is closed and a node
\* that is stopped end.
CONSTANTS
    Nodes = {0, 1, 2}
    Self = 0
    Hashes = {0, 1, 2, 3, 4, 5, 6}
    VHash <- MCVHash
    Unusable = {}
    Node = 1
    MaxLeases = 2
    MaxOthers = 1
    MaxLog = 5
SPECIFICATION ClusterFairSpec
INVARIANTS
    PickPeerAnswers
    FollowsEtcd
    RunsRegistered
PROPERTIES
    MinimalRemapping
    CatchesUp
    StopLeaves
CHECK_DEADLOCK FALSE
