\* Two callers of one service, its one address, two registrations in etcd.
CONSTANTS
    Callers = {c1, c2}
    Addrs = {a1}
    Target = a1
    Watcher = Watcher
    None = None
    MaxChanges = 2
SPECIFICATION FairSpec
INVARIANTS
    OneConnection
    NoConnectionLeft
    CacheFollowsEtcd
    FilledOnce
PROPERTIES
    CallsReturn
CHECK_DEADLOCK FALSE
