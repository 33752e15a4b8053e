\* One bucket, both levels full, a byte budget that overflows before the
\* slots do, expiring and non-expiring entries.
CONSTANTS
    k1 = k1
    k2 = k2
    k3 = k3
    v1 = v1
    v2 = v2
    Keys = {k1, k2, k3}
    Values = {v1, v2}
    NoValue = NoValue
    Miss = Miss
    KeyLen <- KeyLenOne
    ValLen <- MCValLen
    NBuckets = 1
    BucketOf <- OneBucket
    Cap1 = 2
    Cap2 = 1
    MaxBytes = 5
    Expirations = {0, 1}
    Int64Max = 9
    MaxTime = 2
SPECIFICATION Spec
SYMMETRY KeySymmetry
INVARIANTS
    LiveInOneLevel
    DeadSlotsLast
    ByteBudget
PROPERTIES
    OneCallPerLoss
    ImplementsContract
CHECK_DEADLOCK FALSE
