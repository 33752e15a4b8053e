\* Two buckets swept by Clear and by the cleanup goroutine while callers go
\* on; the loops of both, of the byte budget and of Close end.
CONSTANTS
    k1 = k1
    k2 = k2
    k3 = k3
    v1 = v1
    v2 = v2
    Keys = {k1, k2, k3}
    Values = {v1}
    NoValue = NoValue
    Miss = Miss
    KeyLen <- KeyLenOne
    ValLen <- MCValLen
    NBuckets = 2
    BucketOf <- TwoBuckets
    Cap1 = 1
    Cap2 = 1
    MaxBytes = 5
    Expirations = {1}
    Int64Max = 9
    MaxTime = 2
SPECIFICATION FairSpec
PROPERTIES
    CleanupOnlyExpired
    LoopsEnd
CHECK_DEADLOCK FALSE
