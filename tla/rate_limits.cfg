CONSTANTS
    r1 = r1
    r2 = r2
    r3 = r3
    d1 = d1
    d2 = d2
    d3 = d3
    d4 = d4
    ka = ka
    kb = kb
    u = u
    Calls <- MCCalls
    Buckets <- MCBuckets
    RateBuckets <- MCRateBuckets
    QuotaBuckets <- MCQuotaBuckets
    AlertBuckets <- MCAlertBuckets
    ConcLimits = {0, 1, 2}
    RpmLimits = {1, 2}
    Quotas = {2}
    Window = 1
    MaxTime = 2
    MaxDay = 1
SPECIFICATION Spec
CHECK_DEADLOCK FALSE
INVARIANTS NoPhantomInflight CountedUntilRelease RateHeld DailyQuotaHeld
CONSTRAINT OneGroup
SYMMETRY SameKey
