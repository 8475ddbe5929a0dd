CONSTANTS
    plain1 = plain1
    early1 = early1
    ticket1 = ticket1
    k1 = k1
    k2 = k2
    Requests <- MCRequests
    PathOf <- MCPathOf
    KeyOf <- MCKeyOf
    Hops = {h1}
SPECIFICATION FairSpec
CHECK_DEADLOCK FALSE
INVARIANTS NoDoubleRelease StreamHoldsLease LeaseGivenBack SlotsOfLiveRequests
PROPERTY LeaseComesBack
