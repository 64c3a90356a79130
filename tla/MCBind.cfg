SPECIFICATION Spec
CONSTANTS
    plain = plain
    again = again
    p1 = p1
    p2 = p2
    InvalidUris = {"bad"}
    NoKey = nokey
    Proxies = {p1, p2}
    UAs = {plain, again}
    Patient = {plain}
    Via <- MCVia
    Offers <- MCOffers
    Clearing = {again}
    Stored <- MCStored
    mMaxContacts = 2
    mAssumeUniqueDomains = FALSE
    MaxOps = 3
    MaxOpen = 2
    MaxTime = 1
    MaxBreaks = 1
INVARIANTS BindAnsweredOnce BindResolves OvershootBounded NoStaleBinding FetchIsClean
PROPERTY BindAnswered
CHECK_DEADLOCK FALSE
