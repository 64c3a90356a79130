CONSTANTS
    u1 = u1
    u2 = u2
    d1 = d1
    d2 = d2
    d3 = d3
    k1 = k1
    k2 = k2
    NoToken = NoToken
    Uids <- MCUids
    Dests <- MCDests
    Ours = {}
    Qs <- MCQs
    MaxBranches = 3
    ProvisionalCodes = {}
    FinalCodes = {200, 408, 503, 603}
    CallConfigs <- MCConfigs
    InitialContacts <- MCContacts
    LateContacts <- MCReconnections
    VoipUids = {u2}
    Tokens <- MCTokens
    Token <- MCToken
    Kind <- MCKind
    mRetransmissionCount = 1
SPECIFICATION FairPushSpec
INVARIANTS PushedOnce
PROPERTIES PickUpStopsRinging RefinesForkCall EventuallyQuiet
CHECK_DEADLOCK FALSE
