CONSTANTS
    u1 = u1
    u2 = u2
    u3 = u3
    d1 = d1
    d2 = d2
    d3 = d3
    d4 = d4
    Uids <- MCUids
    Dests <- MCDests
    Ours = {d4}
    Qs <- MCQs
    MaxBranches = 3
    ProvisionalCodes = {180}
    FinalCodes = {200, 401, 404, 503, 603}
    BasicConfigs <- MCConfigs
    InitialContacts <- AnyContacts
SPECIFICATION FairSpec
INVARIANTS LoopFindsBest
PROPERTIES KeepsPromise EventuallyAnswered
CHECK_DEADLOCK FALSE
