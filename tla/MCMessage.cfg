CONSTANTS
    u1 = u1
    u2 = u2
    u3 = u3
    d1 = d1
    d2 = d2
    d3 = d3
    d4 = d4
    Uids <- MCUids
    Dests <- MCDests
    Ours = {d3}
    Qs <- MCQs
    MaxBranches = 3
    ProvisionalCodes = {180}
    FinalCodes = {200, 404, 503}
    MessageConfigs <- BothConfigs
    InitialContacts <- Start12
    LateContacts <- Reconnections
    LongDelivery = TRUE
SPECIFICATION FairSpec
INVARIANTS OneBranchPerDevice AcceptedOnceAnswered
PROPERTIES KeepsPromise KeptUntilDelivered EventuallyDestroyed
CHECK_DEADLOCK FALSE
