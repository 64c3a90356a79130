CONSTANTS
    u1 = u1
    u2 = u2
    d1 = d1
    d2 = d2
    d3 = d3
    None = None
    Uids <- MCUids
    Dests <- MCDests
    Ours = {}
    Qs <- MCQs
    MaxBranches = 4
    ProvisionalCodes = {}
    FinalCodes = {200, 503}
    MessageConfigs <- Configs
    InitialContacts <- TwoDevices
    LateContacts <- Registrations
    LongDelivery = TRUE
    MaxRegisters = 2
    MaxCrashes = 1
SPECIFICATION ProxySpec
INVARIANTS NotDeliveredTwice
CHECK_DEADLOCK FALSE
