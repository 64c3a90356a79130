CONSTANTS
    u1 = u1
    u2 = u2
    u3 = u3
    d1 = d1
    d2 = d2
    d3 = d3
    d4 = d4
    Uids <- MCUids
    Dests <- MCDests
    Ours = {d3}
    Qs <- MCQs
    MaxBranches = 3
    ProvisionalCodes = {180}
    FinalCodes = {200, 503, 603}
    CallConfigs <- AllConfigs
    InitialContacts <- AnyDevices
    LateContacts <- Reconnections
    VoipUids = {u1}
SPECIFICATION FairSpec
INVARIANTS TypeOK AnsweredOnce NoPhantomRinging
PROPERTIES FailureIsComplete NoCallAfterCompletion KeepsPromise EventuallyDestroyed
CHECK_DEADLOCK FALSE
