SPECIFICATION Spec
CONSTANTS
    m1 = m1
    m2 = m2
    call = call
    Forks = {m1, m2, call}
    ForkPriority <- MixedPriority
    RetentionTime = 1
    MaxPerFork <- Announcements
    MaxAnnounced = 4
INVARIANTS NothingOvertaken NoIdleHead KeptWhenAnnouncedOnce
CHECK_DEADLOCK FALSE
