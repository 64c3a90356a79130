SPECIFICATION Spec
CONSTANTS
    t1 = t1
    t2 = t2
    t3 = t3
    w1 = w1
    w2 = w2
    Main = main
    Nothing = nothing
    mMaxQueueSize = 2
    Tasks = {t1, t2, t3}
    Threads = {w1, w2}
    Kinds = {"Basic", "Auto"}
INVARIANTS RunsOnce ThreadsCounted StopDrains
PROPERTY BasicDelivers
CHECK_DEADLOCK FALSE
