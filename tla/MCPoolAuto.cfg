SPECIFICATION Spec
CONSTANTS
    t1 = t1
    t2 = t2
    t3 = t3
    w1 = w1
    w2 = w2
    Main = main
    Nothing = nothing
    mMaxQueueSize = 2
    Tasks = {t1, t2}
    Threads = {w1}
    Kinds = {"Auto"}
PROPERTY AutoDelivers
CHECK_DEADLOCK FALSE
