CONSTANTS
    a = a
    b = b
    c = c
    d = d
    n1 = n1
    n2 = n2
    n3 = n3
    w1 = w1
    w2 = w2
    Timer = timer
    None = None
    Tasks = {a, b}
    Nodes = {n1}
    Workers = {w1}
    TaskID <- SingleTaskID
    Sampled = {}
    Sdft = {a}
    SingleRequests <- AllTasks
    Ops <- OpsWithoutNodeSlash
    PassiveSlashMode = TRUE
SPECIFICATION FairSpec
CHECK_DEADLOCK FALSE
INVARIANTS
    RunningTaskIsHeld
PROPERTIES
    EveryTaskEnds
    PendingQuitEnds
