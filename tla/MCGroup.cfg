CONSTANTS
    a = a
    b = b
    c = c
    d = d
    n1 = n1
    n2 = n2
    n3 = n3
    w1 = w1
    w2 = w2
    Timer = timer
    None = None
    Tasks = {a, b, c}
    Nodes = {n1, n2, n3}
    Workers = {w1}
    TaskID <- SharedTaskID
    Sampled = {a}
    Sdft = {}
    SingleRequests = {}
    Ops <- GroupAndQuitOps
    PassiveSlashMode = FALSE
SYMMETRY Symmetry
SPECIFICATION Spec
CHECK_DEADLOCK FALSE
INVARIANTS
    CurrentTaskIsRunning
    RunningTaskIsHeld
    LedgerContract
    ExpiredGroupStaysUnvalidated
